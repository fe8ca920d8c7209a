---------------------------- MODULE RateLimiter -----------------------------
(***************************************************************************)
(* The rate limiter every request passes first: a sliding window per       *)
(* client and path group, kept in Redis as a sorted set of timestamps.     *)
(* Limit is each group's: a client that spreads its requests over several  *)
(* groups gets as many times that (PerClient, at the end).                 *)
(*                                                                         *)
(* The script that decides runs on Redis and is one action.  But the time  *)
(* it works with was read earlier, on the clock of whichever API instance  *)
(* serves the request; scripts run late and out of order; replies get lost *)
(* and the client library then runs the script again; Redis restarts.      *)
(***************************************************************************)
EXTENDS Naturals, Sequences, FiniteSets

CONSTANTS
  Requests,     \* HTTP requests
  Clients,      \* IP addresses
  Paths,        \* URL paths, as sequences of segments
  Window,       \* the window and the key's TTL (60 000 ms)
  Limit,        \* admissions per window (100)
  Skew,         \* bound on how far the instances' clocks are apart
  Delay,        \* bound on the time from reading the clock to the script's run
  MaxTime       \* bound on now

ASSUME LimiterAssumption ==
  /\ IsFiniteSet(Requests)
  /\ Paths \subseteq Seq(STRING)
  /\ Window \in Nat /\ Limit \in Nat \ {0} /\ Skew \in Nat /\ Delay \in Nat
  /\ MaxTime \in Nat

VARIABLES
  now,          \* the time, on the slowest clock
  from,         \* request -> its client and path
  pc,           \* request -> idle, sent (the script is to run) or done
  sentAt,       \* history: request -> when its time was read
  stamp,        \* request -> the time it read, the score of its member
  bucket,       \* key -> the members of its sorted set
  expires,      \* key -> when Redis drops it
  admitted,     \* history: request -> when the script last admitted it, as far
                \*   as Redis can know; 0: it did not
  resp          \* request -> served, refused (429), or open (served uncounted)

vars == <<now, from, pc, sentAt, stamp, bucket, expires, admitted, resp>>

(* A group is the first two segments.                                      *)
PathGroup(path) == IF Len(path) >= 2 THEN SubSeq(path, 1, 2) ELSE path

Keys == Clients \X {PathGroup(p) : p \in Paths}

KeyOf(f) == <<f.client, PathGroup(f.path)>>
Key(r) == KeyOf(from[r])

(* Redis holds no more than Limit members per key.                         *)
TypeOK ==
  /\ now \in 1 .. MaxTime + 1
  /\ from \in [Requests -> [client : Clients, path : Paths]]
  /\ pc \in [Requests -> {"idle", "sent", "done"}]
  /\ sentAt \in [Requests -> Nat]
  /\ stamp \in [Requests -> Nat]
  /\ bucket \in [Keys -> SUBSET Requests]
  /\ expires \in [Keys -> Nat]
  /\ admitted \in [Requests -> Nat]
  /\ resp \in [Requests -> {"none", "served", "refused", "open"}]
  /\ \A k \in Keys : Cardinality(bucket[k]) <= Limit

Init ==
  /\ now = 1
  /\ from \in [Requests -> [client : Clients, path : Paths]]
  /\ pc = [r \in Requests |-> "idle"]
  /\ sentAt = [r \in Requests |-> 0]
  /\ stamp = [r \in Requests |-> 0]
  /\ bucket = [k \in Keys |-> {}]
  /\ expires = [k \in Keys |-> 0]
  /\ admitted = [r \in Requests |-> 0]
  /\ resp = [r \in Requests |-> "none"]

-----------------------------------------------------------------------------
(* nowMs := time.Now().UnixMilli(), and Allow is called.                   *)
Arrive(r) ==
  /\ pc[r] = "idle"
  /\ pc' = [pc EXCEPT ![r] = "sent"]
  /\ sentAt' = [sentAt EXCEPT ![r] = now]
  /\ \E t \in now .. now + Skew : stamp' = [stamp EXCEPT ![r] = t]
  /\ UNCHANGED <<now, from, bucket, expires, admitted, resp>>

(* The sorted set, unless Redis has dropped it.                            *)
Live(k) == IF now <= expires[k] THEN bucket[k] ELSE {}

KeepAll(k, r) == Live(k)                      \* a mutant: no ZREMRANGEBYSCORE
Kept(k, r) == {q \in Live(k) : stamp[q] + Window > stamp[r]}

UpToLimit(S) == Cardinality(S) <= Limit       \* a mutant: off by one
HasRoom(S) == Cardinality(S) < Limit

AlwaysExtended(k, S) == now + Window          \* a mutant: PEXPIRE before the test
Expiry(k, S) == IF HasRoom(S) THEN now + Window ELSE expires[k]

(* The script runs; then its reply arrives, or is lost and the call is     *)
(* repeated or gives up.                                                   *)
Allow(r) ==
  LET k == Key(r)
      S == Kept(k, r)
  IN
  /\ pc[r] = "sent" /\ now <= sentAt[r] + Delay
  /\ bucket' = [bucket EXCEPT ![k] = IF HasRoom(S) THEN S \cup {r} ELSE S]
  /\ expires' = [expires EXCEPT ![k] = Expiry(k, S)]
  /\ admitted' = IF HasRoom(S) THEN [admitted EXCEPT ![r] = now] ELSE admitted
  /\ \/ /\ pc' = [pc EXCEPT ![r] = "done"]
        /\ resp' = [resp EXCEPT ![r] = IF HasRoom(S) THEN "served" ELSE "refused"]
     \/ /\ pc' = [pc EXCEPT ![r] = "done"]
        /\ resp' = [resp EXCEPT ![r] = "open"]
     \/ UNCHANGED <<pc, resp>>
  /\ UNCHANGED <<now, from, sentAt, stamp>>

(* Redis cannot be reached: the request is served all the same.            *)
FailOpen(r) ==
  /\ pc[r] = "sent"
  /\ pc' = [pc EXCEPT ![r] = "done"]
  /\ resp' = [resp EXCEPT ![r] = "open"]
  /\ UNCHANGED <<now, from, sentAt, stamp, bucket, expires, admitted>>

(* Redis runs without persistence.                                         *)
RedisRestarts ==
  /\ bucket' = [k \in Keys |-> {}]
  /\ admitted' = [r \in Requests |-> 0]
  /\ UNCHANGED <<now, from, pc, sentAt, stamp, expires, resp>>

Tick ==
  /\ now <= MaxTime
  /\ now' = now + 1
  /\ UNCHANGED <<from, pc, sentAt, stamp, bucket, expires, admitted, resp>>

Next ==
  \/ \E r \in Requests : Arrive(r) \/ Allow(r) \/ FailOpen(r)
  \/ RedisRestarts
  \/ Tick

Spec == Init /\ [][Next]_vars

-----------------------------------------------------------------------------
(* How far two requests' timestamps may be out of order.                   *)
Disorder == Skew + Delay

(* The requests admitted less than n ago, by the time on Redis.            *)
Since(n) == {r \in Requests : admitted[r] # 0 /\ now < admitted[r] + n}

(* Those of one key admitted less than Window - Disorder ago.              *)
Recent(k) == {r \in Requests : /\ Key(r) = k /\ admitted[r] # 0
                               /\ now + Disorder < admitted[r] + Window}

(* Between restarts of Redis, no span of Window - Disorder has more than   *)
(* Limit admissions of a key - one client's calls of one path group -      *)
(* however clocks differ, scripts are delayed and repeated, and keys       *)
(* expire.  Requests served open, for want of an answer from Redis, count  *)
(* only if the script ran for them.                                        *)
WithinLimit == \A k \in Keys : Cardinality(Recent(k)) <= Limit

(* Who is refused has its quota's worth of admissions behind it: Limit of  *)
(* its key within Window + Disorder.                                       *)
RefusalsAreEarned ==
  [][\A r \in Requests : resp[r] # "refused" /\ resp'[r] = "refused" =>
       Cardinality({q \in Since(Window + Disorder) : Key(q) = Key(r)}) >= Limit]_vars

(* Retry-After is true: a request is refused only if one of its key was    *)
(* admitted within the last Window, so that after waiting as long as told  *)
(* it is admitted, unless others were meanwhile - on any clock.            *)
RetryAfterIsEnough ==
  [][\A r \in Requests : resp[r] # "refused" /\ resp'[r] = "refused" =>
       \E q \in Since(Window + 1) : Key(q) = Key(r)]_vars
-----------------------------------------------------------------------------
(* What the documentation says and the code does not do.                   *)

(* "100 requests per minute per IP across all endpoints": of the requests  *)
(* of one client, whatever their paths, no more than Limit were admitted   *)
(* and served in any span of Window, less the disorder of timestamps.      *)
PerClient ==
  \A c \in Clients :
    Cardinality({r \in Requests : /\ from[r].client = c /\ resp[r] = "served"
                                 /\ admitted[r] # 0
                                 /\ now + Disorder < admitted[r] + Window}) <= Limit
=============================================================================
