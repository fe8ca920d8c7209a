------------------------- MODULE RateLimiterProofs --------------------------
(***************************************************************************)
(* TLAPS proofs that the sliding window admits no more than it should and  *)
(* refuses no more than it should, for any number of requests, clients and *)
(* paths, any window and limit, and any bounds on skew and delay.          *)
(***************************************************************************)
EXTENDS RateLimiter, FiniteSetTheorems, TLAPS

(* A request's timestamp is off by at most Skew.                           *)
Stamped ==
  \A r \in Requests : pc[r] # "idle" =>
    /\ sentAt[r] <= now
    /\ sentAt[r] <= stamp[r] /\ stamp[r] <= sentAt[r] + Skew

(* The script runs within Delay of it.                                     *)
AdmittedInTime ==
  \A r \in Requests : admitted[r] # 0 =>
    /\ pc[r] # "idle"
    /\ sentAt[r] <= admitted[r] /\ admitted[r] <= sentAt[r] + Delay
    /\ admitted[r] <= now

(* A bucket has admitted requests of its key, and lives as long as its     *)
(* last admission says.                                                    *)
Bucketed ==
  \A k \in Keys :
    /\ \A r \in bucket[k] :
         Key(r) = k /\ admitted[r] # 0 /\ admitted[r] + Window <= expires[k]
    /\ bucket[k] # {} => \E q \in Requests :
         Key(q) = k /\ admitted[q] # 0 /\ expires[k] = admitted[q] + Window

(* No request is purged that could still matter on the slowest clock.      *)
Remembered ==
  \A r \in Requests :
    admitted[r] # 0 /\ now + Disorder < admitted[r] + Window => r \in bucket[Key(r)]

IInv == TypeOK /\ Stamped /\ AdmittedInTime /\ Bucketed /\ Remembered

-----------------------------------------------------------------------------
(* Requests have keys.                                                     *)
LEMMA KeyType ==
  ASSUME TypeOK, NEW r \in Requests
  PROVE  Key(r) \in Keys
BY DEF TypeOK, Key, KeyOf, Keys

(* Any set of requests is finite.                                          *)
LEMMA Finite ==
  ASSUME NEW S \in SUBSET Requests
  PROVE  IsFiniteSet(S) /\ Cardinality(S) \in Nat
BY LimiterAssumption, FS_Subset, FS_CardinalityType

(* Initially no request has been made.                                     *)
LEMMA InitIInv == Init => IInv
<1> SUFFICES ASSUME Init PROVE IInv
  OBVIOUS
<1>1. TypeOK
  <2>1. Cardinality({}) = 0
    BY FS_EmptySet
  <2> QED
    BY <2>1, LimiterAssumption DEF Init, TypeOK
<1>2. Stamped /\ AdmittedInTime /\ Bucketed /\ Remembered
  BY DEF Init, Stamped, AdmittedInTime, Bucketed, Remembered
<1> QED
  BY <1>1, <1>2 DEF IInv

(* A new request reads the time.                                           *)
LEMMA ArriveIInv ==
  ASSUME IInv, NEW r \in Requests, Arrive(r)
  PROVE  IInv'
<1> USE DEF IInv
<1>1. PICK t \in now .. now + Skew : stamp' = [stamp EXCEPT ![r] = t]
  BY DEF Arrive
<1>2. /\ pc' = [pc EXCEPT ![r] = "sent"] /\ sentAt' = [sentAt EXCEPT ![r] = now]
      /\ pc[r] = "idle"
      /\ UNCHANGED <<now, from, bucket, expires, admitted, resp>>
  BY DEF Arrive
<1>3. now \in Nat /\ t \in Nat /\ now <= t /\ t <= now + Skew
  BY <1>1, LimiterAssumption DEF TypeOK
<1>4. TypeOK'
  BY <1>1, <1>2, <1>3 DEF TypeOK
<1>5. Stamped'
  BY <1>1, <1>2, <1>3 DEF Stamped, TypeOK
<1>6. AdmittedInTime'
  BY <1>2 DEF AdmittedInTime, TypeOK
<1>7. Bucketed' /\ Remembered'
  BY <1>2 DEF Bucketed, Remembered, Key, Disorder
<1> QED
  BY <1>4, <1>5, <1>6, <1>7

(* What the script keeps is of the bucket, and nothing that matters goes.  *)
LEMMA KeptFacts ==
  ASSUME IInv, NEW r \in Requests, pc[r] = "sent", now <= sentAt[r] + Delay,
         NEW k, k = Key(r), NEW S, S = Kept(k, r)
  PROVE  /\ S \subseteq bucket[k] /\ S \in SUBSET Requests
         /\ Cardinality(S) \in Nat /\ Cardinality(S) <= Limit
         /\ S # {} => now <= expires[k]
         /\ \A q \in S : now < admitted[q] + Window + Disorder
         /\ \A q \in bucket[k] : now + Disorder < admitted[q] + Window => q \in S
<1> USE DEF IInv
<1>1. k \in Keys
  BY KeyType
<1>2. bucket[k] \in SUBSET Requests /\ Cardinality(bucket[k]) <= Limit
  BY <1>1 DEF TypeOK
<1>3. S \subseteq bucket[k] /\ (S # {} => now <= expires[k])
  BY DEF Kept, Live
<1>4. Cardinality(S) \in Nat /\ Cardinality(S) <= Limit
  <2>1. IsFiniteSet(bucket[k]) /\ Cardinality(bucket[k]) \in Nat
    BY <1>2, Finite
  <2>2. IsFiniteSet(S) /\ Cardinality(S) <= Cardinality(bucket[k])
    BY <1>3, <2>1, FS_Subset
  <2> QED
    BY <1>2, <2>1, <2>2, FS_CardinalityType, LimiterAssumption
<1>5. /\ now \in Nat /\ Window \in Nat /\ Skew \in Nat /\ Delay \in Nat /\ expires[k] \in Nat
      /\ \A q \in Requests : sentAt[q] \in Nat /\ stamp[q] \in Nat /\ admitted[q] \in Nat
  BY <1>1, LimiterAssumption DEF TypeOK
<1>6. sentAt[r] <= now /\ sentAt[r] <= stamp[r] /\ stamp[r] <= sentAt[r] + Skew
  BY DEF Stamped
<1>7. \A q \in bucket[k] :
        /\ q \in Requests /\ admitted[q] + Window <= expires[k]
        /\ stamp[q] <= sentAt[q] + Skew /\ sentAt[q] <= stamp[q]
        /\ sentAt[q] <= admitted[q] /\ admitted[q] <= sentAt[q] + Delay
  BY <1>1, <1>2 DEF Bucketed, Stamped, AdmittedInTime
<1>8. ASSUME NEW q \in S PROVE now < admitted[q] + Window + Disorder
  <2>1. q \in bucket[k] /\ stamp[q] + Window > stamp[r]
    BY <1>3 DEF Kept
  <2> QED
    BY <2>1, <1>5, <1>6, <1>7 DEF Disorder
<1>9. ASSUME NEW q \in bucket[k], now + Disorder < admitted[q] + Window PROVE q \in S
  <2>1. now <= expires[k] /\ stamp[q] + Window > stamp[r]
    BY <1>5, <1>6, <1>7, <1>9 DEF Disorder
  <2> QED
    BY <2>1 DEF Kept, Live
<1> QED
  BY <1>2, <1>3, <1>4, <1>8, <1>9

(* The script keeps the invariant.                                         *)
LEMMA AllowIInv ==
  ASSUME IInv, NEW r \in Requests, Allow(r)
  PROVE  IInv'
<1> USE DEF IInv
<1>1. PICK k : k = Key(r)
  OBVIOUS
<1>2. PICK S : S = Kept(k, r)
  OBVIOUS
<1>3. /\ pc[r] = "sent" /\ now <= sentAt[r] + Delay
      /\ bucket' = [bucket EXCEPT ![k] = IF HasRoom(S) THEN S \cup {r} ELSE S]
      /\ expires' = [expires EXCEPT ![k] = Expiry(k, S)]
      /\ admitted' = IF HasRoom(S) THEN [admitted EXCEPT ![r] = now] ELSE admitted
      /\ UNCHANGED <<now, from, sentAt, stamp>>
  BY <1>1, <1>2 DEF Allow
<1>4. /\ pc' \in [Requests -> {"idle", "sent", "done"}]
      /\ resp' \in [Requests -> {"none", "served", "refused", "open"}]
      /\ \A q \in Requests : pc'[q] # "idle" <=> pc[q] # "idle"
  BY <1>1, <1>2, <1>3, SMTT(30) DEF Allow, TypeOK
<1>5. k \in Keys /\ now \in Nat \ {0} /\ Window \in Nat /\ Limit \in Nat /\ Disorder \in Nat
      /\ Skew \in Nat /\ Delay \in Nat
  BY <1>1, KeyType, LimiterAssumption DEF TypeOK, Disorder
<1>6. /\ S \subseteq bucket[k] /\ S \in SUBSET Requests
      /\ Cardinality(S) \in Nat /\ Cardinality(S) <= Limit
      /\ S # {} => now <= expires[k]
      /\ \A q \in bucket[k] : now + Disorder < admitted[q] + Window => q \in S
  BY <1>1, <1>2, <1>3, KeptFacts
<1>7. /\ \A f \in Keys \ {k} : bucket'[f] = bucket[f] /\ expires'[f] = expires[f]
      /\ \A q \in Requests \ {r} : admitted'[q] = admitted[q]
      /\ \A q : Key(q)' = Key(q)
      /\ \A q \in Requests : admitted[q] \in Nat
  BY <1>3 DEF TypeOK, Key
<1>8. CASE ~ HasRoom(S)
  <2>1. bucket'[k] = S /\ expires'[k] = expires[k] /\ admitted' = admitted
    BY <1>3, <1>5, <1>8 DEF TypeOK, Expiry
  <2>2. bucket' \in [Keys -> SUBSET Requests] /\ expires' \in [Keys -> Nat]
    BY <1>3, <1>6, <1>8 DEF TypeOK, Expiry
  <2>3. TypeOK'
    BY <1>3, <1>4, <1>6, <1>7, <2>1, <2>2 DEF TypeOK
  <2>4. Stamped' /\ AdmittedInTime'
    BY <1>3, <1>4, <2>1 DEF Stamped, AdmittedInTime
  <2>5. Bucketed'
    BY <1>5, <1>6, <1>7, <2>1 DEF Bucketed
  <2>6. Remembered'
    BY <1>3, <1>5, <1>6, <1>7, <2>1, KeyType DEF Remembered, Disorder
  <2> QED
    BY <2>3, <2>4, <2>5, <2>6
<1>9. CASE HasRoom(S)
  <2>1. /\ bucket'[k] = S \cup {r} /\ expires'[k] = now + Window
        /\ admitted'[r] = now
    BY <1>3, <1>5, <1>9 DEF TypeOK, Expiry
  <2>2. Cardinality(S \cup {r}) <= Limit
    <3>1. IsFiniteSet(S) /\ Cardinality(S) < Limit
      BY <1>6, <1>9, Finite DEF HasRoom
    <3>2. Cardinality(S \cup {r}) = Cardinality(S)
          \/ Cardinality(S \cup {r}) = Cardinality(S) + 1
      BY <3>1, FS_AddElement
    <3> QED
      BY <1>5, <1>6, <3>1, <3>2
  <2>3. bucket' \in [Keys -> SUBSET Requests] /\ expires' \in [Keys -> Nat]
        /\ admitted' \in [Requests -> Nat]
    BY <1>3, <1>5, <1>6, <1>9 DEF TypeOK, Expiry
  <2>4. TypeOK'
    BY <1>3, <1>4, <1>7, <2>1, <2>2, <2>3 DEF TypeOK
  <2>5. Stamped'
    BY <1>3, <1>4 DEF Stamped
  <2>6. AdmittedInTime'
    <3>1. sentAt[r] <= now /\ now <= now
      BY <1>3, <1>5 DEF Stamped
    <3> QED
      BY <1>3, <1>4, <1>7, <2>1, <3>1 DEF AdmittedInTime
  <2>7. Bucketed'
    <3>1. \A q \in bucket'[k] :
            Key(q)' = k /\ admitted'[q] # 0 /\ admitted'[q] + Window <= expires'[k]
      <4> SUFFICES ASSUME NEW q \in bucket'[k]
                   PROVE  /\ Key(q) = k /\ admitted'[q] # 0
                          /\ admitted'[q] + Window <= now + Window
        BY <1>7, <2>1
      <4>1. CASE q = r
        BY <1>1, <1>5, <2>1, <4>1
      <4>2. CASE q # r
        <5>1. q \in S /\ q \in Requests
          BY <1>6, <2>1, <4>2
        <5>2. Key(q) = k /\ admitted[q] # 0 /\ admitted[q] <= now
          BY <1>5, <1>6, <5>1 DEF Bucketed, AdmittedInTime
        <5> QED
          BY <1>5, <1>7, <4>2, <5>1, <5>2
      <4> QED
        BY <4>1, <4>2
    <3>2. ASSUME NEW f \in Keys, f # k
          PROVE  /\ \A q \in bucket'[f] : /\ Key(q)' = f /\ admitted'[q] # 0
                                          /\ admitted'[q] + Window <= expires'[f]
                 /\ bucket'[f] # {} => \E q \in Requests :
                      Key(q)' = f /\ admitted'[q] # 0 /\ expires'[f] = admitted'[q] + Window
      <4>1. /\ \A q \in bucket[f] : /\ q \in Requests /\ Key(q) = f /\ admitted[q] # 0
                                    /\ admitted[q] + Window <= expires[f]
            /\ bucket[f] # {} => \E q \in Requests :
                 Key(q) = f /\ admitted[q] # 0 /\ expires[f] = admitted[q] + Window
        BY <3>2 DEF Bucketed, TypeOK
      <4>2. \A q \in Requests : Key(q) = f => q # r
        BY <1>1, <3>2
      <4> QED
        BY <1>7, <3>2, <4>1, <4>2
    <3> QED
      BY <1>1, <1>5, <1>7, <2>1, <3>1, <3>2 DEF Bucketed
  <2>8. Remembered'
    <3> SUFFICES ASSUME NEW q \in Requests, admitted'[q] # 0,
                        now + Disorder < admitted'[q] + Window
                 PROVE  q \in bucket'[Key(q)]
      BY <1>3, <1>7 DEF Remembered, Disorder
    <3>1. CASE q = r
      BY <1>1, <2>1, <3>1
    <3>2. CASE q # r
      <4>1. q \in bucket[Key(q)] /\ now + Disorder < admitted[q] + Window
        BY <1>7, <3>2 DEF Remembered
      <4>2. CASE Key(q) = k
        BY <1>6, <2>1, <4>1, <4>2
      <4>3. CASE Key(q) # k
        BY <1>7, <4>1, <4>3, KeyType
      <4> QED
        BY <4>2, <4>3
    <3> QED
      BY <3>1, <3>2
  <2> QED
    BY <2>4, <2>5, <2>6, <2>7, <2>8
<1> QED
  BY <1>8, <1>9

(* A request served uncounted changes nothing in Redis.                    *)
LEMMA FailOpenIInv ==
  ASSUME IInv, NEW r \in Requests, FailOpen(r)
  PROVE  IInv'
<1> USE DEF IInv
<1>1. /\ pc[r] = "sent" /\ pc' = [pc EXCEPT ![r] = "done"]
      /\ resp' = [resp EXCEPT ![r] = "open"]
      /\ UNCHANGED <<now, from, sentAt, stamp, bucket, expires, admitted>>
  BY DEF FailOpen
<1>2. TypeOK'
  BY <1>1 DEF TypeOK
<1>3. Stamped' /\ AdmittedInTime'
  BY <1>1 DEF Stamped, AdmittedInTime, TypeOK
<1>4. Bucketed' /\ Remembered'
  BY <1>1 DEF Bucketed, Remembered, Key, Disorder
<1> QED
  BY <1>2, <1>3, <1>4

(* After a restart nothing is claimed of the requests before it.           *)
LEMMA RestartIInv ==
  ASSUME IInv, RedisRestarts
  PROVE  IInv'
<1> USE DEF IInv
<1>1. /\ bucket' = [k \in Keys |-> {}] /\ admitted' = [r \in Requests |-> 0]
      /\ UNCHANGED <<now, from, pc, sentAt, stamp, expires, resp>>
  BY DEF RedisRestarts
<1>2. TypeOK'
  <2>1. Cardinality({}) = 0
    BY FS_EmptySet
  <2> QED
    BY <1>1, <2>1, LimiterAssumption DEF TypeOK
<1>3. Stamped' /\ AdmittedInTime' /\ Bucketed' /\ Remembered'
  BY <1>1 DEF Stamped, AdmittedInTime, Bucketed, Remembered
<1> QED
  BY <1>2, <1>3

(* Time only makes admissions older.                                       *)
LEMMA TickIInv ==
  ASSUME IInv, Tick
  PROVE  IInv'
<1> USE DEF IInv
<1>1. /\ now <= MaxTime /\ now' = now + 1
      /\ UNCHANGED <<from, pc, sentAt, stamp, bucket, expires, admitted, resp>>
  BY DEF Tick
<1>2. /\ now \in Nat /\ Disorder \in Nat /\ Window \in Nat
      /\ \A r \in Requests : sentAt[r] \in Nat /\ admitted[r] \in Nat
  BY LimiterAssumption DEF TypeOK, Disorder
<1>3. TypeOK'
  BY <1>1, LimiterAssumption DEF TypeOK
<1>4. Stamped' /\ AdmittedInTime'
  BY <1>1, <1>2 DEF Stamped, AdmittedInTime
<1>5. Bucketed'
  BY <1>1 DEF Bucketed, Key
<1>6. Remembered'
  <2>1. \A r \in Requests : now' + Disorder < admitted[r] + Window =>
                            now + Disorder < admitted[r] + Window
    BY <1>1, <1>2
  <2> QED
    BY <1>1, <2>1 DEF Remembered, Key, Disorder
<1> QED
  BY <1>3, <1>4, <1>5, <1>6

(* Every step keeps the invariant.                                         *)
LEMMA NextIInv == IInv /\ [Next]_vars => IInv'
<1> SUFFICES ASSUME IInv, [Next]_vars PROVE IInv'
  OBVIOUS
<1>1. CASE UNCHANGED vars
  BY <1>1 DEF vars, IInv, TypeOK, Stamped, AdmittedInTime, Bucketed, Remembered, Key,
              Disorder
<1> QED
  BY <1>1, ArriveIInv, AllowIInv, FailOpenIInv, RestartIInv, TickIInv DEF Next

-----------------------------------------------------------------------------
(* Every variable keeps its type, and no key ever has more than Limit      *)
(* members in Redis.                                                       *)
THEOREM LimiterTypeOK == Spec => []TypeOK
<1>1. IInv => TypeOK
  BY DEF IInv
<1> QED
  BY <1>1, InitIInv, NextIInv, PTL DEF Spec

(* However far apart the instances' clocks are, and however late scripts   *)
(* run, a key has at most Limit admissions in any Window - Disorder.       *)
THEOREM AlwaysWithinLimit == Spec => []WithinLimit
<1>1. ASSUME IInv PROVE WithinLimit
  <2> USE <1>1 DEF IInv
  <2> SUFFICES ASSUME NEW k \in Keys PROVE Cardinality(Recent(k)) <= Limit
    BY DEF WithinLimit
  <2>1. bucket[k] \in SUBSET Requests /\ Cardinality(bucket[k]) <= Limit
    BY DEF TypeOK
  <2>2. Recent(k) \subseteq bucket[k]
    BY DEF Recent, Remembered
  <2>3. IsFiniteSet(bucket[k]) /\ Cardinality(bucket[k]) \in Nat
    BY <2>1, Finite
  <2>4. Cardinality(Recent(k)) \in Nat /\ Cardinality(Recent(k)) <= Cardinality(bucket[k])
    BY <2>2, <2>3, FS_Subset, FS_CardinalityType
  <2> QED
    BY <2>1, <2>3, <2>4, LimiterAssumption
<1> QED
  BY <1>1, InitIInv, NextIInv, PTL DEF Spec

(* The set the script counts when it refuses: full, and alive.             *)
LEMMA Refused ==
  ASSUME IInv, [Next]_vars, NEW r \in Requests,
         resp[r] # "refused", resp'[r] = "refused"
  PROVE  \E S \in SUBSET bucket[Key(r)] :
           /\ S = Kept(Key(r), r) /\ Cardinality(S) \in Nat /\ Cardinality(S) >= Limit
           /\ pc[r] = "sent" /\ now <= sentAt[r] + Delay
<1> USE DEF IInv
<1>1. ASSUME NEW q \in Requests, Arrive(q) \/ FailOpen(q) PROVE FALSE
  BY <1>1 DEF Arrive, FailOpen, TypeOK
<1>2. (RedisRestarts \/ Tick \/ UNCHANGED vars) => FALSE
  BY DEF RedisRestarts, Tick, vars
<1>3. ASSUME NEW q \in Requests, Allow(q)
      PROVE  \E S \in SUBSET bucket[Key(r)] :
               /\ S = Kept(Key(r), r) /\ Cardinality(S) \in Nat /\ Cardinality(S) >= Limit
               /\ pc[r] = "sent" /\ now <= sentAt[r] + Delay
  <2>1. PICK S : S = Kept(Key(q), q)
    OBVIOUS
  <2>2. q = r /\ ~ HasRoom(S) /\ pc[q] = "sent" /\ now <= sentAt[q] + Delay
    BY <1>3, <2>1 DEF Allow, TypeOK
  <2>3. S \subseteq bucket[Key(q)] /\ Cardinality(S) \in Nat
    BY <2>1, <2>2, KeptFacts
  <2> QED
    BY <2>1, <2>2, <2>3, LimiterAssumption DEF HasRoom
<1> QED
  BY <1>1, <1>2, <1>3 DEF Next

(* Whoever is refused follows Limit admissions of its key, none of them    *)
(* older than Window + Disorder.                                           *)
THEOREM RefusalsAreAlwaysEarned == Spec => RefusalsAreEarned
<1>1. ASSUME IInv, [Next]_vars, NEW r \in Requests,
             resp[r] # "refused", resp'[r] = "refused"
      PROVE  Cardinality({q \in Since(Window + Disorder) : Key(q) = Key(r)}) >= Limit
  <2> USE DEF IInv
  <2> DEFINE Earlier == {q \in Since(Window + Disorder) : Key(q) = Key(r)}
  <2>1. PICK S \in SUBSET bucket[Key(r)] :
          /\ S = Kept(Key(r), r) /\ Cardinality(S) \in Nat /\ Cardinality(S) >= Limit
          /\ pc[r] = "sent" /\ now <= sentAt[r] + Delay
    BY <1>1, Refused
  <2>2. \A q \in S : now < admitted[q] + Window + Disorder
    BY <1>1, <2>1, KeptFacts
  <2>3. \A q \in S : q \in Requests /\ admitted[q] \in Nat /\ admitted[q] # 0 /\ Key(q) = Key(r)
    BY <1>1, KeyType DEF Bucketed, TypeOK
  <2>4. Window \in Nat /\ Disorder \in Nat
    BY LimiterAssumption DEF Disorder
  <2>5. S \subseteq Earlier
    BY <2>2, <2>3, <2>4 DEF Since
  <2>6. IsFiniteSet(Earlier) /\ Cardinality(Earlier) \in Nat
    BY Finite DEF Since
  <2>7. Cardinality(S) <= Cardinality(Earlier)
    BY <2>5, <2>6, FS_Subset
  <2> HIDE DEF Earlier
  <2>8. Cardinality(Earlier) >= Limit
    BY <2>1, <2>6, <2>7, LimiterAssumption
  <2> QED
    BY <2>8 DEF Earlier
<1>2. ASSUME IInv, [Next]_vars
      PROVE  [\A r \in Requests : resp[r] # "refused" /\ resp'[r] = "refused" =>
                Cardinality({q \in Since(Window + Disorder) : Key(q) = Key(r)}) >= Limit]_vars
  BY <1>1, <1>2
<1> QED
  BY <1>2, InitIInv, NextIInv, PTL DEF Spec, RefusalsAreEarned

(* A refusal means that one of the key was admitted within Window, so that *)
(* Retry-After is long enough on any clock.                                *)
THEOREM RetryAfterIsAlwaysEnough == Spec => RetryAfterIsEnough
<1>1. ASSUME IInv, [Next]_vars, NEW r \in Requests,
             resp[r] # "refused", resp'[r] = "refused"
      PROVE  \E q \in Since(Window + 1) : Key(q) = Key(r)
  <2> USE DEF IInv
  <2>1. PICK S \in SUBSET bucket[Key(r)] :
          /\ S = Kept(Key(r), r) /\ Cardinality(S) \in Nat /\ Cardinality(S) >= Limit
          /\ pc[r] = "sent" /\ now <= sentAt[r] + Delay
    BY <1>1, Refused
  <2>2. S # {}
    BY <2>1, FS_EmptySet, LimiterAssumption
  <2>3. now <= expires[Key(r)]
    BY <1>1, <2>1, <2>2, KeptFacts
  <2>4. PICK q \in Requests :
          Key(q) = Key(r) /\ admitted[q] # 0 /\ expires[Key(r)] = admitted[q] + Window
    BY <1>1, <2>2, KeyType DEF Bucketed
  <2>5. now < admitted[q] + (Window + 1)
    BY <1>1, <2>3, <2>4, LimiterAssumption DEF TypeOK
  <2> QED
    BY <2>4, <2>5 DEF Since
<1>2. ASSUME IInv, [Next]_vars
      PROVE  [\A r \in Requests : resp[r] # "refused" /\ resp'[r] = "refused" =>
                \E q \in Since(Window + 1) : Key(q) = Key(r)]_vars
  BY <1>1, <1>2
<1> QED
  BY <1>2, InitIInv, NextIInv, PTL DEF Spec, RetryAfterIsEnough
=============================================================================
