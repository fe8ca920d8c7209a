------------------------------ MODULE Lifecycle ------------------------------
(***************************************************************************)
(* Instances of the API from start to exit: each opens its pool, brings    *)
(* the schema up to date, pings Redis and serves; a SIGTERM makes it drain *)
(* its requests, close Redis and the pool, and exit.  Several instances    *)
(* start, drain and die at once, over one database.                        *)
(*                                                                         *)
(* What golang-migrate does is modelled as main relies on it: under an     *)
(* advisory lock, each migration is marked dirty, run, and marked clean.   *)
(* The calls main makes on its way to serving are taken to return.         *)
(***************************************************************************)
EXTENDS Naturals

CONSTANTS
  Instances,
  Requests,
  Migrations,     \* how many there are in migrations/
  Timeout,        \* of a request's context
  WriteTimeout,   \* after which the server's answer does not reach the client
  ShutdownTime,   \* how long Shutdown waits for requests
  NewConn,        \* how long Shutdown spares a connection without a request
  None            \* no instance

ASSUME LifecycleAssumption ==
  /\ Migrations \in Nat
  /\ Timeout \in Nat \ {0} /\ WriteTimeout \in Nat /\ ShutdownTime \in Nat /\ NewConn \in Nat
  /\ None \notin Instances

(* The defaults: 15 s and 5 s within 30 s.                                 *)
ASSUME DefaultsAssumption == WriteTimeout + NewConn <= ShutdownTime

VARIABLES
  phase,          \* instance -> what main is doing
  signalled,      \* instance -> it has received SIGINT or SIGTERM
  drain,          \* instance -> how long it has been stopping: draining, then closing
  applied,        \* the migrations whose statements the database has run
  version, dirty, \* table schema_migrations
  mine,           \* instance -> the version that it has migrated to
  spoiled,        \* history: an instance died with a migration half done
  at,             \* request -> the instance that serves it
  state,          \* request -> how far it is; inTx: it holds a connection
  age             \* request -> how long it has run

schema == <<applied, version, dirty, mine, spoiled>>
requests == <<at, state, age>>
vars == <<phase, signalled, drain, schema, requests>>

Migrating == {"check", "mark", "run", "clear"}
Stopping == {"draining", "closing"}
Up == {"serving"} \cup Stopping
Running == {"running", "inTx"}

TypeOK ==
  /\ phase \in [Instances -> {"down", "pool", "lock", "redis"} \cup Migrating \cup Up]
  /\ signalled \in [Instances -> BOOLEAN]
  /\ drain \in [Instances -> Nat]
  /\ applied \subseteq 1..Migrations
  /\ version \in 0..Migrations /\ dirty \in BOOLEAN
  /\ mine \in [Instances -> 0..Migrations] /\ spoiled \in BOOLEAN
  /\ at \in [Requests -> Instances \cup {None}]
  /\ state \in [Requests -> {"none", "done", "cut", "killed"} \cup Running]
  /\ age \in [Requests -> 0..Timeout]
  /\ \A r \in Requests : state[r] \in Running => at[r] \in Instances /\ phase[at[r]] \in Up

Init ==
  /\ phase = [i \in Instances |-> "down"]
  /\ signalled = [i \in Instances |-> FALSE]
  /\ drain = [i \in Instances |-> 0]
  /\ applied = {} /\ version = 0 /\ dirty = FALSE
  /\ mine = [i \in Instances |-> 0] /\ spoiled = FALSE
  /\ at = [r \in Requests |-> None]
  /\ state = [r \in Requests |-> "none"]
  /\ age = [r \in Requests |-> 0]
-----------------------------------------------------------------------------
Goto(i, p) == phase' = [phase EXCEPT ![i] = p]

(* The requests of i that are running, and what becomes of them if i ends. *)
RequestsOf(i) == {r \in Requests : at[r] = i /\ state[r] \in Running}
LeaveAll(i, s) ==
  state' = [r \in Requests |-> IF r \in RequestsOf(i) THEN s ELSE state[r]]

(* The process ends.                                                       *)
Ends(i, s) ==
  /\ Goto(i, "down")
  /\ signalled' = [signalled EXCEPT ![i] = FALSE]
  /\ drain' = [drain EXCEPT ![i] = 0]
  /\ LeaveAll(i, s)
  /\ UNCHANGED <<at, age>>

(* config.Load succeeds; when it fails the process is down again.          *)
Start(i) ==
  /\ phase[i] = "down"
  /\ Goto(i, "pool")
  /\ UNCHANGED <<signalled, drain, schema, requests>>

(* The ping fails if the signal's context is done.                         *)
NewPool(i) ==
  /\ phase[i] = "pool"
  /\ IF signalled[i]
     THEN Ends(i, "killed") /\ UNCHANGED schema
     ELSE Goto(i, "lock") /\ UNCHANGED <<signalled, drain, schema, requests>>

NoLock(i) == TRUE                         \* a mutant: no advisory lock
LockFree(i) == \A j \in Instances : phase[j] \notin Migrating

(* m.Up waits for the lock, but not for ever.  No signal interrupts it.    *)
Lock(i) ==
  /\ phase[i] = "lock"
  /\ \/ LockFree(i) /\ Goto(i, "check") /\ UNCHANGED <<signalled, drain, schema, requests>>
     \/ ~ LockFree(i) /\ Ends(i, "killed") /\ UNCHANGED schema

EvenDirty == TRUE                         \* a mutant: dirty is not an error
Clean == ~ dirty

(* Up reads the version once.                                              *)
Check(i) ==
  /\ phase[i] = "check"
  /\ \/ ~ Clean /\ Ends(i, "killed") /\ UNCHANGED schema
     \/ /\ Clean
        /\ mine' = [mine EXCEPT ![i] = version]
        /\ Goto(i, "mark")
        /\ UNCHANGED <<signalled, drain, applied, version, dirty, spoiled, requests>>

(* The next migration is marked; when there is none, Up returns.           *)
Mark(i) ==
  /\ phase[i] = "mark"
  /\ \/ /\ mine[i] < Migrations
        /\ mine' = [mine EXCEPT ![i] = @ + 1]
        /\ version' = mine[i] + 1 /\ dirty' = TRUE
        /\ Goto(i, "run")
        /\ UNCHANGED <<signalled, drain, applied, spoiled, requests>>
     \/ /\ mine[i] = Migrations
        /\ Goto(i, "redis")
        /\ UNCHANGED <<signalled, drain, schema, requests>>

(* Its statements: a table that is already there makes them fail.          *)
Run(i) ==
  /\ phase[i] = "run"
  /\ IF mine[i] \in applied
     THEN Ends(i, "killed") /\ UNCHANGED schema
     ELSE /\ applied' = applied \cup {mine[i]}
          /\ Goto(i, "clear")
          /\ UNCHANGED <<signalled, drain, version, dirty, mine, spoiled, requests>>

Clear(i) ==
  /\ phase[i] = "clear"
  /\ dirty' = FALSE
  /\ Goto(i, "mark")
  /\ UNCHANGED <<signalled, drain, applied, version, mine, spoiled, requests>>

NewRedisRepo(i) ==
  /\ phase[i] = "redis"
  /\ Goto(i, "serving")
  /\ UNCHANGED <<signalled, drain, schema, requests>>

Signal(i) ==
  /\ phase[i] # "down"
  /\ signalled' = [signalled EXCEPT ![i] = TRUE]
  /\ UNCHANGED <<phase, drain, schema, requests>>

(* Killed; or log.Fatal, which runs no defer: an error at any step of the  *)
(* startup, or the listener's.                                             *)
Dies(i) ==
  /\ phase[i] # "down"
  /\ Ends(i, "killed")
  /\ spoiled' = (spoiled \/ phase[i] \in {"run", "clear"})
  /\ UNCHANGED <<applied, version, dirty, mine>>
-----------------------------------------------------------------------------
(* The listener is closed by Shutdown; a connection that was accepted      *)
(* before may still bring a request.                                       *)
AcceptsEarly(i) == phase[i] # "down"      \* a mutant: listens before the schema is there
Accepts(i) == phase[i] = "serving" \/ (phase[i] = "draining" /\ drain[i] <= NewConn)

Arrive(r, i) ==
  /\ state[r] = "none" /\ Accepts(i)
  /\ at' = [at EXCEPT ![r] = i]
  /\ state' = [state EXCEPT ![r] = "running"]
  /\ UNCHANGED <<phase, signalled, drain, schema, age>>

(* The closed pool gives no connection.                                    *)
Begin(r) ==
  /\ state[r] = "running" /\ age[r] < Timeout /\ phase[at[r]] # "closing"
  /\ state' = [state EXCEPT ![r] = "inTx"]
  /\ UNCHANGED <<phase, signalled, drain, schema, at, age>>

EndTx(r) ==
  /\ state[r] = "inTx"
  /\ state' = [state EXCEPT ![r] = "running"]
  /\ UNCHANGED <<phase, signalled, drain, schema, at, age>>

Return(r) ==
  /\ state[r] = "running"
  /\ state' = [state EXCEPT ![r] = "done"]
  /\ UNCHANGED <<phase, signalled, drain, schema, at, age>>

NoTimeout(r) == FALSE                     \* a mutant: no Timeout in the chain
Overdue(r) == state[r] \in Running /\ age[r] = Timeout

OnlyIdleTimeOut(r) ==       \* a mutant: a transaction's calls do not take the context
  /\ Overdue(r) /\ state[r] = "running"
  /\ state' = [state EXCEPT ![r] = "done"]
  /\ UNCHANGED <<phase, signalled, drain, schema, at, age>>

(* The context is done: whatever the handler waits for fails.  A           *)
(* connection it held is taken to be gone at once; the seconds pgx may     *)
(* spend on closing it come on top of what StopsInTime says.               *)
TimedOut(r) ==
  /\ Overdue(r)
  /\ state' = [state EXCEPT ![r] = "done"]
  /\ UNCHANGED <<phase, signalled, drain, schema, at, age>>
-----------------------------------------------------------------------------
Shutdown(i) ==
  /\ phase[i] = "serving" /\ signalled[i]
  /\ Goto(i, "draining")
  /\ UNCHANGED <<signalled, drain, schema, requests>>

NoWait(i) == TRUE                         \* a mutant: the server is closed, not shut down
Drained(i) == RequestsOf(i) = {} \/ drain[i] = ShutdownTime

(* Shutdown returns; Redis is closed, and the pool begins to close.        *)
Close(i) ==
  /\ phase[i] = "draining" /\ Drained(i)
  /\ Goto(i, "closing")
  /\ UNCHANGED <<signalled, drain, schema, requests>>

PoolClosed(i) == \A r \in RequestsOf(i) : state[r] # "inTx"

(* pool.Close waits for every connection; then main returns.               *)
Exit(i) ==
  /\ phase[i] = "closing" /\ PoolClosed(i)
  /\ Ends(i, "cut")
  /\ UNCHANGED schema

(* Time passes for requests and for instances that stop; what is due now   *)
(* comes first.                                                            *)
Tick ==
  /\ \A r \in Requests : ~ Overdue(r)
  /\ \A i \in Instances : /\ ~ (phase[i] = "serving" /\ signalled[i])
                          /\ ~ (phase[i] = "draining" /\ Drained(i))
                          /\ ~ (phase[i] = "closing" /\ PoolClosed(i))
  /\ age' = [r \in Requests |-> IF state[r] \in Running /\ age[r] < Timeout
                                THEN age[r] + 1 ELSE age[r]]
  /\ drain' = [i \in Instances |-> IF phase[i] \in Stopping THEN drain[i] + 1 ELSE drain[i]]
  /\ UNCHANGED <<phase, signalled, schema, at, state>>

(* main's own steps.                                                       *)
Step(i) ==
  \/ NewPool(i) \/ Lock(i) \/ Check(i) \/ Mark(i) \/ Run(i) \/ Clear(i) \/ NewRedisRepo(i)
  \/ Shutdown(i) \/ Close(i) \/ Exit(i)

Next ==
  \/ \E i \in Instances : Start(i) \/ Step(i) \/ Signal(i) \/ Dies(i)
  \/ \E r \in Requests : Begin(r) \/ EndTx(r) \/ Return(r) \/ TimedOut(r)
  \/ \E r \in Requests, i \in Instances : Arrive(r, i)
  \/ Tick

Spec == Init /\ [][Next]_vars

(* main goes on; time passes, whatever restarts meanwhile; and a context   *)
(* that is done ends its request: a handler need not return before that.   *)
Fairness ==
  /\ \A i \in Instances : WF_vars(Step(i))
  /\ \A r \in Requests : WF_vars(TimedOut(r))
  /\ SF_vars(Tick)

FairSpec == Spec /\ Fairness
-----------------------------------------------------------------------------
(* An instance that serves has every table, whoever created them and       *)
(* whatever died on the way.                                               *)
ServesWholeSchema ==
  \A i \in Instances : phase[i] \in Up => applied = 1..Migrations /\ ~ dirty

(* Instances that start together do not spoil the schema for each other:   *)
(* it stays dirty only after one of them died in the middle of a migration.*)
OnlyDeathsSpoil ==
  dirty /\ (\A i \in Instances : phase[i] \notin Migrating) => spoiled

(* An orderly exit cuts no transaction, and no request that could still    *)
(* have been answered, not even one that came while it was shutting down.  *)
OnlySlowAreCut ==
  [][\A r \in Requests : state[r] \in Running /\ state'[r] = "cut" =>
       state[r] # "inTx" /\ age[r] >= WriteTimeout]_vars

(* An instance that begins to shut down is gone within the time Shutdown   *)
(* waits, or within a timeout of the last request it let in, whichever is  *)
(* later: 35 s with the code's constants.  pool.Close, which has no limit  *)
(* of its own, waits for no other transaction.                             *)
Later(m, n) == IF m >= n THEN m ELSE n
StopsInTime == \A i \in Instances : drain[i] <= Later(ShutdownTime, NewConn + Timeout)

(* Whatever its requests wait for, an instance that was told to stop does. *)
SignalsStop == \A i \in Instances : signalled[i] ~> phase[i] = "down"
=============================================================================
