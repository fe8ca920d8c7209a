--------------------------- MODULE LifecycleProofs ---------------------------
(***************************************************************************)
(* TLAPS proofs about Lifecycle for any instances, requests and migrations *)
(* and any timeouts: who serves has the whole schema, only deaths spoil    *)
(* it, and shutting down takes a bounded time and cuts only slow requests. *)
(***************************************************************************)
EXTENDS Lifecycle, TLAPS

(* The advisory lock.                                                      *)
OneMigrator ==
  \A i, j \in Instances : phase[i] \in Migrating /\ phase[j] \in Migrating => i = j

(* What each step of the startup knows of the schema.                      *)
SchemaFits(i) ==
  /\ phase[i] = "mark" => ~ dirty /\ mine[i] = version
  /\ phase[i] \in {"run", "clear"} => dirty /\ mine[i] = version
  /\ phase[i] = "run" => mine[i] > 0 /\ applied = 1 .. (mine[i] - 1)
  /\ phase[i] = "clear" => applied = 1 .. mine[i]
  /\ phase[i] \in {"redis"} \cup Up => ~ dirty /\ version = Migrations

Schema ==
  /\ \A i \in Instances : SchemaFits(i)
  /\ ~ dirty => applied = 1 .. version
  /\ dirty => spoiled \/ \E i \in Instances : phase[i] \in {"run", "clear"}

(* How an instance's time and that of its requests go together.  A request *)
(* that an instance which stops still serves came within NewConn of the    *)
(* beginning of its Shutdown.                                              *)
RunsOn(r, i) == at[r] = i /\ state[r] \in Running

TimeFits(i) ==
  /\ phase[i] \notin Stopping => drain[i] = 0
  /\ phase[i] = "draining" => drain[i] <= ShutdownTime
  /\ drain[i] <= Later(ShutdownTime, NewConn + Timeout)
  /\ \A r \in Requests : RunsOn(r, i) =>
       /\ phase[i] \in Stopping => drain[i] <= age[r] + NewConn
       /\ phase[i] = "closing" => ShutdownTime <= drain[i]

Timely ==
  /\ \A i \in Instances : TimeFits(i)
  /\ \A r \in Requests : state[r] = "none" => age[r] = 0

(* The inductive invariant.                                                *)
IInv == TypeOK /\ OneMigrator /\ Schema /\ Timely

-----------------------------------------------------------------------------
(* The phases and the states of requests have different names.             *)
Phases == {"down", "pool", "lock", "redis"} \cup Migrating \cup Up
States == {"none", "done", "cut", "killed"} \cup Running

(* The process's end frees the advisory lock and leaves the others and     *)
(* their requests alone.                                                   *)
LEMMA EndsKeeps ==
  ASSUME TypeOK, OneMigrator, Timely, NEW i \in Instances, NEW s \in {"cut", "killed"},
         Ends(i, s)
  PROVE  /\ phase' = [phase EXCEPT ![i] = "down"]
         /\ signalled' \in [Instances -> BOOLEAN] /\ drain' \in [Instances -> Nat]
         /\ at' \in [Requests -> Instances \cup {None}] /\ age' \in [Requests -> 0..Timeout]
         /\ state' \in [Requests -> States]
         /\ \A r \in Requests : state'[r] \in Running =>
              at'[r] \in Instances /\ phase'[at'[r]] \in Up
         /\ OneMigrator' /\ Timely'
<1>1. /\ phase' = [phase EXCEPT ![i] = "down"] /\ at' = at /\ age' = age
      /\ drain' = [drain EXCEPT ![i] = 0] /\ signalled' = [signalled EXCEPT ![i] = FALSE]
  BY DEF Ends, Goto
<1>2. \A r \in Requests : /\ state'[r] = IF RunsOn(r, i) THEN s ELSE state[r]
                          /\ state'[r] \in Running => ~ RunsOn(r, i) /\ state'[r] = state[r]
  BY DEF Ends, LeaveAll, RequestsOf, RunsOn, Running
<1>3. state' \in [Requests -> States]
  BY <1>2 DEF Ends, LeaveAll, TypeOK, States
<1>4. \A r \in Requests : state'[r] \in Running =>
        at'[r] \in Instances /\ phase'[at'[r]] \in Up
  BY <1>1, <1>2 DEF TypeOK, RunsOn
<1>5. OneMigrator'
  BY <1>1 DEF OneMigrator, TypeOK, Migrating
<1>6. Timely'
  <2>1. ASSUME NEW j \in Instances PROVE TimeFits(j)'
    <3>1. CASE j = i
      BY <1>1, <1>2, <3>1, LifecycleAssumption
      DEF TimeFits, TypeOK, Stopping, RunsOn, Later
    <3>2. CASE j # i
      <4>1. phase'[j] = phase[j] /\ drain'[j] = drain[j] /\ TimeFits(j)
        BY <1>1, <3>2 DEF TypeOK, Timely
      <4>2. \A r \in Requests : RunsOn(r, j)' => RunsOn(r, j) /\ age'[r] = age[r]
        BY <1>1, <1>2 DEF RunsOn
      <4> QED
        BY <4>1, <4>2 DEF TimeFits
    <3> QED
      BY <3>1, <3>2
  <2>2. \A r \in Requests : state'[r] = "none" => age'[r] = 0
    BY <1>1, <1>2 DEF Timely
  <2> QED
    BY <2>1, <2>2 DEF Timely
<1>7. signalled' \in [Instances -> BOOLEAN] /\ drain' \in [Instances -> Nat]
  BY <1>1 DEF TypeOK
<1> QED
  BY <1>1, <1>3, <1>4, <1>5, <1>6, <1>7 DEF TypeOK

(* main's next step before it serves keeps times as they are.              *)
LEMMA StartsTimely ==
  ASSUME TypeOK, Timely, NEW i \in Instances, NEW p, p \notin Stopping, Goto(i, p),
         phase[i] \notin Up, UNCHANGED <<drain, requests>>
  PROVE  Timely'
<1> USE DEF Goto, requests
<1>1. ASSUME NEW j \in Instances PROVE TimeFits(j)'
  <2>1. /\ TimeFits(j) /\ phase'[j] = IF j = i THEN p ELSE phase[j]
        /\ phase[i] \notin Stopping /\ p # "draining" /\ p # "closing"
    BY DEF TypeOK, Timely, Up, Stopping
  <2>2. \A r \in Requests : RunsOn(r, j)' = RunsOn(r, j)
    BY DEF RunsOn
  <2> QED
    BY <2>1, <2>2 DEF TimeFits
<1> QED
  BY <1>1 DEF Timely

(* It stays within the types, too.                                         *)
LEMMA StartsTypes ==
  ASSUME TypeOK, NEW i \in Instances, NEW p \in Phases, Goto(i, p),
         phase[i] \notin Up, UNCHANGED <<signalled, drain, requests>>,
         applied' \subseteq 1..Migrations, version' \in 0..Migrations, dirty' \in BOOLEAN,
         mine' \in [Instances -> 0..Migrations], spoiled' \in BOOLEAN
  PROVE  TypeOK'
<1>1. phase' \in [Instances -> Phases]
  BY DEF Goto, TypeOK, Phases
<1>2. \A r \in Requests : state'[r] \in Running =>
        at'[r] \in Instances /\ phase'[at'[r]] \in Up
  BY DEF Goto, TypeOK, requests
<1> QED
  BY <1>1, <1>2 DEF TypeOK, Phases, requests

(* Nobody else's step is disturbed while nobody changes the schema and     *)
(* nobody in the middle of a migration goes away.                          *)
LEMMA SchemaStays ==
  ASSUME TypeOK, Schema, NEW i \in Instances, NEW p, Goto(i, p), UNCHANGED schema,
         phase[i] \notin {"run", "clear"}, p \in {"down", "pool", "lock", "check"}
  PROVE  Schema'
<1>1. \A j \in Instances : phase'[j] = IF j = i THEN p ELSE phase[j]
  BY DEF Goto, TypeOK
<1>2. ASSUME NEW j \in Instances PROVE SchemaFits(j)'
  BY <1>1 DEF Schema, SchemaFits, schema, Up, Stopping
<1>3. dirty' => spoiled' \/ \E j \in Instances : phase'[j] \in {"run", "clear"}
  BY <1>1 DEF Schema, schema
<1> QED
  BY <1>2, <1>3 DEF Schema, schema

(* A process that ends, wherever it is.                                    *)
LEMMA EndsIInv ==
  ASSUME IInv, NEW i \in Instances, NEW s \in {"cut", "killed"}, Ends(i, s),
         \/ UNCHANGED schema /\ phase[i] \notin {"run", "clear"}
         \/ /\ spoiled' = (spoiled \/ phase[i] \in {"run", "clear"})
            /\ UNCHANGED <<applied, version, dirty, mine>>
  PROVE  IInv'
<1> USE DEF IInv
<1>1. /\ phase' = [phase EXCEPT ![i] = "down"]
      /\ signalled' \in [Instances -> BOOLEAN] /\ drain' \in [Instances -> Nat]
      /\ at' \in [Requests -> Instances \cup {None}] /\ age' \in [Requests -> 0..Timeout]
      /\ state' \in [Requests -> States]
      /\ \A r \in Requests : state'[r] \in Running =>
           at'[r] \in Instances /\ phase'[at'[r]] \in Up
      /\ OneMigrator' /\ Timely'
  BY EndsKeeps
<1>2. TypeOK'
  BY <1>1 DEF TypeOK, States, schema
<1>3. Schema'
  <2>1. \A j \in Instances : phase'[j] = IF j = i THEN "down" ELSE phase[j]
    BY <1>1 DEF TypeOK
  <2>2. UNCHANGED <<applied, version, dirty, mine>> /\ (spoiled => spoiled')
    <3>1. CASE UNCHANGED schema
      BY <3>1 DEF schema
    <3>2. CASE /\ spoiled' = (spoiled \/ phase[i] \in {"run", "clear"})
               /\ UNCHANGED <<applied, version, dirty, mine>>
      BY <3>2
    <3> QED
      BY <3>1, <3>2 DEF schema
  <2>3. ASSUME NEW j \in Instances PROVE SchemaFits(j)'
    BY <2>1, <2>2 DEF Schema, SchemaFits, Up, Stopping
  <2>4. phase[i] \in {"run", "clear"} => spoiled'
    OBVIOUS
  <2>5. dirty' => spoiled' \/ \E j \in Instances : phase'[j] \in {"run", "clear"}
    BY <2>1, <2>2, <2>4 DEF Schema
  <2> QED
    BY <2>2, <2>3, <2>5 DEF Schema
<1> QED
  BY <1>1, <1>2, <1>3

-----------------------------------------------------------------------------
(* Steps of the startup that do not touch the schema.                      *)
LEMMA QuietStartIInv ==
  ASSUME IInv, NEW i \in Instances,
         Start(i) \/ NewPool(i) \/ Lock(i) \/ NewRedisRepo(i)
  PROVE  IInv'
<1> USE DEF IInv
<1>1. ASSUME NEW p \in {"pool", "lock", "check"}, Goto(i, p),
             phase[i] \in {"down", "pool", "lock"}, p = "check" => LockFree(i),
             UNCHANGED <<signalled, drain, schema, requests>>
      PROVE  IInv'
  <2>1. TypeOK'
    BY <1>1, StartsTypes DEF TypeOK, Phases, Migrating, Up, Stopping, schema
  <2>2. Timely'
    BY <1>1, StartsTimely DEF Stopping, Up
  <2>3. Schema'
    BY <1>1, SchemaStays
  <2>4. OneMigrator'
    BY <1>1 DEF OneMigrator, LockFree, Goto, TypeOK, Migrating
  <2> QED
    BY <2>1, <2>2, <2>3, <2>4
<1>2. CASE Start(i)
  BY <1>1, <1>2 DEF Start
<1>3. CASE NewPool(i)
  BY <1>1, <1>3, EndsIInv DEF NewPool
<1>4. CASE Lock(i)
  BY <1>1, <1>4, EndsIInv DEF Lock
<1>5. CASE NewRedisRepo(i)
  <2>1. /\ phase[i] = "redis" /\ Goto(i, "serving")
        /\ UNCHANGED <<signalled, drain, schema, requests>>
    BY <1>5 DEF NewRedisRepo
  <2>2. \A j \in Instances : phase'[j] = IF j = i THEN "serving" ELSE phase[j]
    BY <2>1 DEF Goto, TypeOK
  <2>3. TypeOK'
    BY <2>1, StartsTypes DEF TypeOK, Phases, Up, Stopping, schema
  <2>4. Timely'
    BY <2>1, StartsTimely DEF Stopping, Up
  <2>5. OneMigrator'
    BY <2>2 DEF OneMigrator, Migrating
  <2>6. ASSUME NEW j \in Instances PROVE SchemaFits(j)'
    BY <2>1, <2>2 DEF Schema, SchemaFits, schema, Up, Stopping
  <2>7. dirty' => spoiled' \/ \E j \in Instances : phase'[j] \in {"run", "clear"}
    BY <2>1, <2>2 DEF Schema, SchemaFits, schema
  <2> QED
    BY <2>1, <2>3, <2>4, <2>5, <2>6, <2>7 DEF Schema, schema
<1> QED
  BY <1>2, <1>3, <1>4, <1>5

(* golang-migrate's steps, under the advisory lock.                        *)
LEMMA MigrateIInv ==
  ASSUME IInv, NEW i \in Instances, Check(i) \/ Mark(i) \/ Run(i) \/ Clear(i)
  PROVE  IInv'
<1> USE DEF IInv
<1> DEFINE Goes(p) == /\ Goto(i, p) /\ UNCHANGED <<signalled, drain, requests, spoiled>>
                      /\ mine' \in [Instances -> 0..Migrations]
                      /\ \A j \in Instances \ {i} : mine'[j] = mine[j]
<1>1. phase[i] \in Migrating /\ SchemaFits(i)
  BY DEF Check, Mark, Run, Clear, Migrating, Schema
<1>2. ASSUME NEW p \in {"mark", "run", "clear", "redis"}, Goes(p),
             applied' \subseteq 1..Migrations, version' \in 0..Migrations, dirty' \in BOOLEAN
      PROVE  /\ TypeOK' /\ Timely' /\ OneMigrator'
             /\ \A j \in Instances : phase'[j] = IF j = i THEN p ELSE phase[j]
             /\ \A j \in Instances \ {i} : phase[j] \notin Migrating
  <2>1. TypeOK'
    BY <1>1, <1>2, StartsTypes DEF TypeOK, Phases, Migrating, Up, Stopping
  <2>2. Timely'
    BY <1>1, <1>2, StartsTimely DEF Stopping, Up, Migrating
  <2>3. OneMigrator' /\ \A j \in Instances : phase'[j] = IF j = i THEN p ELSE phase[j]
    BY <1>1, <1>2 DEF OneMigrator, Goto, TypeOK
  <2> QED
    BY <1>1, <2>1, <2>2, <2>3 DEF OneMigrator
<1>3. CASE Check(i)
  <2>1. CASE ~ Clean
    BY <1>3, <2>1, EndsIInv DEF Check
  <2>2. CASE Clean
    <3>1. /\ Goes("mark") /\ UNCHANGED <<applied, version, dirty>> /\ ~ dirty
          /\ mine'[i] = version
      BY <1>3, <2>2 DEF Check, Clean, TypeOK
    <3> HIDE DEF Goes
    <3>2. /\ TypeOK' /\ Timely' /\ OneMigrator'
          /\ \A j \in Instances : phase'[j] = IF j = i THEN "mark" ELSE phase[j]
          /\ \A j \in Instances \ {i} : phase[j] \notin Migrating
      BY <1>2, <3>1 DEF TypeOK
    <3>3. ASSUME NEW j \in Instances PROVE SchemaFits(j)'
      BY <3>1, <3>2 DEF Schema, SchemaFits, Migrating, Up, Stopping, Goes
    <3> QED
      BY <3>1, <3>2, <3>3 DEF Schema
  <2> QED
    BY <2>1, <2>2
<1>4. CASE Mark(i)
  <2>1. phase[i] = "mark" /\ ~ dirty /\ mine[i] = version /\ applied = 1..version
    BY <1>1, <1>4 DEF Mark, Schema, SchemaFits
  <2>2. CASE mine[i] < Migrations /\ version' = mine[i] + 1
    <3>1. /\ Goes("run") /\ applied' = applied /\ version' \in 0..Migrations
          /\ dirty' = TRUE /\ mine'[i] = version' /\ version' > 0 /\ applied = 1..(version' - 1)
      <4>1. /\ mine' = [mine EXCEPT ![i] = mine[i] + 1] /\ dirty' = TRUE /\ Goto(i, "run")
            /\ UNCHANGED <<signalled, drain, applied, spoiled, requests>>
        BY <1>4, <2>2, LifecycleAssumption DEF Mark, TypeOK
      <4>2. mine[i] + 1 \in 0..Migrations /\ mine[i] \in Nat /\ mine[i] + 1 - 1 = mine[i]
        BY <2>2, LifecycleAssumption DEF TypeOK
      <4> QED
        BY <2>1, <2>2, <4>1, <4>2 DEF TypeOK
    <3> HIDE DEF Goes
    <3>2. /\ TypeOK' /\ Timely' /\ OneMigrator'
          /\ \A j \in Instances : phase'[j] = IF j = i THEN "run" ELSE phase[j]
          /\ \A j \in Instances \ {i} : phase[j] \notin Migrating
      BY <1>2, <3>1 DEF TypeOK
    <3>3. ASSUME NEW j \in Instances PROVE SchemaFits(j)'
      BY <2>1, <2>2, <3>1, <3>2, LifecycleAssumption
      DEF Schema, SchemaFits, Migrating, Up, Stopping, TypeOK
    <3> QED
      BY <3>1, <3>2, <3>3 DEF Schema
  <2>3. CASE /\ mine[i] = Migrations /\ Goto(i, "redis")
             /\ UNCHANGED <<signalled, drain, schema, requests>>
    <3>1. Goes("redis") /\ UNCHANGED <<applied, version, dirty>> /\ ~ dirty
      BY <2>1, <2>3 DEF TypeOK, schema
    <3> HIDE DEF Goes
    <3>2. /\ TypeOK' /\ Timely' /\ OneMigrator'
          /\ \A j \in Instances : phase'[j] = IF j = i THEN "redis" ELSE phase[j]
          /\ \A j \in Instances \ {i} : phase[j] \notin Migrating
      BY <1>2, <3>1 DEF TypeOK
    <3>3. version' = Migrations
      BY <2>1, <2>3, <3>1
    <3>4. ASSUME NEW j \in Instances PROVE SchemaFits(j)'
      BY <3>1, <3>2, <3>3 DEF Schema, SchemaFits, Migrating, Up, Stopping
    <3> QED
      BY <3>1, <3>2, <3>4 DEF Schema
  <2> QED
    <3>1. ASSUME ~ (mine[i] < Migrations /\ version' = mine[i] + 1)
          PROVE  /\ mine[i] = Migrations /\ Goto(i, "redis")
                 /\ UNCHANGED <<signalled, drain, schema, requests>>
      BY <1>4, <3>1 DEF Mark
    <3> QED
      BY <2>2, <2>3, <3>1
<1>5. CASE Run(i)
  <2>1. /\ phase[i] = "run" /\ dirty /\ mine[i] = version /\ mine[i] > 0
        /\ applied = 1..(mine[i] - 1) /\ mine[i] \in 1..Migrations
    BY <1>1, <1>5, LifecycleAssumption DEF Run, SchemaFits, TypeOK
  <2>2. mine[i] \notin applied
    BY <2>1, LifecycleAssumption
  <2>3. /\ Goes("clear") /\ UNCHANGED <<version, dirty, mine>> /\ applied' = 1..mine[i]
        /\ applied' \subseteq 1..Migrations
    <3>1. /\ Goto(i, "clear") /\ applied' = applied \cup {mine[i]}
          /\ UNCHANGED <<signalled, drain, version, dirty, mine, spoiled, requests>>
      BY <1>5, <2>2 DEF Run
    <3>2. 1..(mine[i] - 1) \cup {mine[i]} = 1..mine[i] /\ 1..mine[i] \subseteq 1..Migrations
      BY <2>1, LifecycleAssumption
    <3> QED
      BY <2>1, <3>1, <3>2 DEF TypeOK
  <2> HIDE DEF Goes
  <2>4. /\ TypeOK' /\ Timely' /\ OneMigrator'
        /\ \A j \in Instances : phase'[j] = IF j = i THEN "clear" ELSE phase[j]
        /\ \A j \in Instances \ {i} : phase[j] \notin Migrating
    BY <1>2, <2>3 DEF TypeOK
  <2>5. ASSUME NEW j \in Instances PROVE SchemaFits(j)'
    BY <2>1, <2>3, <2>4 DEF Schema, SchemaFits, Migrating, Up, Stopping
  <2> QED
    BY <2>1, <2>3, <2>4, <2>5 DEF Schema
<1>6. CASE Clear(i)
  <2>1. phase[i] = "clear" /\ dirty /\ mine[i] = version /\ applied = 1..mine[i]
    BY <1>1, <1>6 DEF Clear, SchemaFits
  <2>2. Goes("mark") /\ UNCHANGED <<applied, version, mine>> /\ dirty' = FALSE
    BY <1>6 DEF Clear, TypeOK, Goto
  <2> HIDE DEF Goes
  <2>3. /\ TypeOK' /\ Timely' /\ OneMigrator'
        /\ \A j \in Instances : phase'[j] = IF j = i THEN "mark" ELSE phase[j]
        /\ \A j \in Instances \ {i} : phase[j] \notin Migrating
    BY <1>2, <2>2 DEF TypeOK
  <2>4. ASSUME NEW j \in Instances PROVE SchemaFits(j)'
    BY <2>1, <2>2, <2>3 DEF Schema, SchemaFits, Migrating, Up, Stopping
  <2> QED
    BY <2>1, <2>2, <2>3, <2>4 DEF Schema
<1> QED
  BY <1>3, <1>4, <1>5, <1>6

-----------------------------------------------------------------------------
(* A step that changes neither the schema nor a phase, but to another in   *)
(* which the server is up, leaves the schema part alone.                   *)
LEMMA UpSchema ==
  ASSUME TypeOK, OneMigrator, Schema, UNCHANGED schema,
         \A j \in Instances : phase'[j] = phase[j] \/ (phase[j] \in Up /\ phase'[j] \in Up)
  PROVE  OneMigrator' /\ Schema'
<1>1. \A j \in Instances :
        /\ phase'[j] = phase[j] \/ phase[j] \in {"serving", "draining", "closing"}
        /\ phase'[j] = phase[j] \/ phase'[j] \in {"serving", "draining", "closing"}
  BY DEF Up, Stopping
<1>2. OneMigrator'
  BY <1>1 DEF OneMigrator, Migrating
<1>3. ASSUME NEW j \in Instances PROVE SchemaFits(j)'
  BY <1>1 DEF Schema, SchemaFits, schema, Up, Stopping
<1>4. dirty' => spoiled' \/ \E j \in Instances : phase'[j] \in {"run", "clear"}
  BY <1>1 DEF Schema, schema
<1> QED
  BY <1>2, <1>3, <1>4 DEF Schema, schema

(* Requests that begin, end or get a connection.                           *)
LEMMA RequestIInv ==
  ASSUME IInv, NEW r \in Requests,
         \/ Begin(r) \/ EndTx(r) \/ Return(r) \/ TimedOut(r)
         \/ \E i \in Instances : Arrive(r, i)
  PROVE  IInv'
<1> USE DEF IInv, schema
<1>1. UNCHANGED <<phase, signalled, drain, schema, age>>
  BY DEF Begin, EndTx, Return, TimedOut, Arrive
<1>2. OneMigrator' /\ Schema'
  BY <1>1, UpSchema
<1>3. CASE Begin(r) \/ EndTx(r) \/ Return(r) \/ TimedOut(r)
  <2>1. PICK s \in {"running", "inTx", "done"} : state' = [state EXCEPT ![r] = s]
    BY <1>3 DEF Begin, EndTx, Return, TimedOut
  <2>2. state[r] \in Running /\ at' = at
    BY <1>3 DEF Begin, EndTx, Return, TimedOut, Overdue, Running
  <2>3. \A q \in Requests :
          /\ state'[q] \in Running => state[q] \in Running
          /\ state'[q] = "none" => state[q] = "none"
    BY <2>1, <2>2 DEF TypeOK, Running
  <2>4. TypeOK'
    BY <1>1, <2>1, <2>2, <2>3 DEF TypeOK, Running
  <2>5. ASSUME NEW i \in Instances PROVE TimeFits(i)'
    <3>1. \A q \in Requests : RunsOn(q, i)' => RunsOn(q, i)
      BY <2>2, <2>3 DEF RunsOn
    <3> QED
      BY <1>1, <3>1 DEF Timely, TimeFits
  <2>6. \A q \in Requests : state'[q] = "none" => age'[q] = 0
    BY <1>1, <2>3 DEF Timely
  <2> QED
    BY <1>2, <2>4, <2>5, <2>6 DEF Timely
<1>4. ASSUME NEW i \in Instances, Arrive(r, i) PROVE IInv'
  <2>1. /\ state[r] = "none" /\ Accepts(i)
        /\ at' = [at EXCEPT ![r] = i] /\ state' = [state EXCEPT ![r] = "running"]
    BY <1>4 DEF Arrive
  <2>2. phase[i] = "serving" \/ (phase[i] = "draining" /\ drain[i] <= NewConn)
    BY <2>1 DEF Accepts
  <2>3. \A q \in Requests \ {r} : at'[q] = at[q] /\ state'[q] = state[q]
    BY <2>1 DEF TypeOK
  <2>4. at'[r] = i /\ state'[r] = "running" /\ age[r] = 0 /\ drain[i] \in Nat
    BY <2>1 DEF TypeOK, Timely
  <2>5. TypeOK'
    <3>1. \A q \in Requests : state'[q] \in Running =>
            at'[q] \in Instances /\ phase'[at'[q]] \in Up
      BY <1>1, <2>2, <2>3, <2>4 DEF TypeOK, Up, Stopping
    <3> QED
      BY <1>1, <2>1, <3>1 DEF TypeOK, Running
  <2>6. ASSUME NEW j \in Instances PROVE TimeFits(j)'
    <3>1. ASSUME NEW q \in Requests, RunsOn(q, j)'
          PROVE  /\ phase[j] \in Stopping => drain[j] <= age[q] + NewConn
                 /\ phase[j] = "closing" => ShutdownTime <= drain[j]
      <4>1. CASE q = r
        BY <2>2, <2>4, <3>1, <4>1, LifecycleAssumption DEF RunsOn, Stopping
      <4>2. CASE q # r
        BY <2>3, <3>1, <4>2 DEF RunsOn, Timely, TimeFits
      <4> QED
        BY <4>1, <4>2
    <3> QED
      BY <1>1, <3>1 DEF Timely, TimeFits
  <2> QED
    BY <1>1, <1>2, <2>3, <2>4, <2>5, <2>6 DEF Timely
<1> QED
  BY <1>3, <1>4

(* Shutdown begins, and returns.                                           *)
LEMMA StopIInv ==
  ASSUME IInv, NEW i \in Instances, Shutdown(i) \/ Close(i)
  PROVE  IInv'
<1> USE DEF IInv, schema, requests
<1>1. /\ UNCHANGED <<signalled, drain, schema, requests>>
      /\ \/ phase[i] = "serving" /\ Goto(i, "draining")
         \/ phase[i] = "draining" /\ Drained(i) /\ Goto(i, "closing")
  BY DEF Shutdown, Close
<1>2. \A j \in Instances \ {i} : phase'[j] = phase[j]
  BY <1>1 DEF Goto, TypeOK
<1>3. \/ phase[i] = "serving" /\ phase'[i] = "draining"
      \/ phase[i] = "draining" /\ phase'[i] = "closing" /\ Drained(i)
  BY <1>1 DEF Goto, TypeOK
<1>4. OneMigrator' /\ Schema'
  BY <1>1, <1>2, <1>3, UpSchema DEF Up, Stopping
<1>5. TypeOK'
  <2>1. phase' \in [Instances -> Phases]
    BY <1>1 DEF Goto, TypeOK, Phases, Up, Stopping
  <2>2. \A r \in Requests : state'[r] \in Running =>
          at'[r] \in Instances /\ phase'[at'[r]] \in Up
    BY <1>1, <1>2, <1>3 DEF TypeOK, Up, Stopping
  <2> QED
    BY <1>1, <2>1, <2>2 DEF TypeOK, Phases
<1>6. ASSUME NEW j \in Instances PROVE TimeFits(j)'
  <2>1. \A r \in Requests : RunsOn(r, j)' = RunsOn(r, j)
    BY <1>1 DEF RunsOn
  <2>2. CASE j # i
    BY <1>1, <1>2, <2>1, <2>2 DEF Timely, TimeFits
  <2>3. CASE phase[j] = "serving" /\ phase'[j] = "draining"
    BY <1>1, <2>1, <2>3, LifecycleAssumption
    DEF Timely, TimeFits, TypeOK, Stopping
  <2>4. CASE j = i /\ phase[j] = "draining" /\ phase'[j] = "closing" /\ Drained(j)
    <3>1. \A r \in Requests : RunsOn(r, j) => ShutdownTime <= drain[j]
      BY <2>4, LifecycleAssumption DEF Drained, RequestsOf, RunsOn, TypeOK
    <3> QED
      BY <1>1, <2>1, <2>4, <3>1 DEF Timely, TimeFits, Stopping
  <2> QED
    BY <1>3, <2>2, <2>3, <2>4
<1> QED
  BY <1>1, <1>4, <1>5, <1>6 DEF Timely

(* Time passes: no request that runs has reached its timeout, and an       *)
(* instance that stops has one that may still run.                         *)
LEMMA TickIInv ==
  ASSUME IInv, Tick
  PROVE  IInv'
<1> USE DEF IInv, schema
<1>1. UNCHANGED <<phase, signalled, schema, at, state>>
  BY DEF Tick
<1>2. OneMigrator' /\ Schema'
  BY <1>1, UpSchema
<1>3. \A r \in Requests : state[r] \in Running => age[r] < Timeout /\ age'[r] = age[r] + 1
  BY LifecycleAssumption DEF Tick, Overdue, TypeOK
<1>4. \A r \in Requests : state[r] \notin Running => age'[r] = age[r]
  BY DEF Tick
<1>5. \A i \in Instances :
        drain'[i] = IF phase[i] \in Stopping THEN drain[i] + 1 ELSE drain[i]
  BY DEF Tick
<1>6. TypeOK'
  <2>1. age' \in [Requests -> 0..Timeout]
    <3>1. \A r \in Requests : age'[r] \in 0..Timeout
      BY <1>3, <1>4, LifecycleAssumption DEF TypeOK
    <3> QED
      BY <3>1 DEF Tick
  <2>2. drain' \in [Instances -> Nat]
    BY DEF Tick, TypeOK
  <2> QED
    BY <1>1, <2>1, <2>2 DEF TypeOK
<1>7. ASSUME NEW i \in Instances PROVE TimeFits(i)'
  <2>1. TimeFits(i) /\ drain[i] \in Nat
    BY DEF Timely, TypeOK
  <2>2. \A r \in Requests : RunsOn(r, i)' => RunsOn(r, i)
    BY <1>1 DEF RunsOn
  <2>3. CASE phase[i] \notin Stopping
    BY <1>1, <1>5, <2>1, <2>2, <2>3 DEF TimeFits, Stopping
  <2>4. CASE phase[i] = "draining"
    <3>1. ~ Drained(i)
      BY <2>4 DEF Tick
    <3>2. drain'[i] = drain[i] + 1 /\ drain'[i] <= ShutdownTime
      BY <1>5, <2>1, <2>4, <3>1, LifecycleAssumption DEF Drained, TimeFits, Stopping
    <3>3. \A r \in Requests : RunsOn(r, i) => drain'[i] <= age'[r] + NewConn
      BY <1>3, <2>1, <2>4, <3>2, LifecycleAssumption DEF TimeFits, RunsOn, Stopping, TypeOK
    <3> QED
      BY <1>1, <2>2, <2>4, <3>2, <3>3, <1>6, LifecycleAssumption
      DEF TimeFits, Stopping, Later, TypeOK
  <2>5. CASE phase[i] = "closing"
    <3>1. PICK r \in Requests : RunsOn(r, i)
      BY <2>5 DEF Tick, PoolClosed, RequestsOf, RunsOn
    <3>2. drain'[i] = drain[i] + 1
      BY <1>5, <2>5 DEF Stopping
    <3>3. drain'[i] <= NewConn + Timeout
      BY <1>3, <2>1, <2>5, <3>1, <3>2, LifecycleAssumption
      DEF TimeFits, RunsOn, Stopping, TypeOK
    <3>4. \A q \in Requests : RunsOn(q, i) =>
            drain'[i] <= age'[q] + NewConn /\ ShutdownTime <= drain'[i]
      BY <1>3, <2>1, <2>5, <3>2, LifecycleAssumption DEF TimeFits, RunsOn, Stopping, TypeOK
    <3>5. drain'[i] <= Later(ShutdownTime, NewConn + Timeout)
      BY <1>6, <3>3, LifecycleAssumption DEF Later, TypeOK
    <3> QED
      BY <1>1, <2>2, <2>5, <3>4, <3>5 DEF TimeFits, Stopping
  <2> QED
    BY <2>3, <2>4, <2>5 DEF Stopping
<1>8. \A r \in Requests : state'[r] = "none" => age'[r] = 0
  BY <1>1, <1>4 DEF Timely, Running
<1> QED
  BY <1>2, <1>6, <1>7, <1>8 DEF Timely

(* A signal, a death and an orderly exit.                                  *)
LEMMA LeavingIInv ==
  ASSUME IInv, NEW i \in Instances, Signal(i) \/ Dies(i) \/ Exit(i)
  PROVE  IInv'
<1> USE DEF IInv
<1>1. CASE Signal(i)
  <2>1. /\ UNCHANGED <<phase, drain, schema, requests>>
        /\ signalled' \in [Instances -> BOOLEAN]
    BY <1>1 DEF Signal, TypeOK
  <2>2. TypeOK'
    BY <2>1 DEF TypeOK, schema, requests
  <2>3. OneMigrator' /\ Schema'
    BY <2>1, UpSchema
  <2>4. Timely'
    <3>1. \A j \in Instances, r \in Requests : RunsOn(r, j)' = RunsOn(r, j)
      BY <2>1 DEF RunsOn, requests
    <3> QED
      BY <2>1, <3>1 DEF Timely, TimeFits, requests
  <2> QED
    BY <2>2, <2>3, <2>4
<1>2. CASE Dies(i)
  BY <1>2, EndsIInv DEF Dies
<1>3. CASE Exit(i)
  BY <1>3, EndsIInv DEF Exit
<1> QED
  BY <1>1, <1>2, <1>3

LEMMA InitIInv == Init => IInv
<1> SUFFICES ASSUME Init PROVE IInv
  OBVIOUS
<1> USE DEF Init
<1>1. TypeOK
  <2>1. 0 \in 0..Migrations /\ 0 \in 0..Timeout
    BY LifecycleAssumption
  <2>2. \A r \in Requests : state[r] \notin Running
    BY DEF Running
  <2> QED
    BY <2>1, <2>2 DEF TypeOK
<1>2. OneMigrator
  BY DEF OneMigrator, Migrating
<1>3. Schema
  <2>1. \A i \in Instances : SchemaFits(i)
    BY DEF SchemaFits, Up, Stopping
  <2> QED
    BY <2>1 DEF Schema
<1>4. Timely
  <2>1. \A i \in Instances, r \in Requests : ~ RunsOn(r, i)
    BY DEF RunsOn, Running
  <2>2. 0 <= Later(ShutdownTime, NewConn + Timeout)
    BY LifecycleAssumption DEF Later
  <2>3. ASSUME NEW i \in Instances PROVE TimeFits(i)
    <3>1. phase[i] = "down" /\ drain[i] = 0
      OBVIOUS
    <3> QED
      BY <2>1, <2>2, <3>1 DEF TimeFits, Stopping
  <2> QED
    BY <2>3 DEF Timely
<1> QED
  BY <1>1, <1>2, <1>3, <1>4 DEF IInv

LEMMA StutterIInv == IInv /\ UNCHANGED vars => IInv'
<1> SUFFICES ASSUME IInv, UNCHANGED vars PROVE IInv'
  OBVIOUS
<1>1. UNCHANGED <<phase, signalled, drain, applied, version, dirty, mine, spoiled, at, state, age>>
  BY DEF vars, schema, requests
<1>2. TypeOK' /\ OneMigrator' /\ Schema'
  BY <1>1 DEF IInv, TypeOK, OneMigrator, Schema, SchemaFits
<1>3. Timely'
  <2>1. \A i \in Instances, r \in Requests : RunsOn(r, i)' = RunsOn(r, i)
    BY <1>1 DEF RunsOn
  <2> QED
    BY <1>1, <2>1 DEF IInv, Timely, TimeFits
<1> QED
  BY <1>2, <1>3 DEF IInv

LEMMA NextIInv == IInv /\ [Next]_vars => IInv'
<1> SUFFICES ASSUME IInv, [Next]_vars PROVE IInv'
  OBVIOUS
<1>1. ASSUME NEW i \in Instances, Start(i) \/ NewPool(i) \/ Lock(i) \/ NewRedisRepo(i)
      PROVE  IInv'
  BY <1>1, QuietStartIInv
<1>2. ASSUME NEW i \in Instances, Check(i) \/ Mark(i) \/ Run(i) \/ Clear(i) PROVE IInv'
  BY <1>2, MigrateIInv
<1>3. ASSUME NEW i \in Instances, Shutdown(i) \/ Close(i) PROVE IInv'
  BY <1>3, StopIInv
<1>4. ASSUME NEW i \in Instances, Signal(i) \/ Dies(i) \/ Exit(i) PROVE IInv'
  BY <1>4, LeavingIInv
<1>5. ASSUME NEW r \in Requests,
             \/ Begin(r) \/ EndTx(r) \/ Return(r) \/ TimedOut(r)
             \/ \E i \in Instances : Arrive(r, i)
      PROVE  IInv'
  BY <1>5, RequestIInv
<1>6. CASE Tick
  BY <1>6, TickIInv
<1>7. CASE UNCHANGED vars
  BY <1>7, StutterIInv
<1> QED
  BY <1>1, <1>2, <1>3, <1>4, <1>5, <1>6, <1>7 DEF Next, Step

THEOREM Inductive == Spec => []IInv
  BY InitIInv, NextIInv, PTL DEF Spec

-----------------------------------------------------------------------------
(* Whatever starts, drains and dies, every instance keeps one place in     *)
(* main, and only an instance whose server is up has requests running.     *)
THEOREM LifecycleTypeOK == Spec => []TypeOK
  BY Inductive, PTL DEF IInv

(* An instance serves only when every migration has been run, once and to  *)
(* its end: no death of another instance, at any step of its migration,    *)
(* leaves it a schema with a part missing or half done.                    *)
THEOREM OnlyWhole == Spec => []ServesWholeSchema
<1>1. IInv => ServesWholeSchema
  BY DEF IInv, Schema, SchemaFits, ServesWholeSchema
<1> QED
  BY <1>1, Inductive, PTL

(* Instances that start together never leave the schema dirty for each     *)
(* other: that takes a death in the middle of a migration, after which     *)
(* only an operator can go on.                                             *)
THEOREM Spoilers == Spec => []OnlyDeathsSpoil
<1>1. IInv => OnlyDeathsSpoil
  BY DEF IInv, Schema, OnlyDeathsSpoil, Migrating
<1> QED
  BY <1>1, Inductive, PTL

(* From the signal's Shutdown to main's return it takes at most the time   *)
(* Shutdown waits, or a timeout more than it spares a new connection: the  *)
(* pool, whose Close knows no limit, waits for nothing else.               *)
THEOREM ShutdownBounded == Spec => []StopsInTime
<1>1. IInv => StopsInTime
  BY DEF IInv, Timely, TimeFits, StopsInTime
<1> QED
  BY <1>1, Inductive, PTL

(* An orderly exit cuts no transaction short, and no request whose answer  *)
(* could still have reached its client.                                    *)
THEOREM CutsOnlySlow == Spec => OnlySlowAreCut
<1> DEFINE Slow == \A r \in Requests : state[r] \in Running /\ state'[r] = "cut" =>
                     state[r] # "inTx" /\ age[r] >= WriteTimeout
<1>1. IInv /\ [Next]_vars => [Slow]_vars
  <2> SUFFICES ASSUME IInv, Next, NEW r \in Requests, state[r] \in Running, state'[r] = "cut"
               PROVE  state[r] # "inTx" /\ age[r] >= WriteTimeout
    OBVIOUS
  <2>1. state'[r] # state[r] /\ state \in [Requests -> States]
    BY DEF Running, IInv, TypeOK, States
  <2>2. PICK i \in Instances : Exit(i)
    <3>1. ASSUME NEW i \in Instances, Ends(i, "killed") PROVE FALSE
      BY <2>1, <3>1 DEF Ends, LeaveAll
    <3>2. ASSUME NEW i \in Instances, Start(i) \/ Step(i) \/ Signal(i) \/ Dies(i)
          PROVE  Exit(i)
      BY <2>1, <3>1, <3>2
      DEF Start, Step, Signal, Dies, NewPool, Lock, Check, Mark, Run, Clear, NewRedisRepo,
          Shutdown, Close, requests
    <3>3. ASSUME NEW q \in Requests, Begin(q) \/ EndTx(q) \/ Return(q) \/ TimedOut(q)
          PROVE  FALSE
      BY <2>1, <3>3 DEF Begin, EndTx, Return, TimedOut
    <3>4. ASSUME NEW q \in Requests, NEW i \in Instances, Arrive(q, i) PROVE FALSE
      BY <2>1, <3>4 DEF Arrive
    <3> QED
      BY <2>1, <3>2, <3>3, <3>4 DEF Next, Tick
  <2>3. RunsOn(r, i)
    BY <2>1, <2>2 DEF Exit, Ends, LeaveAll, RequestsOf, RunsOn
  <2>4. ShutdownTime <= drain[i] /\ drain[i] <= age[r] + NewConn
    BY <2>2, <2>3 DEF IInv, Timely, TimeFits, Exit, Stopping
  <2>5. drain[i] \in Nat /\ age[r] \in Nat
    BY LifecycleAssumption DEF IInv, TypeOK
  <2>6. state[r] # "inTx"
    BY <2>2, <2>3 DEF Exit, PoolClosed, RequestsOf, RunsOn
  <2> QED
    BY <2>4, <2>5, <2>6, LifecycleAssumption, DefaultsAssumption
<1> QED
  BY <1>1, Inductive, PTL DEF Spec, OnlySlowAreCut
=============================================================================
