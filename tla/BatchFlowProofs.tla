--------------------------- MODULE BatchFlowProofs ---------------------------
(***************************************************************************)
(* TLAPS proofs about batches of any length, beside any other requests.    *)
(* Every run of BatchFlow is a run of BookingFlow, so that whatever was    *)
(* proved of the requests holds for those of batches too; and an entry     *)
(* that has arrived finds all the entries before it booked and committed,  *)
(* from which the properties of batches follow.                            *)
(***************************************************************************)
EXTENDS BatchFlow, BookingRequestProofs

-----------------------------------------------------------------------------
(* A batch only restrains when its entries arrive.                         *)
LEMMA BatchStepIsFlowStep == [BatchNext]_batchVars => [Next]_vars
BY DEF BatchNext, BatchBook, BookTicket, CancelBooking, AnyRequest, RedisExpires,
   Settled, batchVars, Next, vars, tables, rowLocks

(* A run with batches is a run of the requests they are made of: every     *)
(* theorem about Spec holds of it.                                         *)
THEOREM BatchesAreRequests == BatchSpec => Spec
<1>1. BatchInit => Init
  BY DEF BatchInit
<1> QED
  BY <1>1, BatchStepIsFlowStep, PTL DEF BatchSpec, Spec

(* So whatever batches arrive, the tables implement the ledger, clients    *)
(* and the audit log are told the truth, locks keep their holders, and     *)
(* only a user's own two requests can be stuck.                            *)
THEOREM BatchesKeepPromises ==
  BatchSpec => /\ RefinesLedger /\ OnlyHolderReleases
               /\ [](SnapshotHolds /\ AnswersAreTrue /\ AuditIsTrue)
               /\ []DeadlocksAreSelfInflicted
BY BatchesAreRequests, FlowRefinesLedger, OnlyTheHolderReleases, SnapshotAlwaysHolds,
   AnswersAlwaysTrue, AuditAlwaysTrue, DeadlocksAreAlwaysSelfInflicted, PTL

-----------------------------------------------------------------------------
(* The steps of the flow as seen from one booking request.                 *)

(* Only the process of r moves, after it has arrived and before it ends.   *)
Moves(r) ==
  /\ \A s \in Requests \ {r} : pc'[s] = pc[s] /\ resp'[s] = resp[s]
  /\ pc[r] \notin {"idle", "done"} /\ pc'[r] # "idle"

Still == pc' = pc /\ resp' = resp

(* A booking's own step moves that booking.                                *)
LEMMA BookStepMoves ==
  ASSUME TypeOK, NEW b \in Bookings, BookStep(b)
  PROVE  Moves(b)
BY DEF BookStep, AcquireLock, AcquireLockFails, SelectForUpdate, CreateInTx,
   UpdateTicketsInTx, LogInTx, CommitBooking, ReleaseLock, ReleaseLockFails,
   Moves, Refuse, Abort, Goto, Answer, TypeOK, Requests

(* A cancellation's arrival and its own steps leave the bookings' requests *)
(* where they are.                                                         *)
LEMMA CancelStepMoves ==
  ASSUME TypeOK, NEW c \in Cancels, ArriveCancel(c) \/ CancelStep(c), NEW b \in Bookings
  PROVE  pc'[b] = pc[b] /\ resp'[b] = resp[b]
<1>1. b \in Requests /\ c \in Requests /\ b # c
  BY FlowAssumption DEF Requests
<1> QED
  BY <1>1 DEF ArriveCancel, CancelStep, Fetch, LockBooking, CancelRow, RestoreTickets,
     CommitCancel, AuditLog, Refuse, Abort, Goto, Answer, TypeOK

(* So do Postgres and the faults, but for the request they are about.      *)
LEMMA OtherStepMoves ==
  ASSUME TypeOK, IInv, NEW r \in Requests, SharedStep(r) \/ ServerStep(r) \/ Fault(r)
  PROVE  Moves(r) \/ Still
<1> USE DEF Moves, Still, Goto, Answer
<1>1. CASE SharedStep(r)
  BY <1>1 DEF SharedStep, Begin, Rollback, Unwound, TypeOK
<1>2. CASE ServerRollsBack(r) \/ ServerCommits(r)
  BY <1>2 DEF ServerRollsBack, ServerCommits
<1>3. CASE DeadlockAbort(r)
  BY <1>3 DEF DeadlockAbort, Deadlocked, WaitsFor, Abort, Refuse, TypeOK
<1>4. CASE Fault(r)
  <2>1. CASE ConnectionLost(r)
    <3>1. pc[r] \notin {"idle", "done"}
      BY <2>1 DEF IInv, BookOK, BookControl, CancelOK, CancelControl, ConnectionLost, InTx, Requests
    <3> QED
      BY <2>1, <3>1 DEF ConnectionLost, Unwound, TypeOK
  <2>2. CASE CallFails(r) \/ Crash(r)
    BY <2>2 DEF CallFails, Crash, Unwound, TypeOK
  <2> QED
    BY <1>4, <2>1, <2>2 DEF Fault
<1> QED
  BY <1>1, <1>2, <1>3, <1>4 DEF ServerStep

(* What a step does to a booking request: one that has ended stays as it   *)
(* is, none goes back, and one only arrives when the loop of its batch has *)
(* reached it.                                                             *)
LEMMA BatchStepMoves ==
  ASSUME IInv, [BatchNext]_batchVars, NEW b \in Bookings
  PROVE  /\ pc[b] = "done" => pc'[b] = "done" /\ resp'[b] = resp[b]
         /\ pc[b] # "idle" => pc'[b] # "idle"
         /\ pc[b] = "idle" /\ pc'[b] # "idle" => Turn(b)
<1>1. TypeOK /\ b \in Requests
  BY DEF IInv, Requests
<1>2. CASE \E a \in Bookings : BatchBook(a)
  BY <1>1, <1>2 DEF BatchBook, ArriveBook, Goto, Answer, TypeOK
<1>3. CASE \E a \in Bookings : BookTicket(a)
  BY <1>1, <1>3, BookStepMoves DEF BookTicket, Moves
<1>4. CASE \E c \in Cancels : CancelBooking(c)
  BY <1>1, <1>4, CancelStepMoves DEF CancelBooking
<1>5. CASE \E r \in Requests : AnyRequest(r)
  BY <1>1, <1>5, OtherStepMoves DEF AnyRequest, Moves, Still
<1>6. CASE (\E e \in Events : RedisExpires(e)) \/ Settled \/ UNCHANGED batchVars
  BY <1>6 DEF RedisExpires, LockExpires, Settled, batchVars
<1> QED
  BY <1>2, <1>3, <1>4, <1>5, <1>6 DEF BatchNext

-----------------------------------------------------------------------------
(* The inductive invariant: an entry that has arrived finds every entry    *)
(* before it answered "created".                                           *)
InOrder ==
  \A t \in BatchRequests : \A i, j \in DOMAIN batch[t] :
    j < i /\ pc[batch[t][i]] # "idle" => Succeeded(batch[t][j])

Batches == BatchTypeOK /\ WellFormed /\ InOrder

(* An entry is a booking request, and stays the same one.                  *)
LEMMA EntryFacts ==
  ASSUME BatchTypeOK, NEW t \in BatchRequests, NEW i \in DOMAIN batch[t]
  PROVE  /\ i \in Nat \ {0}
         /\ batch[t][i] \in Bookings /\ batch[t][i] \in Requests
         /\ \A j \in 1..i : j \in DOMAIN batch[t]
<1>1. PICK n \in 0..Cardinality(Bookings) : batch[t] \in [1..n -> Bookings]
  BY DEF BatchTypeOK, Entries
<1>2. Cardinality(Bookings) \in Nat
  BY FlowAssumption, FS_CardinalityType
<1> QED
  BY <1>1, <1>2 DEF Requests

(* The batches never change.                                               *)
LEMMA BatchesStay ==
  ASSUME IInv, [BatchNext]_batchVars
  PROVE  batch' = batch /\ want' = want
<1>1. batch' = batch
  BY DEF BatchNext, BatchBook, BookTicket, CancelBooking, AnyRequest, RedisExpires,
     Settled, batchVars
<1>2. want' = want
  BY BatchStepIsFlowStep DEF Next, ArriveBook, BookStep, AcquireLock, AcquireLockFails,
     SelectForUpdate, CreateInTx, UpdateTicketsInTx, LogInTx, CommitBooking, ReleaseLock,
     ReleaseLockFails, ArriveCancel, CancelStep, Fetch, LockBooking, CancelRow,
     RestoreTickets, CommitCancel, AuditLog, SharedStep, Begin, Rollback, ServerStep,
     ServerRollsBack, ServerCommits, DeadlockAbort, Fault, CallFails, ConnectionLost,
     Crash, LockExpires, Quiescent, vars
<1> QED
  BY <1>1, <1>2

(* No entry has arrived at first.                                          *)
LEMMA InitBatches == BatchInit => Batches
BY EntryFacts DEF BatchInit, Init, Batches, BatchTypeOK, InOrder

(* BatchBook makes its bookings in order.                                  *)
LEMMA NextBatches ==
  ASSUME IInv, Batches, [BatchNext]_batchVars
  PROVE  Batches'
<1>1. batch' = batch /\ want' = want /\ BatchTypeOK
  BY BatchesStay DEF Batches
<1>2. BatchTypeOK' /\ WellFormed'
  BY <1>1 DEF Batches, BatchTypeOK, WellFormed
<1>3. ASSUME NEW t \in BatchRequests, NEW i \in DOMAIN batch[t], NEW j \in DOMAIN batch[t],
             j < i, pc'[batch[t][i]] # "idle"
      PROVE  pc'[batch[t][j]] = "done" /\ resp'[batch[t][j]] = "created"
  <2> DEFINE b == batch[t][i]
             a == batch[t][j]
  <2>1. a \in Bookings /\ b \in Bookings /\ i \in Nat \ {0} /\ j \in Nat \ {0}
    BY <1>1, EntryFacts
  <2>2. Succeeded(a)
    <3>1. CASE pc[b] # "idle"
      BY <3>1, <1>3 DEF Batches, InOrder
    <3>2. CASE pc[b] = "idle"
      <4>1. Turn(b)
        BY <3>2, <2>1, <1>3, BatchStepMoves
      <4>2. i > 1 /\ i - 1 \in DOMAIN batch[t]
        BY <2>1, <1>1, <1>3, EntryFacts
      <4>3. Succeeded(batch[t][i - 1])
        BY <4>1, <4>2 DEF Turn
      <4>4. CASE j = i - 1
        BY <4>3, <4>4
      <4>5. CASE j < i - 1
        BY <4>2, <4>3, <4>5 DEF Batches, InOrder, Succeeded
      <4> QED
        BY <2>1, <1>3, <4>4, <4>5
    <3> QED
      BY <3>1, <3>2
  <2> QED
    BY <2>1, <2>2, BatchStepMoves DEF Succeeded
<1>4. InOrder'
  BY <1>1, <1>3 DEF InOrder, Succeeded
<1> QED
  BY <1>2, <1>4 DEF Batches

(* Everything that is known of requests, and the order of batches.         *)
LEMMA BatchInvariant == BatchSpec => [](IInv /\ Told /\ Batches)
<1>1. BatchInit /\ [](IInv /\ Told) /\ [][BatchNext]_batchVars => []Batches
  BY InitBatches, NextBatches, PTL
<1> QED
  BY <1>1, BatchesAreRequests, ToldInvariant, PTL DEF BatchSpec

-----------------------------------------------------------------------------
(* A batch's answer tells exactly what it has booked.                      *)
THEOREM BatchAnswerTells == BatchSpec => []AnswerTells
<1>1. ASSUME IInv, Told, Batches PROVE AnswerTells
  <2>1. ASSUME NEW t \in BatchRequests, NEW i \in DOMAIN batch[t]
        PROVE  /\ batch[t][i] \in Bookings /\ i \in Nat
               /\ BookControl(batch[t][i]) /\ BookToldOK(batch[t][i])
    BY <1>1, EntryFacts DEF IInv, BookOK, Told, Batches
  <2>2. ASSUME NEW t \in BatchRequests, Created(t), NEW i \in DOMAIN batch[t]
        PROVE  booking[batch[t][i]] # NoRow
    BY <2>1, <2>2 DEF Created, Succeeded, BookToldOK
  <2>3. ASSUME NEW t \in BatchRequests, NEW i \in DOMAIN batch[t], FailedAt(t, i),
               NEW j \in DOMAIN batch[t]
        PROVE  /\ j < i => booking[batch[t][j]] # NoRow
               /\ j > i => booking[batch[t][j]] = NoRow /\ pc[batch[t][j]] = "idle"
    <3>1. CASE j < i
      <4>1. Succeeded(batch[t][j])
        BY <1>1, <2>3, <3>1 DEF FailedAt, Batches, InOrder
      <4> QED
        BY <2>1, <3>1, <4>1 DEF Succeeded, BookToldOK
    <3>2. CASE j > i
      <4>1. pc[batch[t][j]] = "idle"
        BY <1>1, <2>1, <2>3, <3>2 DEF FailedAt, Batches, InOrder, Succeeded
      <4> QED
        BY <2>1, <3>2, <4>1 DEF BookControl
    <3> QED
      BY <3>1, <3>2, <2>1
  <2>4. ASSUME NEW t \in BatchRequests, NEW i \in DOMAIN batch[t],
               resp[batch[t][i]] \in Rejections
        PROVE  booking[batch[t][i]] = NoRow /\ tx[batch[t][i]] # "inDoubt"
    BY <2>1, <2>4 DEF BookToldOK
  <2> QED
    BY <2>2, <2>3, <2>4 DEF AnswerTells
<1> QED
  BY <1>1, BatchInvariant, PTL

(* A batch never has two transactions on the server: an entry that has     *)
(* arrived has a committed one before it.                                  *)
THEOREM BatchOneTransaction == BatchSpec => []OneTransactionAtATime
<1>1. ASSUME IInv, Told, Batches, NEW t \in BatchRequests,
             NEW i \in DOMAIN batch[t], NEW j \in DOMAIN batch[t],
             i < j, tx[batch[t][j]] # "none"
      PROVE  tx[batch[t][i]] = "none"
  <2>1. /\ batch[t][i] \in Bookings /\ batch[t][j] \in Bookings
        /\ BookControl(batch[t][i]) /\ BookControl(batch[t][j]) /\ BookToldOK(batch[t][i])
    BY <1>1, EntryFacts DEF IInv, BookOK, Told, Batches
  <2>2. pc[batch[t][j]] # "idle"
    BY <1>1, <2>1 DEF BookControl
  <2>3. booking[batch[t][i]] # NoRow
    BY <1>1, <2>1, <2>2 DEF Batches, InOrder, Succeeded, BookToldOK
  <2> QED
    BY <2>1, <2>3 DEF BookControl
<1>2. ASSUME IInv, Told, Batches PROVE OneTransactionAtATime
  <2>1. ASSUME NEW t \in BatchRequests, NEW i \in DOMAIN batch[t], NEW j \in DOMAIN batch[t],
               tx[batch[t][i]] # "none", tx[batch[t][j]] # "none"
        PROVE  i = j
    <3>1. i \in Nat /\ j \in Nat
      BY <1>2, EntryFacts DEF Batches
    <3> QED
      BY <1>1, <1>2, <2>1, <3>1
  <2> QED
    BY <2>1 DEF OneTransactionAtATime
<1> QED
  BY <1>2, BatchInvariant, PTL

-----------------------------------------------------------------------------
(* Inductive, given what is known of requests: where a later entry of a    *)
(* batch has a row for the same event, the earlier one's is cancelled.     *)
EarlierGone ==
  \A t \in BatchRequests : \A i, j \in DOMAIN batch[t] :
    /\ i < j
    /\ want[batch[t][i]].event = want[batch[t][j]].event
    /\ booking[batch[t][j]] # NoRow
    => ~ Active(batch[t][i])

(* The unique index decides when the later entry commits, and a cancelled  *)
(* booking stays cancelled.                                                *)
LEMMA NextEarlierGone ==
  ASSUME IInv, IInv', Told, Batches, EarlierGone, OneActivePerUser', [BatchNext]_batchVars
  PROVE  EarlierGone'
<1>1. batch' = batch /\ want' = want /\ BatchTypeOK /\ WellFormed
  BY BatchesStay DEF Batches
<1>2. ASSUME NEW t \in BatchRequests, NEW i \in DOMAIN batch[t], NEW j \in DOMAIN batch[t],
             i < j, want[batch[t][i]].event = want[batch[t][j]].event,
             booking'[batch[t][j]] # NoRow,
             booking'[batch[t][i]] # NoRow, booking'[batch[t][i]].status = "confirmed"
      PROVE  FALSE
  <2> DEFINE a == batch[t][i]
             b == batch[t][j]
  <2>1. /\ a \in Bookings /\ b \in Bookings /\ a # b
        /\ want[a].user = want[b].user /\ want[a].event = want[b].event
    <3>1. i \in Nat /\ j \in Nat /\ a \in Bookings /\ b \in Bookings
      BY <1>1, EntryFacts
    <3> QED
      BY <1>1, <1>2, <3>1 DEF WellFormed
  <2>2. booking[b] # NoRow => booking[a] # NoRow /\ ~ Active(a)
    <3>1. ASSUME booking[b] # NoRow PROVE pc[b] # "idle"
      BY <2>1, <3>1 DEF IInv, BookOK, BookControl
    <3>2. ASSUME booking[b] # NoRow PROVE booking[a] # NoRow
      BY <1>2, <2>1, <3>1, <3>2 DEF Batches, InOrder, Succeeded, Told, BookToldOK
    <3> QED
      BY <1>2, <3>2 DEF EarlierGone
  <2>3. Ledger!Next \/ booking' = booking
    BY BatchStepIsFlowStep, StepIsLedgerStep DEF Ledger!vars
  <2>4. CASE booking' = booking
    BY <1>2, <2>2, <2>4 DEF Active
  <2>5. ASSUME NEW k \in Bookings, NEW u \in Users, NEW e \in Events,
               NEW n \in 1..MaxTickets, Ledger!Book(k, u, e, n)
        PROVE  FALSE
    <3>1. /\ booking[k] = NoRow
          /\ booking' = [booking EXCEPT ![k] = [user |-> u, event |-> e, count |-> n,
                                               status |-> "confirmed"]]
          /\ booking \in [Bookings -> Rows \cup {NoRow}]
      BY <2>5 DEF Ledger!Book, IInv, TypeOK
    <3>2. CASE k = b
      <4>1. booking'[b] # NoRow /\ booking'[b].status = "confirmed"
        BY <1>2, <2>1, <3>1, <3>2
      <4>2. ASSUME NEW c \in Bookings, booking'[c] # NoRow
            PROVE  booking'[c].user = want[c].user /\ booking'[c].event = want[c].event
        BY <1>1, <4>2 DEF IInv, BookOK, BookControl, RowMatches
      <4> QED
        BY <1>2, <2>1, <4>1, <4>2 DEF OneActivePerUser, Ledger!OneActivePerUser,
           Ledger!Active
    <3>3. CASE k # b
      BY <1>2, <2>1, <2>2, <3>1, <3>3 DEF Active
    <3> QED
      BY <3>2, <3>3
  <2>6. ASSUME NEW k \in Bookings, Ledger!Cancel(k)
        PROVE  FALSE
    <3>1. /\ booking[k] # NoRow
          /\ booking' = [booking EXCEPT ![k].status = "cancelled"]
          /\ booking \in [Bookings -> Rows \cup {NoRow}]
      BY <2>6 DEF Ledger!Cancel, Ledger!Cancellable, Ledger!Active, IInv, TypeOK
    <3>2. k # a
      BY <1>2, <2>1, <3>1 DEF Active, Rows
    <3>3. booking[b] # NoRow
      BY <1>2, <2>1, <3>1
    <3> QED
      BY <1>2, <2>1, <2>2, <3>1, <3>2, <3>3 DEF Active
  <2> QED
    BY <2>3, <2>4, <2>5, <2>6 DEF Ledger!Next
<1> QED
  BY <1>1, <1>2 DEF EarlierGone, Active

(* A batch that names an event twice has both bookings only if the first   *)
(* was cancelled before the second was committed.                          *)
THEOREM BatchNoEventTwice == BatchSpec => []NoEventTwice
<1>1. BatchInit => EarlierGone
  BY EntryFacts DEF BatchInit, Init, EarlierGone, BatchTypeOK
<1>2. (IInv /\ Told /\ Batches) /\ EarlierGone /\ OneActivePerUser' /\ IInv' /\ [BatchNext]_batchVars
      => EarlierGone'
  BY NextEarlierGone
<1>3. BatchSpec => []EarlierGone
  BY <1>1, <1>2, BatchInvariant, BatchesAreRequests, FlowOneActive, PTL DEF BatchSpec
<1>4. ASSUME Told, Batches, EarlierGone PROVE NoEventTwice
  <2>1. ASSUME NEW t \in BatchRequests, NEW j \in DOMAIN batch[t], Succeeded(batch[t][j])
        PROVE  booking[batch[t][j]] # NoRow
    BY <1>4, <2>1, EntryFacts DEF Told, BookToldOK, Succeeded, Batches
  <2> QED
    BY <1>4, <2>1 DEF EarlierGone, NoEventTwice
<1> QED
  BY <1>3, <1>4, BatchInvariant, PTL
=============================================================================
