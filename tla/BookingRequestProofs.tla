------------------------ MODULE BookingRequestProofs ------------------------
(***************************************************************************)
(* TLAPS proofs, from the inductive invariant of BookingFlowProofs, of     *)
(* what requests are told and how they wait.  A COMMIT finds its booking   *)
(* active, or not there yet, so that clients and the audit log are told    *)
(* the truth; a Redis lock is freed by its holder or its TTL only; and     *)
(* nobody waits in vain for a row, an index entry or a connection, but one *)
(* user's booking and the same user's cancellation for one another.        *)
(***************************************************************************)
EXTENDS BookingFlowProofs, FiniteSetTheorems

IsCancelled(b) == booking[b] # NoRow /\ ~ Active(b)

BookToldOK(b) ==
  /\ b \in audit <=> booking[b] # NoRow
  /\ resp[b] = "created" => booking[b] # NoRow
  /\ resp[b] \in Rejections =>
       pc[b] \in {"rollback", "release", "done"} /\ tx[b] # "inDoubt" /\ booking[b] = NoRow

CancelToldOK(c) ==
  c \in audit \/ pc[c] = "audit" \/ resp[c] \in {"cancelled", "cannotCancel"} =>
    IsCancelled(target[c].booking)

OneWinner ==
  \A c, d \in Cancels :
    /\ resp[c] = "cancelled" /\ resp[d] = "cancelled"
    /\ target[c].booking = target[d].booking
    => c = d

(* Inductive, given IInv.                                                  *)
Told ==
  /\ \A b \in Bookings : BookToldOK(b)
  /\ \A c \in Cancels : CancelToldOK(c)
  /\ OneWinner

-----------------------------------------------------------------------------
(* A step of r that changes neither the bookings nor what the others have  *)
(* been told.                                                              *)
Quiet(r) ==
  /\ booking' = booking /\ target' = target
  /\ \A s \in Requests \ {r} :
       pc'[s] = pc[s] /\ tx'[s] = tx[s] /\ resp'[s] = resp[s]
  /\ \A s \in Requests \ {r} : s \in audit' <=> s \in audit

(* Such a step of a booking request needs its own part only.               *)
LEMMA BookQuietTold ==
  ASSUME Told, NEW b \in Bookings, Quiet(b), BookToldOK(b)'
  PROVE  Told'
<1>1. b \in Requests /\ \A c \in Cancels : c \in Requests \ {b}
  BY FlowAssumption DEF Requests
<1>2. ASSUME NEW a \in Bookings \ {b} PROVE BookToldOK(a)'
  BY DEF Told, BookToldOK, Quiet, Requests
<1>3. ASSUME NEW c \in Cancels PROVE CancelToldOK(c)'
  BY <1>1 DEF Told, CancelToldOK, Quiet, IsCancelled, Active
<1>4. OneWinner'
  BY <1>1 DEF Told, OneWinner, Quiet
<1> QED
  BY <1>2, <1>3, <1>4 DEF Told

(* And so does one of a cancellation that is not told it has succeeded.    *)
LEMMA CancelQuietTold ==
  ASSUME Told, NEW c \in Cancels, Quiet(c), CancelToldOK(c)',
         resp'[c] \in {resp[c]} \/ resp'[c] # "cancelled"
  PROVE  Told'
<1>1. c \in Requests /\ \A b \in Bookings : b \in Requests \ {c}
  BY FlowAssumption DEF Requests
<1>2. ASSUME NEW b \in Bookings PROVE BookToldOK(b)'
  BY <1>1 DEF Told, BookToldOK, Quiet
<1>3. ASSUME NEW d \in Cancels \ {c} PROVE CancelToldOK(d)'
  BY DEF Told, CancelToldOK, Quiet, IsCancelled, Active, Requests
<1>4. OneWinner'
  BY DEF Told, OneWinner, Quiet, Requests
<1> QED
  BY <1>2, <1>3, <1>4 DEF Told

(* The booking's own steps other than a COMMIT that succeeds.              *)
LEMMA BookStepTold ==
  ASSUME IInv, Told, NEW b \in Bookings, ArriveBook(b) \/ BookStep(b),
         ~ (CommitBooking(b) /\ tx[b] = "open")
  PROVE  Told'
<1> USE DEF Goto, Answer, tables
<1>1. /\ b \in Requests /\ TypeOK /\ BookControl(b) /\ BookToldOK(b)
  BY DEF IInv, BookOK, Told, Requests
<1>2. ASSUME ArriveBook(b) \/ AcquireLock(b) \/ AcquireLockFails(b)
      PROVE  Quiet(b) /\ BookToldOK(b)'
  <2>1. Quiet(b) /\ audit' = audit
    BY <1>1, <1>2 DEF ArriveBook, AcquireLock, AcquireLockFails, Quiet, TypeOK
  <2>2. /\ pc[b] \in {"idle", "acquire"} /\ pc'[b] \in {"acquire", "begin", "done"}
        /\ resp'[b] = resp[b] \/ (pc'[b] = "done" /\ resp'[b] # "created")
        /\ tx' = tx
    BY <1>1, <1>2 DEF ArriveBook, AcquireLock, AcquireLockFails, TypeOK
  <2> QED
    BY <1>1, <2>1, <2>2 DEF BookToldOK, BookControl, Quiet
<1>3. ASSUME SelectForUpdate(b)
      PROVE  Quiet(b) /\ BookToldOK(b)'
  <2>1. Quiet(b) /\ audit' = audit
    BY <1>1, <1>3 DEF SelectForUpdate, Refuse, Quiet, TypeOK
  <2>2. /\ pc[b] = "select" /\ tx' = tx
        /\ \/ resp'[b] = resp[b]
           \/ pc'[b] = "rollback" /\ resp'[b] # "created"
    BY <1>1, <1>3 DEF SelectForUpdate, Refuse, TypeOK
  <2> QED
    BY <1>1, <2>1, <2>2 DEF BookToldOK, BookControl, Quiet
<1>4. ASSUME CreateInTx(b) \/ UpdateTicketsInTx(b)
      PROVE  Quiet(b) /\ BookToldOK(b)'
  <2>1. Quiet(b) /\ audit' = audit
    BY <1>1, <1>4 DEF CreateInTx, UpdateTicketsInTx, Abort, RollsBack, Refuse, Quiet, TypeOK
  <2>2. /\ pc[b] \in {"insert", "decrement"}
        /\ tx'[b] \in {tx[b], "aborted"}
        /\ \/ resp'[b] = resp[b]
           \/ pc'[b] = "rollback" /\ resp'[b] # "created"
    BY <1>1, <1>4 DEF CreateInTx, UpdateTicketsInTx, Abort, RollsBack, Refuse, TypeOK
  <2> QED
    BY <1>1, <2>1, <2>2 DEF BookToldOK, BookControl, Quiet
<1>5. ASSUME LogInTx(b) \/ CommitBooking(b)
      PROVE  Quiet(b) /\ BookToldOK(b)'
  <2>1. Quiet(b) /\ audit' = audit
    BY <1>1, <1>5 DEF LogInTx, CommitBooking, RollsBack, Quiet, TypeOK
  <2>2. /\ pc[b] \in {"log", "commit"} /\ resp'[b] \in {resp[b], "error"}
        /\ "error" \notin Rejections
    BY <1>1, <1>5 DEF LogInTx, CommitBooking, TypeOK, Rejections
  <2> QED
    BY <1>1, <2>1, <2>2 DEF BookToldOK, BookControl, Quiet
<1>6. ASSUME ReleaseLock(b) \/ ReleaseLockFails(b)
      PROVE  Quiet(b) /\ BookToldOK(b)'
  <2>1. Quiet(b) /\ audit' = audit /\ tx' = tx /\ resp' = resp /\ pc'[b] = "done"
    BY <1>1, <1>6 DEF ReleaseLock, ReleaseLockFails, Quiet, TypeOK
  <2> QED
    BY <1>1, <2>1 DEF BookToldOK, Quiet
<1> QED
  BY <1>2, <1>3, <1>4, <1>5, <1>6, BookQuietTold DEF BookStep

(* The cancellation's own steps other than its COMMIT.                     *)
LEMMA CancelStepTold ==
  ASSUME IInv, Told, NEW c \in Cancels, ArriveCancel(c) \/ CancelStep(c), ~ CommitCancel(c)
  PROVE  Told'
<1> USE DEF Goto, Answer, tables
<1>1. c \in Requests /\ TypeOK /\ CancelToldOK(c) /\ target[c].booking \in Bookings
  BY DEF IInv, Told, Requests, TypeOK
<1>2. ASSUME ArriveCancel(c) \/ Fetch(c) \/ CancelRow(c) \/ RestoreTickets(c)
      PROVE  Told'
  <2>1. Quiet(c) /\ audit' = audit
    BY <1>1, <1>2 DEF ArriveCancel, Fetch, CancelRow, RestoreTickets, Abort, RollsBack,
       Refuse, Quiet, TypeOK
  <2>2. /\ pc'[c] # "audit"
        /\ resp'[c] = resp[c] \/ resp'[c] \notin {"cancelled", "cannotCancel"}
    BY <1>1, <1>2 DEF ArriveCancel, Fetch, CancelRow, RestoreTickets, Abort, RollsBack,
       Refuse, TypeOK
  <2>3. CancelToldOK(c)'
    BY <1>1, <2>1, <2>2 DEF CancelToldOK, Quiet, IsCancelled, Active
  <2> QED
    BY <2>1, <2>2, <2>3, CancelQuietTold
<1>3. ASSUME LockBooking(c)
      PROVE  Told'
  <2>1. Quiet(c) /\ audit' = audit
    BY <1>1, <1>3 DEF LockBooking, Refuse, Quiet, TypeOK
  <2>2. /\ pc'[c] # "audit"
        /\ \/ resp'[c] = resp[c] \/ resp'[c] \notin {"cancelled", "cannotCancel"}
           \/ resp'[c] = "cannotCancel" /\ IsCancelled(target[c].booking)
    BY <1>1, <1>3 DEF LockBooking, Refuse, TypeOK, IsCancelled
  <2>3. CancelToldOK(c)'
    BY <1>1, <2>1, <2>2 DEF CancelToldOK, Quiet, IsCancelled, Active
  <2> QED
    BY <2>1, <2>2, <2>3, CancelQuietTold
<1>4. ASSUME AuditLog(c)
      PROVE  Told'
  <2>1. Quiet(c) /\ pc[c] = "audit" /\ resp' = resp
    BY <1>1, <1>4 DEF AuditLog, Quiet, TypeOK
  <2>2. CancelToldOK(c)'
    BY <1>1, <2>1 DEF CancelToldOK, Quiet, IsCancelled, Active
  <2> QED
    BY <2>1, <2>2, CancelQuietTold
<1> QED
  BY <1>2, <1>3, <1>4 DEF CancelStep

(* The steps of either kind of request other than a COMMIT.                *)
LEMMA OtherStepTold ==
  ASSUME IInv, Told, NEW r \in Requests,
         SharedStep(r) \/ ServerRollsBack(r) \/ DeadlockAbort(r) \/ Fault(r)
  PROVE  Told'
<1> USE DEF Goto, Answer, tables
<1>1. /\ TypeOK
      /\ r \in Bookings => BookControl(r) /\ BookToldOK(r)
      /\ r \in Cancels => CancelToldOK(r) /\ r \notin Bookings
      /\ Unwound(r) \in {"release", "done"}
  BY FlowAssumption, StepNames DEF IInv, BookOK, Told, Requests
<1>2. Quiet(r) /\ audit' = audit
  BY <1>1 DEF SharedStep, Begin, Rollback, ServerRollsBack, DeadlockAbort, Abort,
     RollsBack, Refuse, Fault, CallFails, ConnectionLost, Crash, Quiet, TypeOK
<1>3. \/ resp'[r] = resp[r]
      \/ resp'[r] \notin Rejections \cup {"created", "cancelled"}
  BY <1>1 DEF SharedStep, Begin, Rollback, ServerRollsBack, DeadlockAbort, Abort,
     Refuse, Fault, CallFails, ConnectionLost, Crash, Rejections, TypeOK
<1>4. CASE r \in Bookings
  <2>1. CASE resp'[r] = resp[r] /\ resp[r] \in Rejections
    <3>1. /\ pc[r] \in {"rollback", "release", "done"} /\ tx[r] # "inDoubt"
          /\ booking[r] = NoRow
      BY <1>1, <1>4, <2>1 DEF BookToldOK
    <3>2. pc'[r] \in {"rollback", "release", "done"} /\ tx'[r] # "inDoubt"
      BY <1>1, <1>4, <3>1 DEF SharedStep, Begin, Rollback, ServerRollsBack,
         DeadlockAbort, Deadlocked, WaitsFor, Abort, RollsBack, Refuse, Fault, CallFails,
         ConnectionLost, Crash, Orphaned, InTx, TypeOK
    <3> QED
      BY <1>1, <1>2, <1>4, <2>1, <3>1, <3>2, BookQuietTold DEF BookToldOK, Quiet, Rejections
  <2>2. CASE ~ (resp'[r] = resp[r] /\ resp[r] \in Rejections)
    <3>1. BookToldOK(r)'
      BY <1>1, <1>2, <1>3, <1>4, <2>2 DEF BookToldOK, Quiet
    <3> QED
      BY <1>2, <1>4, <3>1, BookQuietTold
  <2> QED
    BY <2>1, <2>2
<1>5. CASE r \in Cancels
  <2>1. pc'[r] = pc[r] \/ pc'[r] # "audit"
    BY <1>1 DEF SharedStep, Begin, Rollback, ServerRollsBack, DeadlockAbort, Abort,
       RollsBack, Refuse, Fault, CallFails, ConnectionLost, Crash, TypeOK
  <2>2. CancelToldOK(r)'
    BY <1>1, <1>2, <1>3, <1>5, <2>1 DEF CancelToldOK, Quiet, IsCancelled, Active, Rejections
  <2> QED
    BY <1>2, <1>3, <1>5, <2>2, CancelQuietTold
<1> QED
  BY <1>4, <1>5 DEF Requests

(* A booking's COMMIT brings its audit entry with it.                      *)
LEMMA BookCommitTold ==
  ASSUME IInv, Told, NEW b \in Bookings, CommitStep(b)
  PROVE  Told'
<1>1. PICK e, n : e = want[b].event /\ n = want[b].count
  OBVIOUS
<1>2. /\ TypeOK /\ b \in Requests /\ Committing(b) /\ Commits(b)
      /\ \A c \in Cancels : c \in Requests \ {b}
  BY FlowAssumption DEF IInv, Requests, CommitStep
<1>3. /\ booking[b] = NoRow /\ want[b].user \in Users /\ e \in Events /\ n \in 1..MaxTickets
      /\ booking' = [booking EXCEPT ![b] = [user |-> want[b].user, event |-> e,
                                            count |-> n, status |-> "confirmed"]]
  BY <1>1, <1>2, BookCommitEffect
<1>4. booking'[b] # NoRow
  BY <1>2, <1>3, FlowAssumption DEF TypeOK, Rows
<1>5. \A a \in Bookings \ {b} : booking'[a] = booking[a]
  BY <1>2, <1>3 DEF TypeOK
<1>6. audit' = audit \cup {b}
  <2>1. writes[b] = {"row", "tickets", "log"}
    BY <1>2 DEF IInv, BookOK, BookWrites
  <2> QED
    BY <1>2, <2>1 DEF Commits
<1>7. \A s \in Requests \ {b} : pc'[s] = pc[s] /\ tx'[s] = tx[s] /\ resp'[s] = resp[s]
  BY <1>2, CommitsFrame DEF CommitStep
<1>8. BookToldOK(b)'
  <2>1. resp[b] \in Rejections => tx[b] # "inDoubt"
    BY DEF Told, BookToldOK
  <2>2. resp'[b] \notin Rejections
    BY <2>1 DEF CommitStep, Rejections
  <2> QED
    BY <1>4, <1>6, <2>2 DEF BookToldOK
<1>9. ASSUME NEW a \in Bookings \ {b} PROVE BookToldOK(a)'
  BY <1>5, <1>6, <1>7 DEF Told, BookToldOK, Requests
<1>10. ASSUME NEW c \in Cancels PROVE CancelToldOK(c)'
  <2>1. target' = target /\ target[c].booking \in Bookings
    BY DEF CommitStep, IInv, TypeOK
  <2>2. IsCancelled(target[c].booking) => IsCancelled(target[c].booking)'
    BY <1>3, <1>5, <2>1 DEF IsCancelled, Active
  <2> QED
    BY <1>2, <1>6, <1>7, <2>1, <2>2 DEF Told, CancelToldOK
<1>11. OneWinner'
  BY <1>2, <1>7 DEF Told, OneWinner, CommitStep
<1> QED
  BY <1>8, <1>9, <1>10, <1>11 DEF Told

(* A cancellation's COMMIT finds the booking active, so nobody has been    *)
(* told of its cancellation before.                                        *)
LEMMA CancelCommitTold ==
  ASSUME IInv, Told, NEW c \in Cancels, CommitStep(c)
  PROVE  Told'
<1>1. PICK b, e, n : b = target[c].booking /\ e = booking[b].event /\ n = booking[b].count
  OBVIOUS
<1>2. Committing(c) /\ Commits(c) /\ TypeOK
  BY DEF CommitStep, IInv
<1>3. /\ b \in Bookings /\ Active(b) /\ booking[b] \in Rows
      /\ booking' = [booking EXCEPT ![b].status = "cancelled"]
  BY <1>1, <1>2, CancelCommitEffect, SMTT(30)
<1>4. c \in Requests /\ c \notin Bookings /\ \A a \in Bookings : a \in Requests \ {c}
  BY FlowAssumption DEF Requests
<1>5. booking'[b] \in Rows /\ booking'[b].status = "cancelled"
  BY <1>2, <1>3 DEF TypeOK, Rows
<1>6. IsCancelled(b)'
  BY <1>5, FlowAssumption DEF IsCancelled, Active
<1>7. \A a \in Bookings \ {b} : booking'[a] = booking[a]
  BY <1>2, <1>3 DEF TypeOK
<1>8. audit' = audit
  <2>1. writes[c] = {"row", "tickets"}
    BY <1>2 DEF IInv, CancelOK, CancelWrites
  <2> QED
    BY <1>2, <2>1 DEF Commits
<1>9. /\ target' = target
      /\ \A s \in Requests \ {c} : pc'[s] = pc[s] /\ tx'[s] = tx[s] /\ resp'[s] = resp[s]
  BY <1>2, <1>4, CommitsFrame DEF CommitStep
<1>10. ASSUME NEW a \in Bookings PROVE BookToldOK(a)'
  <2>1. booking'[a] = NoRow <=> booking[a] = NoRow
    BY <1>3, <1>6, <1>7 DEF IsCancelled, Active
  <2> QED
    BY <1>4, <1>8, <1>9, <2>1 DEF Told, BookToldOK
<1>11. ASSUME NEW d \in Cancels PROVE CancelToldOK(d)'
  <2>1. target[d].booking \in Bookings
    BY <1>2 DEF TypeOK
  <2>2. IsCancelled(target[d].booking) => IsCancelled(target[d].booking)'
    BY <1>6, <1>7, <1>9, <2>1 DEF IsCancelled, Active
  <2>3. CASE d = c
    BY <1>1, <1>6, <1>9, <2>3 DEF CancelToldOK
  <2>4. CASE d # c
    BY <1>8, <1>9, <2>2, <2>4 DEF Told, CancelToldOK, Requests
  <2> QED
    BY <2>3, <2>4
<1>12. OneWinner'
  <2>1. \A d \in Cancels : target[d].booking = b => resp[d] # "cancelled"
    BY <1>3 DEF Told, CancelToldOK, IsCancelled
  <2>2. \A d \in Cancels \ {c} : resp'[d] = resp[d]
    BY <1>9 DEF Requests
  <2> QED
    BY <1>1, <1>9, <2>1, <2>2 DEF Told, OneWinner
<1> QED
  BY <1>10, <1>11, <1>12 DEF Told

-----------------------------------------------------------------------------
(* Nobody has been told anything when no request has arrived.              *)
LEMMA InitTold == Init => Told
BY DEF Init, Told, BookToldOK, CancelToldOK, OneWinner, Rejections, Requests

(* Every step keeps what was told true.                                    *)
LEMMA NextTold == IInv /\ Told /\ [Next]_vars => Told'
<1> SUFFICES ASSUME IInv, Told, [Next]_vars PROVE Told'
  OBVIOUS
<1>1. ASSUME NEW r \in Requests, CommitStep(r) PROVE Told'
  BY <1>1, BookCommitTold, CancelCommitTold DEF Requests
<1>2. ASSUME NEW b \in Bookings, ArriveBook(b) \/ BookStep(b) PROVE Told'
  <2>1. b \in Requests
    BY DEF Requests
  <2> QED
    BY <1>1, <1>2, <2>1, BookStepTold, CommitSteps
<1>3. ASSUME NEW c \in Cancels, ArriveCancel(c) \/ CancelStep(c) PROVE Told'
  <2>1. c \in Requests
    BY DEF Requests
  <2> QED
    BY <1>1, <1>3, <2>1, CancelStepTold, CommitSteps
<1>4. ASSUME NEW r \in Requests, SharedStep(r) \/ ServerStep(r) \/ Fault(r) PROVE Told'
  BY <1>1, <1>4, OtherStepTold, CommitSteps DEF ServerStep
<1>5. ASSUME (\E e \in Events : LockExpires(e)) \/ Quiescent \/ UNCHANGED vars PROVE Told'
  <2>1. UNCHANGED <<target, booking, audit, pc, tx, resp>>
    BY <1>5 DEF LockExpires, Quiescent, vars, tables
  <2> QED
    BY <2>1 DEF Told, BookToldOK, CancelToldOK, OneWinner, IsCancelled, Active
<1> QED
  BY <1>2, <1>3, <1>4, <1>5 DEF Next

(* Both invariants hold in every reachable state.                          *)
LEMMA ToldInvariant == Spec => [](IInv /\ Told)
<1>1. Init => IInv /\ Told
  BY InitIInv, InitTold
<1>2. (IInv /\ Told) /\ [Next]_vars => (IInv /\ Told)'
  BY NextIInv, NextTold
<1> QED
  BY <1>1, <1>2, PTL DEF Spec

(* What a client was told is true, and stays true, whatever COMMIT was in  *)
(* doubt when it was told; one cancellation of a booking succeeds at most. *)
THEOREM AnswersAlwaysTrue == Spec => []AnswersAreTrue
<1>1. IInv /\ Told => AnswersAreTrue
  BY DEF Told, BookToldOK, CancelToldOK, OneWinner, IsCancelled, AnswersAreTrue
<1> QED
  BY <1>1, ToldInvariant, PTL

(* A booking and its create entry are committed together or not at all;    *)
(* a cancel entry is only ever written for a cancelled booking.            *)
THEOREM AuditAlwaysTrue == Spec => []AuditIsTrue
<1>1. IInv /\ Told => AuditIsTrue
  BY DEF Told, BookToldOK, CancelToldOK, IsCancelled, AuditIsTrue
<1> QED
  BY <1>1, ToldInvariant, PTL

-----------------------------------------------------------------------------
(* A Redis lock leaves its holder only by the holder's own release or by   *)
(* its TTL: nobody else's release, however late, frees it.                 *)
THEOREM OnlyTheHolderReleases == Spec => OnlyHolderReleases
<1>1. ASSUME TypeOK, [Next]_vars, NEW e \in Events, NEW b \in Bookings,
             lock[e] = b, lock'[e] # b
      PROVE  lock'[e] = NoOne /\ (pc'[b] # pc[b] \/ pc' = pc)
  <2>1. lock' # lock /\ lock \in [Events -> Bookings \cup {NoOne}] /\ b # NoOne
    BY <1>1, FlowAssumption DEF TypeOK, Requests
  <2>2. CASE \E a \in Bookings : AcquireLock(a) \/ AcquireLockFails(a)
    BY <1>1, <2>1, <2>2 DEF AcquireLock, AcquireLockFails, EventOf
  <2>3. ASSUME NEW a \in Bookings, ReleaseLock(a)
        PROVE  lock'[e] = NoOne /\ pc'[b] # pc[b]
    <3>1. CanRelease(a, EventOf(a)) /\ EventOf(a) = e
      BY <1>1, <2>1, <2>3 DEF ReleaseLock
    <3>2. a = b
      BY <1>1, <3>1 DEF CanRelease
    <3> QED
      BY <1>1, <2>1, <2>3, <3>1, <3>2 DEF ReleaseLock, Goto, TypeOK, Requests
  <2>4. CASE \E f \in Events : LockExpires(f)
    BY <1>1, <2>1, <2>4 DEF LockExpires
  <2>5. \/ \E a \in Bookings : AcquireLock(a) \/ AcquireLockFails(a) \/ ReleaseLock(a)
        \/ \E f \in Events : LockExpires(f)
    <3>1. ASSUME NEW a \in Bookings, ArriveBook(a) \/ BookStep(a)
          PROVE  AcquireLock(a) \/ AcquireLockFails(a) \/ ReleaseLock(a)
      BY <2>1, <3>1 DEF ArriveBook, BookStep, SelectForUpdate, CreateInTx,
         UpdateTicketsInTx, LogInTx, CommitBooking, ReleaseLockFails
    <3>2. ASSUME NEW c \in Cancels, ArriveCancel(c) \/ CancelStep(c) PROVE FALSE
      BY <2>1, <3>2 DEF ArriveCancel, CancelStep, Fetch, LockBooking, CancelRow,
         RestoreTickets, CommitCancel, AuditLog
    <3>3. ASSUME NEW r \in Requests, SharedStep(r) \/ ServerStep(r) \/ Fault(r) PROVE FALSE
      BY <2>1, <3>3 DEF SharedStep, Begin, Rollback, ServerStep, ServerRollsBack,
         ServerCommits, DeadlockAbort, Fault, CallFails, ConnectionLost, Crash
    <3>4. ~ Quiescent /\ ~ UNCHANGED vars
      BY <2>1 DEF Quiescent, vars
    <3> QED
      BY <1>1, <3>1, <3>2, <3>3, <3>4 DEF Next
  <2> QED
    BY <2>2, <2>3, <2>4, <2>5
<1>2. TypeOK /\ [Next]_vars =>
        [\A e \in Events, b \in Bookings :
           lock[e] = b /\ lock'[e] # b =>
             lock'[e] = NoOne /\ (pc'[b] # pc[b] \/ pc' = pc)]_vars
  BY <1>1
<1> QED
  BY <1>2, FlowTypeOK, PTL DEF Spec, OnlyHolderReleases

-----------------------------------------------------------------------------
(* Which requests hold row locks: the server has not ended their           *)
(* transaction, and while the client lives it is past the statement that   *)
(* takes the lock.                                                         *)
Unended(r) == tx[r] \in {"open", "lost", "inDoubt"}

HoldersOK(r) ==
  /\ \A e \in Events : eventRow[e] = r =>
       /\ Unended(r)
       /\ tx[r] = "open" => pc[r] \in {"insert", "decrement", "log", "commit", "rollback"}
  /\ \A b \in Bookings : bookingRow[b] = r =>
       /\ Unended(r)
       /\ tx[r] = "open" => pc[r] \in {"cancelRow", "restore", "commit", "rollback"}

Holders == \A r \in Requests : HoldersOK(r)

(* A step of r: no other request moves or gains a row lock.                *)
Alone(r) ==
  \A s \in Requests \ {r} :
    /\ pc'[s] = pc[s] /\ tx'[s] = tx[s]
    /\ \A e \in Events : eventRow'[e] = s => eventRow[e] = s
    /\ \A b \in Bookings : bookingRow'[b] = s => bookingRow[b] = s

(* Such a step needs r's part only.                                        *)
LEMMA AloneHolders ==
  ASSUME Holders, NEW r \in Requests, Alone(r), HoldersOK(r)'
  PROVE  Holders'
BY DEF Holders, HoldersOK, Unended, Alone

(* A transaction that ends, or is aborted, holds nothing.                  *)
LEMMA EndedHolds ==
  ASSUME TypeOK, NEW r \in Requests, FreeRows(r)
  PROVE  /\ \A e \in Events : eventRow'[e] # r
         /\ \A b \in Bookings : bookingRow'[b] # r
         /\ \A s \in Requests \ {r} :
              /\ \A e \in Events : eventRow'[e] = s => eventRow[e] = s
              /\ \A b \in Bookings : bookingRow'[b] = s => bookingRow[b] = s
BY FlowAssumption DEF TypeOK, FreeRows

(* The booking's statements that take no row lock.                         *)
LEMMA BookStepHolders ==
  ASSUME IInv, Holders, NEW b \in Bookings, ArriveBook(b) \/ BookStep(b)
  PROVE  Holders'
<1> USE DEF Goto, Answer, Refuse, rowLocks
<1>1. b \in Requests /\ TypeOK /\ BookControl(b) /\ HoldersOK(b)
  BY DEF IInv, BookOK, Holders, Requests
<1>2. CASE \/ ArriveBook(b) \/ AcquireLock(b) \/ AcquireLockFails(b)
           \/ ReleaseLock(b) \/ ReleaseLockFails(b)
  <2>1. Alone(b) /\ UNCHANGED <<eventRow, bookingRow, tx>> /\ tx[b] # "open"
    BY <1>1, <1>2 DEF ArriveBook, AcquireLock, AcquireLockFails, ReleaseLock,
       ReleaseLockFails, BookControl, Alone, TypeOK
  <2> QED
    BY <1>1, <2>1, AloneHolders DEF HoldersOK, Unended
<1>3. CASE SelectForUpdate(b)
  <2>1. Alone(b) /\ UNCHANGED <<bookingRow, tx>> /\ tx[b] = "open" /\ pc[b] = "select"
    BY <1>1, <1>3 DEF SelectForUpdate, LockEventRow, BookControl, Alone, TypeOK
  <2>2. pc'[b] \in {"insert", "rollback"}
    BY <1>1, <1>3 DEF SelectForUpdate, TypeOK
  <2> QED
    BY <1>1, <2>1, <2>2, AloneHolders DEF HoldersOK, Unended
<1>4. CASE CreateInTx(b) \/ UpdateTicketsInTx(b) \/ LogInTx(b)
  <2>1. tx[b] = "open" /\ pc[b] \in {"insert", "decrement", "log"}
    BY <1>1, <1>4 DEF CreateInTx, UpdateTicketsInTx, LogInTx, BookControl
  <2>2. \A s \in Requests \ {b} : pc'[s] = pc[s] /\ tx'[s] = tx[s]
    BY <1>1, <1>4 DEF CreateInTx, UpdateTicketsInTx, LogInTx, Abort, RollsBack, TypeOK
  <2>3. CASE FreeRows(b)
    BY <1>1, <2>2, <2>3, EndedHolds, AloneHolders DEF Alone, HoldersOK
  <2>4. CASE ~ FreeRows(b)
    <3>1. /\ tx' = tx /\ bookingRow' = bookingRow
          /\ eventRow' = eventRow \/ LockEventRow(b, EventOf(b))
          /\ pc'[b] \in {"decrement", "log", "commit", "rollback"}
      BY <1>1, <1>4, <2>4 DEF CreateInTx, UpdateTicketsInTx, LogInTx, Abort, RollsBack, TypeOK
    <3>2. Alone(b)
      BY <1>1, <2>2, <3>1 DEF Alone, LockEventRow, TypeOK
    <3> QED
      BY <1>1, <2>1, <3>1, <3>2, AloneHolders DEF HoldersOK, Unended
  <2> QED
    BY <2>3, <2>4
<1>5. CASE CommitBooking(b)
  <2>1. /\ FreeRows(b)
        /\ \A s \in Requests \ {b} : pc'[s] = pc[s] /\ tx'[s] = tx[s]
    BY <1>1, <1>5 DEF CommitBooking, Commits, RollsBack, TypeOK
  <2> QED
    BY <1>1, <2>1, EndedHolds, AloneHolders DEF Alone, HoldersOK
<1> QED
  BY <1>2, <1>3, <1>4, <1>5 DEF BookStep

(* The cancellation's statements.                                          *)
LEMMA CancelStepHolders ==
  ASSUME IInv, Holders, NEW c \in Cancels, ArriveCancel(c) \/ CancelStep(c)
  PROVE  Holders'
<1> USE DEF Goto, Answer, Refuse, rowLocks
<1>1. c \in Requests /\ TypeOK /\ CancelControl(c) /\ HoldersOK(c)
  BY DEF IInv, CancelOK, Holders, Requests
<1>2. CASE ArriveCancel(c) \/ Fetch(c) \/ AuditLog(c)
  <2>1. Alone(c) /\ UNCHANGED <<eventRow, bookingRow, tx>> /\ tx[c] # "open"
    BY <1>1, <1>2 DEF ArriveCancel, Fetch, AuditLog, CancelControl, Alone, TypeOK
  <2> QED
    BY <1>1, <2>1, AloneHolders DEF HoldersOK, Unended
<1>3. CASE LockBooking(c) \/ CancelRow(c)
  <2>1. /\ Alone(c) /\ UNCHANGED <<eventRow, tx>> /\ tx[c] = "open"
        /\ pc[c] \in {"lockBooking", "cancelRow"}
    BY <1>1, <1>3 DEF LockBooking, CancelRow, CancelControl, Alone, TypeOK
  <2>2. pc'[c] \in {"cancelRow", "restore", "rollback"}
    BY <1>1, <1>3 DEF LockBooking, CancelRow, TypeOK
  <2> QED
    BY <1>1, <2>1, <2>2, AloneHolders DEF HoldersOK, Unended
<1>4. CASE RestoreTickets(c)
  <2>1. tx[c] = "open" /\ pc[c] = "restore"
    BY <1>1, <1>4 DEF RestoreTickets, CancelControl
  <2>2. \A s \in Requests \ {c} : pc'[s] = pc[s] /\ tx'[s] = tx[s]
    BY <1>1, <1>4 DEF RestoreTickets, Abort, RollsBack, TypeOK
  <2>3. CASE FreeRows(c)
    BY <1>1, <2>2, <2>3, EndedHolds, AloneHolders DEF Alone, HoldersOK
  <2>4. CASE ~ FreeRows(c)
    <3>1. /\ tx' = tx /\ bookingRow' = bookingRow
          /\ LockEventRow(c, EventOf(c)) /\ pc'[c] = "commit"
      BY <1>1, <1>4, <2>4 DEF RestoreTickets, Abort, RollsBack, TypeOK
    <3>2. Alone(c)
      BY <1>1, <2>2, <3>1 DEF Alone, LockEventRow, TypeOK
    <3> QED
      BY <1>1, <2>1, <3>1, <3>2, AloneHolders DEF HoldersOK, Unended
  <2> QED
    BY <2>3, <2>4
<1>5. CASE CommitCancel(c)
  <2>1. /\ FreeRows(c)
        /\ \A s \in Requests \ {c} : pc'[s] = pc[s] /\ tx'[s] = tx[s]
    BY <1>1, <1>5 DEF CommitCancel, Commits, TypeOK
  <2> QED
    BY <1>1, <2>1, EndedHolds, AloneHolders DEF Alone, HoldersOK
<1> QED
  BY <1>2, <1>3, <1>4, <1>5 DEF CancelStep

(* The steps of either kind of request.                                    *)
LEMMA OtherStepHolders ==
  ASSUME IInv, Holders, NEW r \in Requests, SharedStep(r) \/ ServerStep(r) \/ Fault(r)
  PROVE  Holders'
<1> USE DEF Goto, Answer, Refuse, rowLocks
<1>1. /\ TypeOK /\ HoldersOK(r)
      /\ r \in Bookings => BookControl(r)
      /\ r \in Cancels => CancelControl(r)
      /\ r \in Bookings \/ r \in Cancels
  BY DEF IInv, BookOK, CancelOK, Holders, Requests
<1>2. \A s \in Requests \ {r} : pc'[s] = pc[s] /\ tx'[s] = tx[s]
  BY <1>1 DEF SharedStep, Begin, Rollback, ServerStep, ServerRollsBack, ServerCommits,
     Commits, DeadlockAbort, Abort, RollsBack, Fault, CallFails, ConnectionLost, Crash, TypeOK
<1>3. CASE Rollback(r) \/ ServerStep(r)
  <2>1. FreeRows(r)
    BY <1>3 DEF Rollback, ServerStep, ServerRollsBack, ServerCommits, Commits,
       DeadlockAbort, Abort, RollsBack
  <2> QED
    BY <1>1, <1>2, <2>1, EndedHolds, AloneHolders DEF Alone, HoldersOK
<1>4. CASE Begin(r)
  <2>1. tx[r] = "none" /\ UNCHANGED <<eventRow, bookingRow>>
    BY <1>1, <1>4 DEF Begin, BookControl, CancelControl
  <2> QED
    BY <1>1, <1>2, <2>1, AloneHolders DEF Alone, HoldersOK, Unended
<1>5. CASE Fault(r)
  <2>1. UNCHANGED <<eventRow, bookingRow>>
    BY <1>5 DEF Fault, CallFails, ConnectionLost, Crash
  <2>2. tx'[r] \in {"lost", "inDoubt"} \/ (tx'[r] = tx[r] /\ tx[r] # "open")
    <3>1. CASE CallFails(r)
      BY <1>1, <3>1 DEF CallFails, BookControl, CancelControl, BookSteps
    <3>2. CASE ConnectionLost(r) \/ Crash(r)
      BY <1>1, <3>2 DEF ConnectionLost, Crash, Orphaned, InTx, TypeOK
    <3> QED
      BY <1>5, <3>1, <3>2 DEF Fault
  <2> QED
    BY <1>1, <1>2, <2>1, <2>2, AloneHolders DEF Alone, HoldersOK, Unended
<1> QED
  BY <1>3, <1>4, <1>5 DEF SharedStep

(* In every reachable state row locks are held as described.               *)
LEMMA HoldersInvariant == Spec => [](IInv /\ Holders)
<1>1. Init => IInv /\ Holders
  <2>1. Init => Holders
    BY FlowAssumption DEF Init, Holders, HoldersOK
  <2> QED
    BY <2>1, InitIInv
<1>2. (IInv /\ Holders) /\ [Next]_vars => (IInv /\ Holders)'
  <2> SUFFICES ASSUME IInv, Holders, [Next]_vars PROVE Holders'
    BY NextIInv
  <2>1. CASE (\E e \in Events : LockExpires(e)) \/ Quiescent \/ UNCHANGED vars
    BY <2>1 DEF LockExpires, Quiescent, vars, rowLocks, Holders, HoldersOK, Unended
  <2> QED
    BY <2>1, BookStepHolders, CancelStepHolders, OtherStepHolders DEF Next
<1> QED
  BY <1>1, <1>2, PTL DEF Spec

-----------------------------------------------------------------------------
(* What a request that waits holds: only INSERT waits with the event row   *)
(* locked, only a cancellation's UPDATE of the event waits with anything   *)
(* written or its booking locked.                                          *)
LEMMA Waiters ==
  ASSUME IInv, Holders, NEW r \in Requests, NEW s, WaitsFor(r, s)
  PROVE  /\ pc[r] \in {"select", "insert", "restore", "lockBooking"} /\ tx[r] = "open"
         /\ \A e \in Events : eventRow[e] = r => pc[r] = "insert"
         /\ \A b \in Bookings : bookingRow[b] = r => pc[r] = "restore"
         /\ "row" \in writes[r] => pc[r] = "restore"
         /\ pc[r] \in {"select", "insert"} => r \in Bookings /\ EventOf(r) \in Events
         /\ pc[r] = "restore" => r \in Cancels /\ EventOf(r) \in Events
         /\ pc[r] = "lockBooking" => r \in Cancels /\ BookingOf(r) \in Bookings
<1>1. TypeOK /\ HoldersOK(r) /\ tx[r] = "open" /\ r # s
  BY DEF IInv, Holders, WaitsFor
<1>2. CASE r \in Bookings
  <2>1. BookOK(r) /\ EventOf(r) = want[r].event /\ want[r].event \in Events
    BY <1>2 DEF IInv, TypeOK, EventOf
  <2>2. pc[r] \in {"select", "insert"}
    BY <1>1, <2>1 DEF WaitsFor, BookOK, BookControl, BookHolds, BookSteps
  <2> QED
    BY <1>1, <1>2, <2>1, <2>2 DEF HoldersOK, BookOK, BookWrites
<1>3. CASE r \in Cancels
  <2>1. CancelOK(r) /\ r \notin Bookings /\ target[r].booking \in Bookings
    BY <1>1, <1>3, FlowAssumption DEF IInv, TypeOK
  <2>2. BookingOf(r) = target[r].booking /\ EventOf(r) = booking[target[r].booking].event
    BY <2>1 DEF BookingOf, EventOf
  <2>3. pc[r] \in {"restore", "lockBooking"}
    BY <1>1, <2>1, <2>2 DEF WaitsFor, CancelOK, CancelControl, CancelHolds, CancelSteps
  <2>4. pc[r] = "restore" => EventOf(r) \in Events
    BY <1>1, <2>1, <2>2 DEF CancelOK, CancelHolds, Active, TypeOK, Rows
  <2> QED
    BY <1>1, <1>3, <2>1, <2>2, <2>3, <2>4 DEF HoldersOK, CancelOK, CancelWrites
<1> QED
  BY <1>2, <1>3 DEF Requests

(* Uncommitted writes are of a transaction that the server has not ended.  *)
Written == \A r \in Requests : writes[r] # {} => Unended(r)

LEMMA NextWritten == IInv /\ Written /\ [Next]_vars => Written'
<1> SUFFICES ASSUME IInv, Written, [Next]_vars PROVE Written'
  OBVIOUS
<1> USE DEF Written, Unended
<1>1. /\ TypeOK
      /\ \A b \in Bookings : BookControl(b)
      /\ \A c \in Cancels : CancelControl(c)
  BY DEF IInv, BookOK, CancelOK
<1>2. ASSUME UNCHANGED <<tx, writes>> PROVE Written'
  BY <1>2
<1>3. ASSUME NEW r \in Requests, NEW s, RollsBack(r, s) PROVE Written'
  BY <1>1, <1>3 DEF RollsBack, TypeOK
<1>4. ASSUME NEW r \in Requests, Commits(r) PROVE Written'
  BY <1>1, <1>4 DEF Commits, TypeOK
<1>5. ASSUME NEW r \in Requests, tx[r] = "open", tx' = tx,
             NEW S, writes' = [writes EXCEPT ![r] = S]
      PROVE  Written'
  BY <1>1, <1>5 DEF TypeOK
<1>6. ASSUME NEW b \in Bookings, ArriveBook(b) \/ BookStep(b) PROVE Written'
  <2>1. CASE \/ ArriveBook(b) \/ AcquireLock(b) \/ AcquireLockFails(b)
             \/ SelectForUpdate(b) \/ ReleaseLock(b) \/ ReleaseLockFails(b)
    BY <1>2, <2>1 DEF ArriveBook, AcquireLock, AcquireLockFails, SelectForUpdate,
       ReleaseLock, ReleaseLockFails
  <2>2. CASE CreateInTx(b) \/ UpdateTicketsInTx(b) \/ LogInTx(b)
    <3>1. tx[b] = "open" /\ b \in Requests
      BY <1>1, <2>2 DEF CreateInTx, UpdateTicketsInTx, LogInTx, BookControl, Requests
    <3>2. CASE RollsBack(b, "aborted")
      BY <1>3, <3>1, <3>2
    <3>3. CASE UNCHANGED <<tx, writes>>
      BY <1>2, <3>3
    <3>4. CASE tx' = tx /\ \E S : writes' = [writes EXCEPT ![b] = S]
      BY <1>5, <3>1, <3>4
    <3> QED
      BY <2>2, <3>2, <3>3, <3>4 DEF CreateInTx, UpdateTicketsInTx, LogInTx, Abort
  <2>3. CASE CommitBooking(b)
    BY <1>3, <1>4, <2>3 DEF CommitBooking, Requests
  <2> QED
    BY <1>6, <2>1, <2>2, <2>3 DEF BookStep
<1>7. ASSUME NEW c \in Cancels, ArriveCancel(c) \/ CancelStep(c) PROVE Written'
  <2>1. CASE ArriveCancel(c) \/ Fetch(c) \/ LockBooking(c) \/ AuditLog(c)
    BY <1>2, <2>1 DEF ArriveCancel, Fetch, LockBooking, AuditLog
  <2>2. CASE CancelRow(c) \/ RestoreTickets(c)
    <3>1. tx[c] = "open" /\ c \in Requests
      BY <1>1, <2>2 DEF CancelRow, RestoreTickets, CancelControl, Requests
    <3>2. CASE RollsBack(c, "aborted")
      BY <1>3, <3>1, <3>2
    <3>3. CASE tx' = tx /\ \E S : writes' = [writes EXCEPT ![c] = S]
      BY <1>5, <3>1, <3>3
    <3> QED
      BY <2>2, <3>2, <3>3 DEF CancelRow, RestoreTickets, Abort
  <2>3. CASE CommitCancel(c)
    BY <1>4, <2>3 DEF CommitCancel, Requests
  <2> QED
    BY <1>7, <2>1, <2>2, <2>3 DEF CancelStep
<1>8. ASSUME NEW r \in Requests, SharedStep(r) \/ ServerStep(r) \/ Fault(r) PROVE Written'
  <2>1. CASE Begin(r)
    BY <1>1, <2>1 DEF Begin, TypeOK
  <2>2. CASE Rollback(r) \/ ServerStep(r)
    BY <1>3, <1>4, <2>2 DEF Rollback, ServerStep, ServerRollsBack, ServerCommits,
       DeadlockAbort, Abort
  <2>3. CASE CallFails(r)
    BY <1>2, <2>3 DEF CallFails
  <2>4. CASE ConnectionLost(r) \/ Crash(r)
    BY <1>1, <2>4 DEF ConnectionLost, Crash, Orphaned, InTx, TypeOK
  <2> QED
    BY <1>8, <2>1, <2>2, <2>3, <2>4 DEF SharedStep, Fault
<1>9. CASE (\E e \in Events : LockExpires(e)) \/ Quiescent \/ UNCHANGED vars
  BY <1>2, <1>9 DEF LockExpires, Quiescent, vars
<1> QED
  BY <1>6, <1>7, <1>8, <1>9 DEF Next

LEMMA WrittenInvariant == Spec => [](IInv /\ Holders /\ Written)
<1>1. Init => Written
  BY DEF Init, Written
<1> QED
  BY <1>1, NextWritten, HoldersInvariant, PTL DEF Spec

(* Only transactions that the server has not ended are waited for.         *)
LEMMA WaitedFor ==
  ASSUME IInv, Holders, Written, NEW r \in Requests, NEW s \in Requests, WaitsFor(r, s)
  PROVE  Unended(s)
BY Waiters DEF Holders, HoldersOK, Written, WaitsFor, IndexBlockers

(* Requests that wait for row locks and index entries in a circle.  Only a *)
(* user's INSERT that waits for the same user's cancellation, which waits  *)
(* for the event row of that booking, closes one.                          *)
LEMMA Circles ==
  ASSUME IInv, Holders, NEW S \in (SUBSET Requests) \ {{}},
         \A r \in S : \E s \in S : WaitsFor(r, s)
  PROVE  \E b \in S \cap Bookings, c \in S \cap Cancels :
           WaitsFor(b, c) /\ WaitsFor(c, b) /\ UserOf(b) = UserOf(c)
<1>1. ASSUME NEW b \in S, pc[b] = "insert"
      PROVE  \E c \in S \cap Cancels :
               b \in Bookings /\ WaitsFor(b, c) /\ WaitsFor(c, b) /\ UserOf(b) = UserOf(c)
  <2>1. PICK c \in S : WaitsFor(b, c)
    OBVIOUS
  <2>2. PICK s \in S : WaitsFor(c, s)
    OBVIOUS
  <2>3. c \in IndexBlockers(b) /\ b # c
    BY <1>1, <2>1 DEF WaitsFor
  <2>4. "row" \in writes[c] /\ UserOf(c) = UserOf(b) /\ EventOf(c) = EventOf(b)
    BY <2>3 DEF IndexBlockers, SameKey
  <2>5. b \in Bookings /\ b \in Requests /\ c \in Requests
    BY <1>1, <2>1, Waiters
  <2>6. pc[c] = "restore" /\ c \in Cancels /\ tx[c] = "open"
    BY <2>2, <2>4, <2>5, Waiters
  <2>7. eventRow[EventOf(b)] = b
    BY <1>1, <2>5 DEF IInv, BookOK, BookHolds, EventOf
  <2>8. WaitsFor(c, b)
    BY <2>3, <2>4, <2>6, <2>7 DEF WaitsFor
  <2> QED
    BY <2>1, <2>4, <2>5, <2>6, <2>8
<1>2. ASSUME NEW r \in S, pc[r] \in {"select", "restore"}
      PROVE  \E b \in S : pc[b] = "insert"
  <2>1. PICK h \in S : WaitsFor(r, h)
    OBVIOUS
  <2>2. PICK s \in S : WaitsFor(h, s)
    OBVIOUS
  <2>3. r \in Requests /\ h \in Requests /\ EventOf(r) \in Events
    BY <1>2, <2>1, Waiters
  <2>4. eventRow[EventOf(r)] = h
    BY <1>2, <2>1 DEF WaitsFor
  <2> QED
    BY <2>2, <2>3, <2>4, Waiters
<1>3. ASSUME NEW r \in S, pc[r] = "lockBooking"
      PROVE  \E c \in S : pc[c] = "restore"
  <2>1. PICK h \in S : WaitsFor(r, h)
    OBVIOUS
  <2>2. PICK s \in S : WaitsFor(h, s)
    OBVIOUS
  <2>3. r \in Requests /\ h \in Requests /\ BookingOf(r) \in Bookings
    BY <1>3, <2>1, Waiters
  <2>4. bookingRow[BookingOf(r)] = h
    BY <1>3, <2>1 DEF WaitsFor
  <2> QED
    BY <2>2, <2>3, <2>4, Waiters
<1>4. PICK r \in S : r \in Requests
  OBVIOUS
<1>5. pc[r] \in {"select", "insert", "restore", "lockBooking"}
  BY <1>4, Waiters
<1>6. \E b \in S : pc[b] = "insert"
  BY <1>2, <1>3, <1>5
<1> QED
  BY <1>1, <1>6

(* The pool adds no circle: whoever holds a connection works on a          *)
(* transaction, and so needs no other.                                     *)
LEMMA Busy ==
  ASSUME IInv, NEW r \in Requests, Unended(r) \/ InTx(r)
  PROVE  /\ ~ NeedsConn(r)
         /\ ~ (pc[r] = "done" /\ InTx(r))
<1>1. CASE r \in Bookings
  <2>1. BookControl(r)
    BY <1>1 DEF IInv, BookOK
  <2> QED
    BY <2>1 DEF BookControl, BookSteps, NeedsConn, Unended, InTx
<1>2. CASE r \in Cancels
  <2>1. CancelControl(r)
    BY <1>2 DEF IInv, CancelOK
  <2> QED
    BY <2>1 DEF CancelControl, NeedsConn, Unended, InTx
<1> QED
  BY <1>1, <1>2 DEF Requests

LEMMA SomeoneHoldsOne ==
  ASSUME ~ ConnFree
  PROVE  \E s \in Requests : InTx(s)
<1>1. Cardinality({}) = 0
  BY FS_EmptySet
<1>2. {r \in Requests : tx[r] \in {"open", "aborted"}} # {}
  BY <1>1, FlowAssumption DEF ConnFree
<1> QED
  BY <1>2 DEF InTx

(* Nobody waits in vain, however many requests and connections there are,  *)
(* but a user whose booking and cancellation of one event wait for one     *)
(* another: Postgres's deadlock detector, which knows nothing of the pool, *)
(* is enough, and never has to abort anybody else's request.               *)
THEOREM DeadlocksAreAlwaysSelfInflicted == Spec => []DeadlocksAreSelfInflicted
<1>1. ASSUME IInv, Holders, Written, NEW S \in (SUBSET Requests) \ {{}},
             \A r \in S : Stuck(r, S)
      PROVE  \E b \in S \cap Bookings, c \in S \cap Cancels :
               WaitsFor(b, c) /\ WaitsFor(c, b) /\ UserOf(b) = UserOf(c)
  <2> DEFINE W == {r \in S : \E s \in S : WaitsFor(r, s)}
  <2>1. \A r \in S : Unended(r) \/ InTx(r) => r \in W
    BY <1>1, Busy DEF Stuck
  <2>2. W # {}
    <3>1. PICK r \in S : r \in Requests
      BY <1>1
    <3>2. CASE NeedsConn(r) /\ ~ ConnFree /\ \A s \in Requests : InTx(s) => s \in S
      BY <2>1, <3>2, SomeoneHoldsOne
    <3>3. CASE \E s \in S : WaitsFor(r, s)
      BY <3>1, <3>3
    <3>4. CASE pc[r] = "done" /\ InTx(r)
      BY <1>1, <3>1, <3>4, Busy
    <3> QED
      BY <1>1, <3>1, <3>2, <3>3, <3>4 DEF Stuck
  <2>3. ASSUME NEW r \in W PROVE \E s \in W : WaitsFor(r, s)
    <3>1. PICK s \in S : WaitsFor(r, s)
      BY <2>3
    <3>2. r \in Requests /\ s \in Requests
      BY <1>1, <2>3
    <3>3. Unended(s)
      BY <1>1, <3>1, <3>2, WaitedFor
    <3> QED
      BY <2>1, <3>1, <3>3
  <2>4. W \in (SUBSET Requests) \ {{}}
    BY <1>1, <2>2
  <2> QED
    BY <1>1, <2>3, <2>4, Circles
<1>2. IInv /\ Holders /\ Written => DeadlocksAreSelfInflicted
  BY <1>1 DEF DeadlocksAreSelfInflicted
<1> QED
  BY <1>2, WrittenInvariant, PTL
-----------------------------------------------------------------------------
(* How far a request is: its call, and whether the server still has a      *)
(* transaction of it to end by itself.                                     *)
Rank == [idle |-> 0, acquire |-> 1, fetch |-> 1, begin |-> 2, select |-> 3,
         lockBooking |-> 3, insert |-> 4, cancelRow |-> 4, decrement |-> 5,
         restore |-> 5, log |-> 6, commit |-> 7, rollback |-> 8, audit |-> 8,
         release |-> 9, done |-> 10]

Place(r) == 2 * Rank[pc[r]] + (IF tx[r] \in {"lost", "inDoubt"} THEN 0 ELSE 1)

(* r alone gets on.                                                        *)
GetsOn(r) ==
  /\ Place(r)' > Place(r)
  /\ \A s \in Requests \ {r} : Place(s)' = Place(s)

(* At most one Redis lock is taken or given up.                            *)
OneLock == lock' = lock \/ \E e, h : lock' = [lock EXCEPT ![e] = h]

(* The calls' ranks are small numbers.                                     *)
LEMMA Ranks ==
  \A step \in Steps : Rank[step] \in 0..10
BY DEF Rank, Steps, BookSteps, CancelSteps

(* A call of a higher rank is a place further on, whatever becomes of the  *)
(* transaction.                                                            *)
LEMMA HigherRank ==
  ASSUME TypeOK, NEW r \in Requests, NEW step \in Steps, Rank[pc[r]] < Rank[step],
         pc' = [pc EXCEPT ![r] = step],
         NEW t, tx' = [tx EXCEPT ![r] = t] \/ tx' = tx
  PROVE  GetsOn(r)
<1>1. Rank[pc[r]] \in 0..10 /\ Rank[step] \in 0..10
  BY Ranks DEF TypeOK
<1>2. pc'[r] = step /\ \A s \in Requests \ {r} : pc'[s] = pc[s] /\ tx'[s] = tx[s]
  BY DEF TypeOK
<1>3. Place(r)' > Place(r)
  BY <1>1, <1>2 DEF Place
<1> QED
  BY <1>2, <1>3 DEF GetsOn, Place

LEMMA BookingGetsOn ==
  ASSUME IInv, NEW b \in Bookings, ArriveBook(b) \/ BookStep(b)
  PROVE  GetsOn(b)
<1> USE DEF Goto, Refuse, Abort, RollsBack, Commits
<1>1. TypeOK /\ b \in Requests
  BY DEF IInv, Requests
<1>2. PICK step \in Steps :
        Rank[pc[b]] < Rank[step] /\ pc' = [pc EXCEPT ![b] = step]
  BY DEF BookStep, ArriveBook, AcquireLock, AcquireLockFails, SelectForUpdate, CreateInTx,
     UpdateTicketsInTx, LogInTx, CommitBooking, ReleaseLock, ReleaseLockFails,
     Rank, Steps, BookSteps, CancelSteps
<1>3. \E t : tx' = [tx EXCEPT ![b] = t] \/ tx' = tx
  BY DEF BookStep, ArriveBook, AcquireLock, AcquireLockFails, SelectForUpdate, CreateInTx,
     UpdateTicketsInTx, LogInTx, CommitBooking, ReleaseLock, ReleaseLockFails
<1> QED
  BY <1>1, <1>2, <1>3, HigherRank

LEMMA CancelGetsOn ==
  ASSUME IInv, NEW c \in Cancels, ArriveCancel(c) \/ CancelStep(c)
  PROVE  GetsOn(c)
<1> USE DEF Goto, Refuse, Abort, RollsBack, Commits
<1>1. TypeOK /\ c \in Requests
  BY DEF IInv, Requests
<1>2. PICK step \in Steps :
        Rank[pc[c]] < Rank[step] /\ pc' = [pc EXCEPT ![c] = step]
  BY DEF CancelStep, ArriveCancel, Fetch, LockBooking, CancelRow, RestoreTickets,
     CommitCancel, AuditLog, Rank, Steps, BookSteps, CancelSteps
<1>3. \E t : tx' = [tx EXCEPT ![c] = t] \/ tx' = tx
  BY DEF CancelStep, ArriveCancel, Fetch, LockBooking, CancelRow, RestoreTickets,
     CommitCancel, AuditLog
<1> QED
  BY <1>1, <1>2, <1>3, HigherRank

LEMMA OtherGetsOn ==
  ASSUME IInv, NEW r \in Requests, SharedStep(r) \/ ServerStep(r) \/ Fault(r)
  PROVE  GetsOn(r)
<1> USE DEF Goto, Refuse, Abort, RollsBack, Commits
<1>1. TypeOK
  BY DEF IInv
<1>2. CASE ServerRollsBack(r) \/ ServerCommits(r)
  <2>1. /\ tx[r] \in {"lost", "inDoubt"} /\ tx'[r] = "none" /\ pc' = pc
        /\ \A s \in Requests \ {r} : tx'[s] = tx[s]
    BY <1>1, <1>2 DEF ServerRollsBack, ServerCommits, TypeOK
  <2>2. Rank[pc[r]] \in 0..10
    BY <1>1, Ranks DEF TypeOK
  <2> QED
    BY <2>1, <2>2 DEF GetsOn, Place
<1>3. CASE SharedStep(r) \/ DeadlockAbort(r) \/ Fault(r)
  <2>1. DeadlockAbort(r) => pc[r] \in {"select", "decrement", "restore", "insert",
                                      "lockBooking", "cancelRow"}
    BY DEF DeadlockAbort, Deadlocked, WaitsFor
  <2>2. ConnectionLost(r) => pc[r] \notin {"release", "done"}
    <3>1. CASE r \in Bookings
      BY <3>1 DEF ConnectionLost, InTx, IInv, BookOK, BookControl
    <3>2. CASE r \in Cancels
      BY <3>2 DEF ConnectionLost, InTx, IInv, CancelOK, CancelControl, CancelSteps
    <3> QED
      BY <3>1, <3>2 DEF Requests
  <2>3. pc[r] \in Steps
    BY <1>1 DEF TypeOK
  <2>4. PICK step \in Steps :
          Rank[pc[r]] < Rank[step] /\ pc' = [pc EXCEPT ![r] = step]
    BY <1>3, <2>1, <2>2, <2>3
    DEF SharedStep, Begin, Rollback, DeadlockAbort, Fault, CallFails, ConnectionLost, Crash,
        Unwound, Rank, Steps, BookSteps, CancelSteps
  <2>5. \E t : tx' = [tx EXCEPT ![r] = t] \/ tx' = tx
    BY <1>3 DEF SharedStep, Begin, Rollback, DeadlockAbort, Fault, CallFails,
       ConnectionLost, Crash
  <2> QED
    BY <1>1, <2>4, <2>5, HigherRank
<1> QED
  BY <1>2, <1>3 DEF ServerStep

(* Only acquiring and releasing touch a Redis lock, and each touches one.  *)
LEMMA StepsOneLock ==
  ASSUME NEW r,
         \/ ArriveBook(r) \/ BookStep(r) \/ ArriveCancel(r) \/ CancelStep(r)
         \/ SharedStep(r) \/ ServerStep(r) \/ Fault(r)
  PROVE  OneLock
<1>1. CASE AcquireLock(r) \/ AcquireLockFails(r) \/ ReleaseLock(r)
  BY <1>1 DEF AcquireLock, AcquireLockFails, ReleaseLock, OneLock
<1>2. CASE ~ (AcquireLock(r) \/ AcquireLockFails(r) \/ ReleaseLock(r))
  <2>1. lock' = lock
    BY <1>2
    DEF ArriveBook, BookStep, SelectForUpdate, CreateInTx, UpdateTicketsInTx, LogInTx,
        CommitBooking, ReleaseLockFails, ArriveCancel, CancelStep, Fetch, LockBooking,
        CancelRow, RestoreTickets, CommitCancel, AuditLog, SharedStep, Begin, Rollback,
        ServerStep, ServerRollsBack, ServerCommits, DeadlockAbort, Fault, CallFails,
        ConnectionLost, Crash
  <2> QED
    BY <2>1 DEF OneLock
<1> QED
  BY <1>1, <1>2

(* No request is ever sent back, neither by its own code, which retries    *)
(* nothing, nor by a fault or a deadlock: every step of the system takes   *)
(* one request further, of 21 places at most, or frees a Redis lock, of    *)
(* which such a step takes one at most.  So no run goes on for ever.       *)
THEOREM EveryStepLeadsOn ==
  Spec => [][\/ \E r \in Requests : GetsOn(r) /\ OneLock /\ Place(r)' \in 0..21
             \/ /\ \A r \in Requests : Place(r)' = Place(r)
                /\ \E e \in Events : lock[e] # NoOne /\ lock' = [lock EXCEPT ![e] = NoOne]]_vars
<1>1. ASSUME IInv, IInv', Next, vars' # vars
      PROVE  \/ \E r \in Requests : GetsOn(r) /\ OneLock /\ Place(r)' \in 0..21
             \/ /\ \A r \in Requests : Place(r)' = Place(r)
                /\ \E e \in Events : lock[e] # NoOne /\ lock' = [lock EXCEPT ![e] = NoOne]
  <2>1. ASSUME NEW r \in Requests PROVE Place(r)' \in 0..21
    <3>1. Rank[pc'[r]] \in 0..10
      BY <1>1, Ranks DEF IInv, TypeOK
    <3> QED
      BY <3>1 DEF Place
  <2>2. CASE \E e \in Events : LockExpires(e)
    BY <2>2 DEF LockExpires, Expires, Place
  <2>3. CASE \E b \in Bookings : ArriveBook(b) \/ BookStep(b)
    BY <1>1, <2>1, <2>3, BookingGetsOn, StepsOneLock DEF Requests
  <2>4. CASE \E c \in Cancels : ArriveCancel(c) \/ CancelStep(c)
    BY <1>1, <2>1, <2>4, CancelGetsOn, StepsOneLock DEF Requests
  <2>5. CASE \E r \in Requests : SharedStep(r) \/ ServerStep(r) \/ Fault(r)
    BY <1>1, <2>1, <2>5, OtherGetsOn, StepsOneLock
  <2> QED
    BY <1>1, <2>2, <2>3, <2>4, <2>5 DEF Next, Quiescent
<1>2. IInv /\ IInv' /\ [Next]_vars =>
        [\/ \E r \in Requests : GetsOn(r) /\ OneLock /\ Place(r)' \in 0..21
         \/ /\ \A r \in Requests : Place(r)' = Place(r)
            /\ \E e \in Events : lock[e] # NoOne /\ lock' = [lock EXCEPT ![e] = NoOne]]_vars
  BY <1>1
<1> QED
  BY <1>2, FlowInvariant, PTL DEF Spec
=============================================================================
