------------------------- MODULE BookingFlowProofs -------------------------
(***************************************************************************)
(* TLAPS proofs about BookingFlow for any numbers of users, events,        *)
(* requests, tickets and connections: it implements TicketLedger, and so   *)
(* conserves tickets and keeps one active booking per user and event.      *)
(*                                                                         *)
(* The inductive invariant says, request by request, how its transaction,  *)
(* its uncommitted writes and its row locks belong to the call it makes    *)
(* next, and what the row locks it holds keep true of the tables.          *)
(***************************************************************************)
EXTENDS BookingFlow, TLAPS

(* A COMMIT that will take effect if it arrives.                           *)
Committing(r) == tx[r] = "inDoubt" \/ (pc[r] = "commit" /\ tx[r] = "open")

RowMatches(b) ==
  /\ booking[b].user = want[b].user
  /\ booking[b].event = want[b].event
  /\ booking[b].count = want[b].count

HasActive(u, e) ==
  \E a \in Bookings : Active(a) /\ booking[a].user = u /\ booking[a].event = e

BookControl(b) ==
  /\ pc[b] \in BookSteps \cup {"idle", "done"}
  /\ want[b].count = 0 => pc[b] \in {"idle", "done"} /\ tx[b] = "none"
  /\ pc[b] \in {"idle", "acquire", "begin"} => tx[b] = "none"
  /\ pc[b] \in {"select", "insert", "decrement", "log"} => tx[b] = "open"
  /\ pc[b] \in {"commit", "rollback"} => tx[b] \in {"open", "aborted"}
  /\ pc[b] \in {"release", "done"} => tx[b] \in {"none", "lost", "inDoubt"}
  /\ booking[b] # NoRow =>
       pc[b] \in {"release", "done"} /\ tx[b] = "none" /\ RowMatches(b)

BookWrites(b) ==
  /\ pc[b] \in {"idle", "acquire", "begin", "select", "insert"} => writes[b] = {}
  /\ pc[b] = "decrement" => writes[b] = {"row"}
  /\ pc[b] = "log" => writes[b] = {"row", "tickets"}
  /\ Committing(b) => writes[b] = {"row", "tickets", "log"}

BookHolds(b) ==
  LET e == want[b].event IN
  /\ pc[b] \in {"insert", "decrement", "log"} \/ Committing(b) =>
       /\ eventRow[e] = b
       /\ event[e].status = "published" /\ ~ event[e].deleted
       /\ event[e].remaining >= want[b].count
  /\ InCriticalSection(b) => event[e].version = seen[b]
  /\ pc[b] \in {"decrement", "log"} \/ Committing(b) => ~ HasActive(want[b].user, e)

BookOK(b) == BookControl(b) /\ BookWrites(b) /\ BookHolds(b)

CancelControl(c) ==
  /\ pc[c] \in CancelSteps \cup {"idle", "done"}
  /\ pc[c] \in {"idle", "fetch", "begin", "audit"} => tx[c] = "none"
  /\ pc[c] \in {"lockBooking", "cancelRow", "restore", "commit"} => tx[c] = "open"
  /\ pc[c] = "rollback" => tx[c] \in {"open", "aborted"}
  /\ pc[c] = "done" => tx[c] \in {"none", "lost", "inDoubt"}

CancelWrites(c) ==
  /\ pc[c] \in {"idle", "fetch", "begin", "lockBooking", "cancelRow"} => writes[c] = {}
  /\ pc[c] = "restore" => writes[c] = {"row"}
  /\ Committing(c) => writes[c] = {"row", "tickets"}

CancelHolds(c) ==
  LET b == target[c].booking
      e == booking[b].event
  IN
  /\ pc[c] \in {"cancelRow", "restore"} \/ Committing(c) =>
       bookingRow[b] = c /\ Active(b)
  /\ Committing(c) =>
       /\ eventRow[e] = c
       /\ event[e].remaining + booking[b].count <= event[e].total

CancelOK(c) == CancelControl(c) /\ CancelWrites(c) /\ CancelHolds(c)

(* The inductive invariant.                                                *)
IInv ==
  /\ TypeOK
  /\ \A b \in Bookings : BookOK(b)
  /\ \A c \in Cancels : CancelOK(c)

-----------------------------------------------------------------------------
(* The names of calls, answers, transaction states and writes are of their *)
(* types.                                                                  *)
LEMMA StepNames ==
  /\ {"acquire", "begin", "select", "insert", "decrement", "log", "commit",
      "rollback", "release", "fetch", "lockBooking", "cancelRow", "restore",
      "audit", "idle", "done"} \subseteq Steps
  /\ \A r : Unwound(r) \in {"release", "done"}
BY DEF Steps, BookSteps, CancelSteps, Unwound

(* The rejections, successes and errors are answers.                       *)
LEMMA AnswerNames ==
  {"badCount", "busy", "notFound", "unavailable", "insufficient",
   "alreadyActive", "versionConflict", "notOwner", "cannotCancel",
   "ticketCheck", "none", "error", "created", "cancelled"} \subseteq Answers
BY DEF Answers, Rejections

(* The states of a transaction and its writes are of their types.          *)
LEMMA OtherNames ==
  /\ {"none", "open", "aborted", "lost", "inDoubt"} \subseteq TxStates
  /\ {"row", "tickets", "log"} \subseteq Writes
BY DEF TxStates, Writes

-----------------------------------------------------------------------------
(* A step of r that leaves the tables alone, and the other requests' own   *)
(* state and row locks.                                                    *)
Frame(r) ==
  /\ want' = want /\ target' = target /\ event' = event /\ booking' = booking
  /\ \A s \in Requests \ {r} :
       pc'[s] = pc[s] /\ tx'[s] = tx[s] /\ writes'[s] = writes[s]
  /\ \A b \in Bookings \ {r} : seen'[b] = seen[b]
  /\ \A s \in Requests \ {r} :
       /\ \A e \in Events : eventRow[e] = s => eventRow'[e] = s
       /\ \A b \in Bookings : bookingRow[b] = s => bookingRow'[b] = s

(* Such a step keeps the other requests' part of the invariant.            *)
LEMMA FrameOthers ==
  ASSUME IInv, NEW r, Frame(r)
  PROVE  /\ \A b \in Bookings \ {r} : BookOK(b)'
         /\ \A c \in Cancels \ {r} : CancelOK(c)'
<1>1. ASSUME NEW b \in Bookings \ {r} PROVE BookOK(b)'
  <2>1. BookOK(b)
    BY DEF IInv
  <2>2. /\ pc'[b] = pc[b] /\ tx'[b] = tx[b] /\ writes'[b] = writes[b]
        /\ seen'[b] = seen[b] /\ want' = want /\ event' = event /\ booking' = booking
        /\ \A e \in Events : eventRow[e] = b => eventRow'[e] = b
    BY DEF Frame, Requests
  <2>3. want[b].event \in Events
    BY DEF IInv, TypeOK
  <2>4. BookControl(b)'
    BY <2>1, <2>2 DEF BookOK, BookControl, RowMatches
  <2>5. BookWrites(b)'
    BY <2>1, <2>2 DEF BookOK, BookWrites, Committing
  <2>6. BookHolds(b)'
    BY <2>1, <2>2, <2>3 DEF BookOK, BookHolds, Committing, InCriticalSection, HasActive, Active, EventOf
  <2> QED
    BY <2>4, <2>5, <2>6 DEF BookOK
<1>2. ASSUME NEW c \in Cancels \ {r} PROVE CancelOK(c)'
  <2>1. CancelOK(c)
    BY DEF IInv
  <2>2. /\ pc'[c] = pc[c] /\ tx'[c] = tx[c] /\ writes'[c] = writes[c]
        /\ target' = target /\ event' = event /\ booking' = booking
        /\ \A e \in Events : eventRow[e] = c => eventRow'[e] = c
        /\ \A b \in Bookings : bookingRow[b] = c => bookingRow'[b] = c
    BY DEF Frame, Requests
  <2>3. target[c].booking \in Bookings
    BY DEF IInv, TypeOK
  <2>4. Active(target[c].booking) => booking[target[c].booking].event \in Events
    BY <2>3 DEF IInv, TypeOK, Active, Rows
  <2>5. CancelControl(c)'
    BY <2>1, <2>2 DEF CancelOK, CancelControl
  <2>6. CancelWrites(c)'
    BY <2>1, <2>2 DEF CancelOK, CancelWrites, Committing
  <2>7. CancelHolds(c)'
    BY <2>1, <2>2, <2>3, <2>4 DEF CancelOK, CancelHolds, Committing, Active
  <2> QED
    BY <2>5, <2>6, <2>7 DEF CancelOK
<1> QED
  BY <1>1, <1>2

(* So a step of a booking request needs its own part only.                 *)
LEMMA BookFrameStep ==
  ASSUME IInv, TypeOK', NEW b \in Bookings, Frame(b), BookOK(b)'
  PROVE  IInv'
<1>1. b \in Requests /\ b \notin Cancels
  BY FlowAssumption DEF Requests
<1> QED
  BY <1>1, FrameOthers DEF IInv

(* And so does a step of a cancellation.                                   *)
LEMMA CancelFrameStep ==
  ASSUME IInv, TypeOK', NEW c \in Cancels, Frame(c), CancelOK(c)'
  PROVE  IInv'
<1>1. c \in Requests /\ c \notin Bookings
  BY FlowAssumption DEF Requests
<1> QED
  BY <1>1, FrameOthers DEF IInv

-----------------------------------------------------------------------------
(* The booking request's own steps up to COMMIT.                           *)

(* The handler checks the count before anything else.                      *)
LEMMA ArriveBookInv ==
  ASSUME IInv, NEW b \in Bookings, ArriveBook(b)
  PROVE  IInv'
<1> USE DEF ArriveBook, Goto, Answer, tables, rowLocks
<1>1. b \in Requests /\ TypeOK /\ BookOK(b)
  BY DEF IInv, Requests
<1>2. TypeOK'
  BY <1>1, StepNames, AnswerNames DEF TypeOK
<1>3. Frame(b)
  BY <1>1 DEF Frame, TypeOK
<1>4. pc'[b] \in {"acquire", "done"} /\ (want[b].count = 0 => pc'[b] = "done")
  BY <1>1 DEF TypeOK
<1>5. BookOK(b)'
  BY <1>1, <1>4 DEF BookOK, BookControl, BookWrites, BookHolds, BookSteps,
     Committing, InCriticalSection
<1> QED
  BY <1>2, <1>3, <1>5, BookFrameStep

(* The Redis lock and its failures touch neither table nor transaction.    *)
LEMMA AcquireLockInv ==
  ASSUME IInv, NEW b \in Bookings, AcquireLock(b) \/ AcquireLockFails(b)
  PROVE  IInv'
<1> USE DEF AcquireLock, AcquireLockFails, Goto, Answer, tables, rowLocks
<1>1. b \in Requests /\ b \in Bookings /\ TypeOK /\ BookOK(b) /\ EventOf(b) \in Events
  BY DEF IInv, Requests, TypeOK, EventOf
<1>2. TypeOK'
  <2>1. pc' \in [Requests -> Steps]
    BY <1>1, StepNames DEF TypeOK
  <2>2. resp' \in [Requests -> Answers]
    BY <1>1, AnswerNames DEF TypeOK
  <2>3. lock' \in [Events -> Bookings \cup {NoOne}]
    BY <1>1 DEF TypeOK
  <2> QED
    BY <1>1, <2>1, <2>2, <2>3 DEF TypeOK
<1>3. Frame(b)
  BY <1>1 DEF Frame, TypeOK
<1>4. pc[b] = "acquire" /\ pc'[b] \in {"begin", "done"}
  BY <1>1 DEF TypeOK
<1>5. BookOK(b)'
  BY <1>1, <1>4 DEF BookOK, BookControl, BookWrites, BookHolds, BookSteps,
     Committing, InCriticalSection
<1> QED
  BY <1>2, <1>3, <1>5, BookFrameStep

(* The event row locked and checked, what BookHolds says of it holds.      *)
LEMMA SelectForUpdateInv ==
  ASSUME IInv, NEW b \in Bookings, SelectForUpdate(b)
  PROVE  IInv'
<1> DEFINE e == want[b].event
<1> USE DEF Refuse, Goto, Answer, tables, LockEventRow
<1>1. /\ b \in Requests /\ b \in Bookings /\ TypeOK /\ BookOK(b)
      /\ EventOf(b) = e /\ CountOf(b) = want[b].count /\ e \in Events
  BY DEF IInv, Requests, TypeOK, EventOf, CountOf
<1>2. event[e] \in EventRecs
  BY <1>1 DEF TypeOK
<1>3. TypeOK'
  <2>1. pc' \in [Requests -> Steps]
    BY <1>1, StepNames DEF SelectForUpdate, TypeOK
  <2>2. resp' \in [Requests -> Answers]
    BY <1>1, AnswerNames DEF SelectForUpdate, TypeOK
  <2>3. eventRow' \in [Events -> Requests \cup {NoOne}]
    BY <1>1 DEF SelectForUpdate, TypeOK
  <2>4. seen' \in [Bookings -> Nat]
    BY <1>1, <1>2, ZenonT(40) DEF SelectForUpdate, TypeOK, EventRecs
  <2> QED
    BY <1>1, <2>1, <2>2, <2>3, <2>4 DEF SelectForUpdate, TypeOK
<1>4. Frame(b)
  BY <1>1, FlowAssumption DEF SelectForUpdate, Frame, TypeOK, EventRowFree, Requests
<1>5. /\ pc[b] = "select" /\ UNCHANGED <<want, event, booking, writes, tx>>
      /\ \/ pc'[b] = "rollback"
         \/ /\ pc'[b] = "insert" /\ eventRow'[e] = b /\ seen'[b] = event[e].version
            /\ event[e].status = "published" /\ ~ event[e].deleted
            /\ event[e].remaining >= want[b].count
  BY <1>1 DEF SelectForUpdate, TypeOK, OnSale, Covers
<1>6. BookControl(b)'
  BY <1>1, <1>5 DEF BookOK, BookControl, BookSteps
<1>7. BookWrites(b)'
  BY <1>1, <1>5 DEF BookOK, BookControl, BookWrites, Committing
<1>8. BookHolds(b)'
  BY <1>1, <1>5 DEF BookOK, BookControl, BookHolds, Committing, InCriticalSection
<1> QED
  BY <1>3, <1>4, <1>6, <1>7, <1>8, BookFrameStep DEF BookOK

(* The INSERT that finds no duplicate establishes that there is none.      *)
LEMMA CreateInTxInv ==
  ASSUME IInv, NEW b \in Bookings, CreateInTx(b)
  PROVE  IInv'
<1> USE DEF Abort, RollsBack, FreeRows, Refuse, Goto, Answer, tables, rowLocks
<1>1. /\ b \in Requests /\ b \in Bookings /\ TypeOK /\ BookOK(b)
      /\ EventOf(b) = want[b].event /\ UserOf(b) = want[b].user
  BY DEF IInv, Requests, TypeOK, EventOf, UserOf
<1>2. TypeOK'
  <2>1. pc' \in [Requests -> Steps]
    BY <1>1, StepNames DEF CreateInTx, TypeOK
  <2>2. resp' \in [Requests -> Answers]
    BY <1>1, AnswerNames DEF CreateInTx, TypeOK
  <2>3. tx' \in [Requests -> TxStates]
    BY <1>1, OtherNames DEF CreateInTx, TypeOK
  <2>4. writes' \in [Requests -> SUBSET Writes]
    BY <1>1, OtherNames, ZenonT(60) DEF CreateInTx, TypeOK
  <2>5. /\ eventRow' \in [Events -> Requests \cup {NoOne}]
        /\ bookingRow' \in [Bookings -> Requests \cup {NoOne}]
    BY <1>1 DEF CreateInTx, TypeOK
  <2> QED
    BY <1>1, <2>1, <2>2, <2>3, <2>4, <2>5 DEF CreateInTx, TypeOK
<1>3. Frame(b)
  BY <1>1 DEF CreateInTx, Frame, TypeOK, Requests
<1>4. /\ pc[b] = "insert" /\ UNCHANGED <<want, event, booking, seen>>
      /\ \/ pc'[b] = "rollback" /\ tx'[b] = "aborted"
         \/ /\ pc'[b] = "decrement" /\ tx'[b] = tx[b] /\ eventRow' = eventRow
            /\ writes'[b] = writes[b] \cup {"row"} /\ ~ Duplicate(b)
  BY <1>1 DEF CreateInTx, TypeOK
<1>5. BookControl(b)'
  BY <1>1, <1>4 DEF BookOK, BookControl, BookSteps
<1>6. BookWrites(b)'
  BY <1>1, <1>4 DEF BookOK, BookControl, BookWrites, Committing
<1>7. BookHolds(b)'
  BY <1>1, <1>4 DEF BookOK, BookControl, BookHolds, Committing, InCriticalSection,
     Duplicate, HasActive, Active, EventOf
<1> QED
  BY <1>2, <1>3, <1>5, <1>6, <1>7, BookFrameStep DEF BookOK

(* The UPDATE keeps the event row locked, or ends with nothing written.    *)
LEMMA UpdateTicketsInv ==
  ASSUME IInv, NEW b \in Bookings, UpdateTicketsInTx(b)
  PROVE  IInv'
<1> DEFINE e == want[b].event
<1> USE DEF Abort, RollsBack, FreeRows, Refuse, Goto, Answer, tables, rowLocks, LockEventRow
<1>1. /\ b \in Requests /\ b \in Bookings /\ TypeOK /\ BookOK(b)
      /\ EventOf(b) = e /\ CountOf(b) = want[b].count /\ e \in Events
  BY DEF IInv, Requests, TypeOK, EventOf, CountOf
<1>2. TypeOK'
  <2>1. pc' \in [Requests -> Steps]
    BY <1>1, StepNames DEF UpdateTicketsInTx, TypeOK
  <2>2. resp' \in [Requests -> Answers]
    BY <1>1, AnswerNames DEF UpdateTicketsInTx, TypeOK
  <2>3. tx' \in [Requests -> TxStates]
    BY <1>1, OtherNames DEF UpdateTicketsInTx, TypeOK
  <2>4. writes' \in [Requests -> SUBSET Writes]
    BY <1>1, OtherNames DEF UpdateTicketsInTx, TypeOK
  <2>5. /\ eventRow' \in [Events -> Requests \cup {NoOne}]
        /\ bookingRow' \in [Bookings -> Requests \cup {NoOne}]
    BY <1>1 DEF UpdateTicketsInTx, TypeOK
  <2> QED
    BY <1>1, <2>1, <2>2, <2>3, <2>4, <2>5 DEF UpdateTicketsInTx, TypeOK
<1>3. Frame(b)
  BY <1>1, FlowAssumption DEF UpdateTicketsInTx, Frame, TypeOK, EventRowFree, Requests
<1>4. /\ pc[b] = "decrement" /\ UNCHANGED <<want, event, booking, seen>>
      /\ \/ pc'[b] = "rollback" /\ tx'[b] \in {tx[b], "aborted"}
         \/ /\ pc'[b] = "log" /\ tx'[b] = tx[b] /\ eventRow'[e] = b
            /\ writes'[b] = writes[b] \cup {"tickets"}
  BY <1>1 DEF UpdateTicketsInTx, TypeOK
<1>5. BookControl(b)'
  BY <1>1, <1>4 DEF BookOK, BookControl, BookSteps
<1>6. BookWrites(b)'
  BY <1>1, <1>4 DEF BookOK, BookControl, BookWrites, Committing
<1>7. BookHolds(b)'
  BY <1>1, <1>4 DEF BookOK, BookControl, BookHolds, Committing, InCriticalSection,
     HasActive, Active
<1> QED
  BY <1>2, <1>3, <1>5, <1>6, <1>7, BookFrameStep DEF BookOK

(* The ignored error of the audit INSERT leaves an aborted transaction.    *)
LEMMA LogInTxInv ==
  ASSUME IInv, NEW b \in Bookings, LogInTx(b)
  PROVE  IInv'
<1> USE DEF RollsBack, FreeRows, Goto, Answer, tables, rowLocks
<1>1. b \in Requests /\ b \in Bookings /\ TypeOK /\ BookOK(b) /\ want[b].event \in Events
  BY DEF IInv, Requests, TypeOK
<1>2. TypeOK'
  <2>1. pc' \in [Requests -> Steps]
    BY <1>1, StepNames DEF LogInTx, TypeOK
  <2>2. tx' \in [Requests -> TxStates]
    BY <1>1, OtherNames DEF LogInTx, TypeOK
  <2>3. writes' \in [Requests -> SUBSET Writes]
    BY <1>1, OtherNames DEF LogInTx, TypeOK
  <2>4. /\ eventRow' \in [Events -> Requests \cup {NoOne}]
        /\ bookingRow' \in [Bookings -> Requests \cup {NoOne}]
    BY <1>1 DEF LogInTx, TypeOK
  <2> QED
    BY <1>1, <2>1, <2>2, <2>3, <2>4 DEF LogInTx, TypeOK
<1>3. Frame(b)
  BY <1>1 DEF LogInTx, Frame, TypeOK, Requests
<1>4. /\ pc[b] = "log" /\ pc'[b] = "commit" /\ UNCHANGED <<want, event, booking, seen>>
      /\ \/ tx'[b] = "aborted"
         \/ /\ tx'[b] = tx[b] /\ eventRow' = eventRow
            /\ writes'[b] = writes[b] \cup {"log"}
  BY <1>1 DEF LogInTx, TypeOK
<1>5. BookControl(b)'
  BY <1>1, <1>4 DEF BookOK, BookControl, BookSteps
<1>6. BookWrites(b)'
  BY <1>1, <1>4 DEF BookOK, BookControl, BookWrites, Committing
<1>7. BookHolds(b)'
  BY <1>1, <1>4 DEF BookOK, BookControl, BookHolds, Committing, InCriticalSection,
     HasActive, Active
<1> QED
  BY <1>2, <1>3, <1>5, <1>6, <1>7, BookFrameStep DEF BookOK

(* The deferred release comes when the transaction is over.                *)
LEMMA ReleaseLockInv ==
  ASSUME IInv, NEW b \in Bookings, ReleaseLock(b) \/ ReleaseLockFails(b)
  PROVE  IInv'
<1> USE DEF Goto, tables, rowLocks
<1>1. b \in Requests /\ b \in Bookings /\ TypeOK /\ BookOK(b) /\ EventOf(b) \in Events
  BY DEF IInv, Requests, TypeOK, EventOf
<1>2. TypeOK'
  <2>1. pc' \in [Requests -> Steps]
    BY <1>1, StepNames DEF ReleaseLock, ReleaseLockFails, TypeOK
  <2>2. lock' \in [Events -> Bookings \cup {NoOne}]
    BY <1>1 DEF ReleaseLock, ReleaseLockFails, TypeOK
  <2> QED
    BY <1>1, <2>1, <2>2 DEF ReleaseLock, ReleaseLockFails, TypeOK
<1>3. Frame(b)
  BY <1>1 DEF ReleaseLock, ReleaseLockFails, Frame, TypeOK, Requests
<1>4. /\ pc[b] = "release" /\ pc'[b] = "done"
      /\ UNCHANGED <<want, event, booking, seen, tx, writes, eventRow>>
  BY <1>1 DEF ReleaseLock, ReleaseLockFails, TypeOK
<1>5. BookOK(b)'
  BY <1>1, <1>4 DEF BookOK, BookControl, BookWrites, BookHolds, Committing, BookSteps,
     RowMatches, InCriticalSection, HasActive, Active
<1> QED
  BY <1>2, <1>3, <1>5, BookFrameStep

-----------------------------------------------------------------------------
(* The cancellation's own steps up to COMMIT.                              *)

(* The ownership check runs before the transaction begins.                 *)
LEMMA ArriveCancelInv ==
  ASSUME IInv, NEW c \in Cancels, ArriveCancel(c) \/ Fetch(c)
  PROVE  IInv'
<1> USE DEF Goto, Answer, tables, rowLocks
<1>1. c \in Requests /\ TypeOK /\ CancelOK(c)
  BY DEF IInv, Requests
<1>2. TypeOK'
  <2>1. pc' \in [Requests -> Steps]
    BY <1>1, StepNames DEF ArriveCancel, Fetch, TypeOK
  <2>2. resp' \in [Requests -> Answers]
    BY <1>1, AnswerNames DEF ArriveCancel, Fetch, TypeOK
  <2> QED
    BY <1>1, <2>1, <2>2 DEF ArriveCancel, Fetch, TypeOK
<1>3. Frame(c)
  BY <1>1 DEF ArriveCancel, Fetch, Frame, TypeOK, Requests
<1>4. /\ pc[c] \in {"idle", "fetch"} /\ pc'[c] \in {"fetch", "begin", "done"}
      /\ UNCHANGED <<tx, writes>>
  BY <1>1 DEF ArriveCancel, Fetch, TypeOK
<1>5. CancelOK(c)'
  BY <1>1, <1>4 DEF CancelOK, CancelControl, CancelWrites, CancelHolds, Committing, CancelSteps
<1> QED
  BY <1>2, <1>3, <1>5, CancelFrameStep

(* The booking row locked and its status checked, it is active.            *)
LEMMA LockBookingInv ==
  ASSUME IInv, NEW c \in Cancels, LockBooking(c)
  PROVE  IInv'
<1> DEFINE b == target[c].booking
<1> USE DEF Refuse, Goto, Answer, tables
<1>1. c \in Requests /\ TypeOK /\ CancelOK(c) /\ b \in Bookings
  BY DEF IInv, Requests, TypeOK
<1>2. TypeOK'
  <2>1. pc' \in [Requests -> Steps]
    BY <1>1, StepNames DEF LockBooking, TypeOK
  <2>2. resp' \in [Requests -> Answers]
    BY <1>1, AnswerNames DEF LockBooking, TypeOK
  <2>3. bookingRow' \in [Bookings -> Requests \cup {NoOne}]
    BY <1>1 DEF LockBooking, TypeOK
  <2> QED
    BY <1>1, <2>1, <2>2, <2>3 DEF LockBooking, TypeOK
<1>3. Frame(c)
  BY <1>1, FlowAssumption DEF LockBooking, Frame, TypeOK, BookingRowFree, Requests
<1>4. /\ pc[c] = "lockBooking" /\ UNCHANGED <<target, event, booking, tx, writes>>
      /\ \/ pc'[c] = "rollback"
         \/ pc'[c] = "cancelRow" /\ bookingRow'[b] = c /\ Active(b)
  BY <1>1 DEF LockBooking, TypeOK
<1>5. CancelControl(c)'
  BY <1>1, <1>4 DEF CancelOK, CancelControl, CancelSteps
<1>6. CancelWrites(c)'
  BY <1>1, <1>4 DEF CancelOK, CancelControl, CancelWrites, Committing
<1>7. CancelHolds(c)'
  BY <1>1, <1>4 DEF CancelOK, CancelControl, CancelHolds, Committing, Active
<1> QED
  BY <1>2, <1>3, <1>5, <1>6, <1>7, CancelFrameStep DEF CancelOK

(* The UPDATE of the booking finds its row still locked and active.        *)
LEMMA CancelRowInv ==
  ASSUME IInv, NEW c \in Cancels, CancelRow(c)
  PROVE  IInv'
<1> DEFINE b == target[c].booking
<1> USE DEF Goto, tables
<1>1. c \in Requests /\ TypeOK /\ CancelOK(c) /\ b \in Bookings
  BY DEF IInv, Requests, TypeOK
<1>2. TypeOK'
  <2>1. pc' \in [Requests -> Steps]
    BY <1>1, StepNames DEF CancelRow, TypeOK
  <2>2. writes' \in [Requests -> SUBSET Writes]
    BY <1>1, OtherNames DEF CancelRow, TypeOK
  <2>3. bookingRow' \in [Bookings -> Requests \cup {NoOne}]
    BY <1>1 DEF CancelRow, TypeOK
  <2> QED
    BY <1>1, <2>1, <2>2, <2>3 DEF CancelRow, TypeOK
<1>3. Frame(c)
  BY <1>1, FlowAssumption DEF CancelRow, Frame, TypeOK, BookingRowFree, Requests
<1>4. /\ pc[c] = "cancelRow" /\ pc'[c] = "restore" /\ UNCHANGED <<target, event, booking, tx>>
      /\ writes'[c] = writes[c] \cup {"row"} /\ bookingRow'[b] = c
  BY <1>1 DEF CancelRow, TypeOK
<1>5. CancelControl(c)'
  BY <1>1, <1>4 DEF CancelOK, CancelControl, CancelSteps
<1>6. CancelWrites(c)'
  BY <1>1, <1>4 DEF CancelOK, CancelControl, CancelWrites, Committing
<1>7. CancelHolds(c)'
  BY <1>1, <1>4 DEF CancelOK, CancelControl, CancelHolds, Committing, Active
<1> QED
  BY <1>2, <1>3, <1>5, <1>6, <1>7, CancelFrameStep DEF CancelOK

(* The UPDATE of the event locks its row and passes the CHECK.             *)
LEMMA RestoreTicketsInv ==
  ASSUME IInv, NEW c \in Cancels, RestoreTickets(c)
  PROVE  IInv'
<1> DEFINE b == target[c].booking
           e == booking[b].event
<1> USE DEF Abort, RollsBack, FreeRows, Refuse, Goto, Answer, tables, rowLocks, LockEventRow
<1>1. /\ c \in Requests /\ c \notin Bookings /\ TypeOK /\ CancelOK(c) /\ b \in Bookings
      /\ EventOf(c) = e /\ CountOf(c) = booking[b].count
  BY FlowAssumption DEF IInv, Requests, TypeOK, EventOf, CountOf
<1>2. pc[c] = "restore" /\ bookingRow[b] = c /\ Active(b)
  BY <1>1 DEF RestoreTickets, CancelOK, CancelHolds
<1>3. e \in Events
  BY <1>1, <1>2 DEF TypeOK, Active, Rows
<1>4. TypeOK'
  <2>1. pc' \in [Requests -> Steps]
    BY <1>1, StepNames DEF RestoreTickets, TypeOK
  <2>2. resp' \in [Requests -> Answers]
    BY <1>1, AnswerNames DEF RestoreTickets, TypeOK
  <2>3. tx' \in [Requests -> TxStates]
    BY <1>1, OtherNames DEF RestoreTickets, TypeOK
  <2>4. writes' \in [Requests -> SUBSET Writes]
    BY <1>1, OtherNames DEF RestoreTickets, TypeOK
  <2>5. /\ eventRow' \in [Events -> Requests \cup {NoOne}]
        /\ bookingRow' \in [Bookings -> Requests \cup {NoOne}]
    BY <1>1, <1>3 DEF RestoreTickets, TypeOK
  <2> QED
    BY <1>1, <2>1, <2>2, <2>3, <2>4, <2>5 DEF RestoreTickets, TypeOK
<1>5. Frame(c)
  BY <1>1, FlowAssumption DEF RestoreTickets, Frame, TypeOK, EventRowFree, Requests
<1>6. /\ UNCHANGED <<target, event, booking>>
      /\ \/ pc'[c] = "rollback" /\ tx'[c] = "aborted"
         \/ /\ pc'[c] = "commit" /\ tx'[c] = tx[c] /\ bookingRow' = bookingRow
            /\ eventRow'[e] = c /\ writes'[c] = writes[c] \cup {"tickets"}
            /\ event[e].remaining + booking[b].count <= event[e].total
  BY <1>1, <1>3 DEF RestoreTickets, TypeOK
<1>7. CancelControl(c)'
  BY <1>1, <1>2, <1>6 DEF CancelOK, CancelControl, CancelSteps
<1>8. CancelWrites(c)'
  BY <1>1, <1>2, <1>6 DEF CancelOK, CancelControl, CancelWrites, Committing
<1>9. CancelHolds(c)'
  BY <1>1, <1>2, <1>6 DEF CancelOK, CancelControl, CancelHolds, Committing, Active
<1> QED
  BY <1>4, <1>5, <1>7, <1>8, <1>9, CancelFrameStep DEF CancelOK

(* The audit entry of a cancellation follows its transaction.              *)
LEMMA AuditLogInv ==
  ASSUME IInv, NEW c \in Cancels, AuditLog(c)
  PROVE  IInv'
<1> USE DEF Goto, rowLocks
<1>1. c \in Requests /\ TypeOK /\ CancelOK(c)
  BY DEF IInv, Requests
<1>2. TypeOK'
  <2>1. pc' \in [Requests -> Steps]
    BY <1>1, StepNames DEF AuditLog, TypeOK
  <2>2. audit' \in SUBSET Requests
    BY <1>1 DEF AuditLog, TypeOK
  <2> QED
    BY <1>1, <2>1, <2>2 DEF AuditLog, TypeOK
<1>3. Frame(c)
  BY <1>1 DEF AuditLog, Frame, TypeOK, Requests
<1>4. pc[c] = "audit" /\ pc'[c] = "done" /\ UNCHANGED <<tx, writes>>
  BY <1>1 DEF AuditLog, TypeOK
<1>5. CancelOK(c)'
  BY <1>1, <1>4 DEF CancelOK, CancelControl, CancelWrites, CancelHolds, Committing, CancelSteps
<1> QED
  BY <1>2, <1>3, <1>5, CancelFrameStep

-----------------------------------------------------------------------------
(* Steps that both kinds of request share, and what goes wrong.            *)

(* BEGIN finds no transaction of the request, of either kind.              *)
LEMMA BeginInv ==
  ASSUME IInv, NEW r \in Requests, Begin(r)
  PROVE  IInv'
<1> USE DEF Begin, Goto, tables, rowLocks
<1>1. TypeOK /\ (r \in Bookings => BookOK(r)) /\ (r \in Cancels => CancelOK(r))
  BY DEF IInv
<1>2. TypeOK'
  <2>1. pc' \in [Requests -> Steps]
    BY <1>1, StepNames DEF TypeOK
  <2>2. tx' \in [Requests -> TxStates]
    BY <1>1, OtherNames DEF TypeOK
  <2> QED
    BY <1>1, <2>1, <2>2 DEF TypeOK
<1>3. Frame(r)
  BY <1>1 DEF Frame, TypeOK, Requests
<1>4. /\ pc[r] = "begin" /\ tx'[r] = "open"
      /\ pc'[r] = IF r \in Bookings THEN "select" ELSE "lockBooking"
  BY <1>1 DEF TypeOK
<1>5. CASE r \in Bookings
  <2>1. BookOK(r)'
    BY <1>1, <1>4, <1>5 DEF BookOK, BookControl, BookWrites, BookHolds, Committing,
       BookSteps, InCriticalSection, RowMatches
  <2> QED
    BY <1>2, <1>3, <1>5, <2>1, BookFrameStep
<1>6. CASE r \in Cancels
  <2>1. r \notin Bookings
    BY <1>6, FlowAssumption
  <2>2. CancelOK(r)'
    BY <1>1, <1>4, <1>6, <2>1 DEF CancelOK, CancelControl, CancelWrites, CancelHolds,
       Committing, CancelSteps
  <2> QED
    BY <1>2, <1>3, <1>6, <2>2, CancelFrameStep
<1> QED
  BY <1>5, <1>6 DEF Requests

(* A request whose transaction is over, whether the server knows it or     *)
(* not, or is left in doubt, satisfies its part of the invariant.          *)
LEMMA EndsInv ==
  ASSUME IInv, TypeOK', NEW r \in Requests, Frame(r),
         pc[r] \notin {"idle", "done"} \/ tx[r] # "none",
         \/ tx[r] = "open" /\ tx'[r] = "aborted" /\ pc'[r] = "rollback"
         \/ /\ tx'[r] = "none" \/ (tx'[r] = "lost" /\ tx[r] # "none")
            /\ pc'[r] \in {Unwound(r), "done"}
         \/ /\ tx'[r] = "inDoubt" /\ Committing(r)
            /\ pc'[r] \in {Unwound(r), "done"}
            /\ UNCHANGED <<writes, eventRow, bookingRow>>
  PROVE  IInv'
<1>1. Unwound(r) = IF r \in Bookings THEN "release" ELSE "done"
  BY DEF Unwound
<1>2. UNCHANGED <<want, target, event, booking>>
  BY DEF Frame
<1>3. CASE r \in Bookings
  <2>1. BookOK(r) /\ want[r].event \in Events
    BY <1>3 DEF IInv, TypeOK
  <2>2. BookControl(r)'
    BY <1>1, <1>2, <1>3, <2>1 DEF BookOK, BookControl, BookSteps, Committing, RowMatches
  <2>3. BookWrites(r)'
    BY <1>1, <1>2, <1>3, <2>1 DEF BookOK, BookControl, BookWrites, Committing
  <2>4. BookHolds(r)'
    BY <1>1, <1>2, <1>3, <2>1 DEF BookOK, BookControl, BookHolds, Committing,
       InCriticalSection, HasActive, Active
  <2> QED
    BY <1>3, <2>2, <2>3, <2>4, BookFrameStep DEF BookOK
<1>4. CASE r \in Cancels
  <2>1. CancelOK(r) /\ r \notin Bookings
    BY <1>4, FlowAssumption DEF IInv
  <2>2. CancelControl(r)'
    BY <1>1, <1>2, <2>1 DEF CancelOK, CancelControl, CancelSteps, Committing
  <2>3. CancelWrites(r)'
    BY <1>1, <1>2, <2>1 DEF CancelOK, CancelControl, CancelWrites, Committing
  <2>4. CancelHolds(r)'
    BY <1>1, <1>2, <2>1 DEF CancelOK, CancelControl, CancelHolds, Committing, Active
  <2> QED
    BY <1>4, <2>2, <2>3, <2>4, CancelFrameStep DEF CancelOK
<1> QED
  BY <1>3, <1>4 DEF Requests

(* Ending a transaction without its writes keeps the types.                *)
LEMMA RollsBackTypeOK ==
  ASSUME TypeOK, NEW r \in Requests, NEW state \in TxStates, RollsBack(r, state)
  PROVE  /\ tx' \in [Requests -> TxStates]
         /\ writes' \in [Requests -> SUBSET Writes]
         /\ eventRow' \in [Events -> Requests \cup {NoOne}]
         /\ bookingRow' \in [Bookings -> Requests \cup {NoOne}]
         /\ tx'[r] = state
BY DEF TypeOK, RollsBack, FreeRows

(* The ways in which a transaction ends without its writes.                *)
LEMMA RollbackInv ==
  ASSUME IInv, NEW r \in Requests,
         Rollback(r) \/ ServerRollsBack(r) \/ DeadlockAbort(r)
  PROVE  IInv'
<1> USE DEF Abort, Refuse, Goto, Answer, tables, rowLocks
<1>1. /\ TypeOK /\ (r \in Bookings => BookOK(r)) /\ (r \in Cancels => CancelOK(r))
      /\ r \in Bookings \/ r \in Cancels
      /\ {"none", "aborted"} \subseteq TxStates
  BY OtherNames DEF IInv, Requests
<1>2. RollsBack(r, "none") \/ RollsBack(r, "aborted")
  BY DEF Rollback, ServerRollsBack, DeadlockAbort
<1>3. TypeOK'
  <2>1. pc' \in [Requests -> Steps]
    BY <1>1, StepNames DEF Rollback, ServerRollsBack, DeadlockAbort, TypeOK
  <2>2. resp' \in [Requests -> Answers]
    BY <1>1, AnswerNames DEF Rollback, ServerRollsBack, DeadlockAbort, TypeOK
  <2> QED
    BY <1>1, <1>2, <2>1, <2>2, RollsBackTypeOK
    DEF Rollback, ServerRollsBack, DeadlockAbort, TypeOK
<1>4. Frame(r)
  BY <1>1 DEF Rollback, ServerRollsBack, DeadlockAbort, RollsBack, FreeRows, Frame,
     TypeOK, Requests
<1>5. CASE Rollback(r)
  <2>1. pc[r] = "rollback" /\ tx'[r] = "none" /\ pc'[r] = Unwound(r)
    BY <1>1, <1>5 DEF Rollback, RollsBack, TypeOK
  <2> QED
    BY <1>3, <1>4, <2>1, EndsInv
<1>6. CASE ServerRollsBack(r)
  <2>1. tx[r] \in {"lost", "inDoubt"} /\ tx'[r] = "none" /\ pc'[r] = pc[r]
    BY <1>1, <1>6 DEF ServerRollsBack, RollsBack, TypeOK
  <2>2. pc[r] \in {Unwound(r), "done"}
    BY <1>1, <2>1, FlowAssumption
    DEF BookOK, BookControl, CancelOK, CancelControl, BookSteps, CancelSteps, Unwound
  <2> QED
    BY <1>3, <1>4, <2>1, <2>2, EndsInv
<1>7. CASE DeadlockAbort(r)
  <2>1. tx[r] = "open" /\ tx'[r] = "aborted" /\ pc'[r] = "rollback"
    BY <1>1, <1>7 DEF DeadlockAbort, Deadlocked, WaitsFor, RollsBack, TypeOK
  <2>2. tx[r] # "none"
    BY <2>1
  <2> QED
    BY <1>3, <1>4, <2>1, <2>2, EndsInv
<1> QED
  BY <1>5, <1>6, <1>7

(* Failed calls, lost connections and crashes.                             *)
LEMMA FaultInv ==
  ASSUME IInv, NEW r \in Requests, Fault(r)
  PROVE  IInv'
<1> USE DEF Goto, Answer, tables, rowLocks
<1>1. /\ TypeOK /\ (r \in Bookings => BookOK(r)) /\ (r \in Cancels => CancelOK(r))
      /\ r \in Bookings \/ r \in Cancels
  BY DEF IInv, Requests
<1>2. Orphaned(r) \in {"lost", "inDoubt"} /\ (Orphaned(r) = "inDoubt" => Committing(r))
  BY DEF Orphaned, Committing
<1>3. TypeOK'
  <2>1. pc' \in [Requests -> Steps]
    <3>1. PICK step : step \in {Unwound(r), "done"} /\ pc' = [pc EXCEPT ![r] = step]
      BY DEF Fault, CallFails, ConnectionLost, Crash
    <3>2. step \in Steps
      BY <3>1, StepNames
    <3> QED
      BY <1>1, <3>1, <3>2 DEF TypeOK
  <2>2. resp' \in [Requests -> Answers]
    BY <1>1, AnswerNames DEF Fault, CallFails, ConnectionLost, Crash, TypeOK
  <2>3. tx' \in [Requests -> TxStates]
    BY <1>1, <1>2, OtherNames DEF Fault, CallFails, ConnectionLost, Crash, TypeOK
  <2> QED
    BY <1>1, <2>1, <2>2, <2>3 DEF Fault, CallFails, ConnectionLost, Crash, TypeOK
<1>4. Frame(r)
  BY <1>1 DEF Fault, CallFails, ConnectionLost, Crash, Frame, TypeOK, Requests
<1>5. pc[r] \notin {"idle", "done"} /\ UNCHANGED <<writes, eventRow, bookingRow>>
  <2>1. CASE InTx(r)
    BY <1>1, <2>1 DEF InTx, BookOK, BookControl, CancelOK, CancelControl, Fault,
       CallFails, ConnectionLost, Crash
  <2>2. CASE ~ InTx(r)
    BY <2>2 DEF Fault, CallFails, ConnectionLost, Crash
  <2> QED
    BY <2>1, <2>2
<1>6. pc'[r] \in {Unwound(r), "done"}
  BY <1>1 DEF Fault, CallFails, ConnectionLost, Crash, TypeOK
<1>7. \/ InTx(r) /\ tx'[r] = Orphaned(r)
      \/ ~ InTx(r) /\ tx'[r] = tx[r]
  <2>1. CASE CallFails(r)
    <3>1. tx[r] = "none"
      BY <1>1, <2>1 DEF CallFails, BookOK, BookControl, CancelOK, CancelControl, BookSteps
    <3> QED
      BY <2>1, <3>1 DEF CallFails, InTx
  <2>2. CASE ConnectionLost(r) \/ Crash(r)
    BY <1>1, <2>2 DEF ConnectionLost, Crash, TypeOK
  <2> QED
    BY <2>1, <2>2 DEF Fault
<1>8. tx[r] \in {"none", "lost", "inDoubt"} \/ InTx(r)
  BY <1>1 DEF TypeOK, TxStates, InTx
<1> QED
  BY <1>2, <1>3, <1>4, <1>5, <1>6, <1>7, <1>8, EndsInv DEF InTx, Committing

-----------------------------------------------------------------------------
(* COMMIT.  The row locks it holds keep the committing request alone on    *)
(* its event and its booking, which is why the other requests still find   *)
(* what they have checked.                                                 *)

(* A step of r that changes only event e and booking b, whose rows only r  *)
(* may touch.                                                              *)
CommitFrame(r, b, e) ==
  /\ want' = want /\ target' = target
  /\ \A f \in Events \ {e} : event'[f] = event[f]
  /\ \A a \in Bookings \ {b} : booking'[a] = booking[a]
  /\ booking'[b].event = e
  /\ \A s \in Requests \ {r} :
       pc'[s] = pc[s] /\ tx'[s] = tx[s] /\ writes'[s] = writes[s]
  /\ \A a \in Bookings \ {r} : seen'[a] = seen[a]
  /\ \A s \in Requests \ {r} :
       /\ \A f \in Events : eventRow[f] = s => eventRow'[f] = s
       /\ \A a \in Bookings : bookingRow[a] = s => bookingRow'[a] = s

(* A COMMIT keeps the other requests' part of the invariant, whether it    *)
(* inserts a booking or cancels one.                                       *)
LEMMA CommitOthers ==
  ASSUME IInv, NEW r \in Requests, NEW b \in Bookings, NEW e \in Events,
         CommitFrame(r, b, e), eventRow[e] = r,
         \/ r = b /\ booking[b] = NoRow
         \/ /\ bookingRow[b] = r /\ booking[b] # NoRow
            /\ booking[b].event = e
            /\ booking'[b].user = booking[b].user
            /\ booking'[b].count = booking[b].count
            /\ booking'[b].status = "cancelled"
  PROVE  /\ \A a \in Bookings \ {r} : BookOK(a)'
         /\ \A c \in Cancels \ {r} : CancelOK(c)'
<1>1. ASSUME NEW a \in Bookings \ {r} PROVE BookOK(a)'
  <2>1. BookOK(a) /\ want[a].event \in Events
    BY DEF IInv, TypeOK
  <2>2. /\ pc'[a] = pc[a] /\ tx'[a] = tx[a] /\ writes'[a] = writes[a]
        /\ seen'[a] = seen[a] /\ want' = want
        /\ \A f \in Events : eventRow[f] = a => eventRow'[f] = a
    BY DEF CommitFrame, Requests
  <2>3. BookControl(a)'
    BY <2>1, <2>2 DEF BookOK, BookControl, RowMatches, CommitFrame
  <2>4. BookWrites(a)'
    BY <2>1, <2>2 DEF BookOK, BookWrites, Committing
  <2>5. BookHolds(a)'
    <3>1. CASE pc[a] \in {"insert", "decrement", "log"} \/ Committing(a)
      <4>1. want[a].event # e
        BY <2>1, <3>1 DEF BookOK, BookHolds
      <4>2. event'[want[a].event] = event[want[a].event]
        BY <2>1, <4>1 DEF CommitFrame
      <4>3. HasActive(want[a].user, want[a].event)' => HasActive(want[a].user, want[a].event)
        BY <2>2, <4>1 DEF CommitFrame, HasActive, Active
      <4> QED
        BY <2>1, <2>2, <4>2, <4>3 DEF BookOK, BookHolds, Committing, InCriticalSection, EventOf
    <3>2. CASE ~ (pc[a] \in {"insert", "decrement", "log"} \/ Committing(a))
      BY <2>2, <3>2 DEF BookHolds, Committing, InCriticalSection
    <3> QED
      BY <3>1, <3>2
  <2> QED
    BY <2>3, <2>4, <2>5 DEF BookOK
<1>2. ASSUME NEW c \in Cancels \ {r} PROVE CancelOK(c)'
  <2>1. CancelOK(c) /\ target[c].booking \in Bookings
    BY DEF IInv, TypeOK
  <2>2. /\ pc'[c] = pc[c] /\ tx'[c] = tx[c] /\ writes'[c] = writes[c]
        /\ target' = target
        /\ \A f \in Events : eventRow[f] = c => eventRow'[f] = c
        /\ \A a \in Bookings : bookingRow[a] = c => bookingRow'[a] = c
    BY DEF CommitFrame, Requests
  <2>3. CancelControl(c)'
    BY <2>1, <2>2 DEF CancelOK, CancelControl
  <2>4. CancelWrites(c)'
    BY <2>1, <2>2 DEF CancelOK, CancelWrites, Committing
  <2>5. CancelHolds(c)'
    <3>1. CASE pc[c] \in {"cancelRow", "restore"} \/ Committing(c)
      <4>1. bookingRow[target[c].booking] = c /\ Active(target[c].booking)
        BY <2>1, <3>1 DEF CancelOK, CancelHolds
      <4>2. target[c].booking # b
        BY <4>1 DEF Active
      <4>3. booking'[target[c].booking] = booking[target[c].booking]
        BY <2>1, <4>2 DEF CommitFrame
      <4>4. booking[target[c].booking].event \in Events
        BY <2>1, <4>1 DEF IInv, TypeOK, Active, Rows
      <4>5. CASE Committing(c)
        <5>1. booking[target[c].booking].event # e
          BY <2>1, <4>5 DEF CancelOK, CancelHolds
        <5>2. event'[booking[target[c].booking].event] = event[booking[target[c].booking].event]
          BY <4>4, <5>1 DEF CommitFrame
        <5> QED
          BY <2>1, <2>2, <4>1, <4>3, <4>4, <5>2 DEF CancelOK, CancelHolds, Committing, Active
      <4>6. CASE ~ Committing(c)
        BY <2>1, <2>2, <4>1, <4>3, <4>6 DEF CancelOK, CancelHolds, Committing, Active
      <4> QED
        BY <4>5, <4>6
    <3>2. CASE ~ (pc[c] \in {"cancelRow", "restore"} \/ Committing(c))
      BY <2>2, <3>2 DEF CancelHolds, Committing
    <3> QED
      BY <3>1, <3>2
  <2> QED
    BY <2>3, <2>4, <2>5 DEF CancelOK
<1> QED
  BY <1>1, <1>2

(* A COMMIT with whatever the client does next.                            *)
CommitStep(r) ==
  /\ Committing(r) /\ Commits(r)
  /\ UNCHANGED <<want, target, lock, seen>>
  /\ \A s \in Requests \ {r} : pc'[s] = pc[s] /\ resp'[s] = resp[s]
  /\ pc' \in [Requests -> Steps] /\ resp' \in [Requests -> Answers]
  /\ pc'[r] \in IF r \in Bookings THEN {"release", "done"} ELSE {"audit", "done"}
  /\ \/ resp'[r] = IF r \in Bookings THEN "created" ELSE "cancelled"
     \/ tx[r] = "inDoubt" /\ resp'[r] = resp[r]

(* What the COMMIT of a booking finds and does: the ledger's Book.         *)
LEMMA BookCommitEffect ==
  ASSUME IInv, NEW b \in Bookings, Committing(b), Commits(b),
         NEW e, NEW n, e = want[b].event, n = want[b].count
  PROVE  /\ e \in Events /\ n \in 1..MaxTickets /\ want[b].user \in Users
         /\ booking[b] = NoRow /\ eventRow[e] = b
         /\ event[e].status = "published" /\ ~ event[e].deleted
         /\ n <= event[e].remaining
         /\ ~ HasActive(want[b].user, e)
         /\ event' = [event EXCEPT ![e] = Decremented(@, n)]
         /\ booking' = [booking EXCEPT ![b] = [user |-> want[b].user, event |-> e,
                                               count |-> n, status |-> "confirmed"]]
<1>1. BookOK(b) /\ TypeOK
  BY DEF IInv
<1>2. writes[b] = {"row", "tickets", "log"}
  BY <1>1 DEF BookOK, BookWrites
<1>3. /\ eventRow[e] = b /\ event[e].status = "published" /\ ~ event[e].deleted
      /\ event[e].remaining >= n /\ ~ HasActive(want[b].user, e)
  BY <1>1 DEF BookOK, BookHolds
<1>4. booking[b] = NoRow /\ n # 0
  BY <1>1 DEF BookOK, BookControl, Committing
<1>5. e \in Events /\ n \in 0..MaxTickets /\ want[b].user \in Users /\ event[e] \in EventRecs
  BY <1>1 DEF TypeOK
<1>6. n \in 1..MaxTickets /\ n <= event[e].remaining
  BY <1>3, <1>4, <1>5, FlowAssumption DEF EventRecs
<1>7. EventOf(b) = e /\ CountOf(b) = n /\ UserOf(b) = want[b].user /\ BookingOf(b) = b
  BY DEF EventOf, CountOf, UserOf, BookingOf
<1>8. event' = [event EXCEPT ![e] = Decremented(@, n)]
  BY <1>2, <1>7 DEF Commits
<1>9. booking' = [booking EXCEPT ![b] = [user |-> want[b].user, event |-> e,
                                        count |-> n, status |-> "confirmed"]]
  BY <1>2, <1>7 DEF Commits
<1> QED
  BY <1>3, <1>4, <1>5, <1>6, <1>8, <1>9

(* What the COMMIT of a cancellation finds and does: the ledger's Cancel.  *)
LEMMA CancelCommitEffect ==
  ASSUME IInv, NEW c \in Cancels, Committing(c), Commits(c),
         NEW b, NEW e, NEW n,
         b = target[c].booking, e = booking[b].event, n = booking[b].count
  PROVE  /\ b \in Bookings /\ Active(b) /\ booking[b] \in Rows
         /\ e \in Events /\ n \in 1..MaxTickets
         /\ bookingRow[b] = c /\ eventRow[e] = c
         /\ event[e].remaining + n <= event[e].total
         /\ event' = [event EXCEPT ![e] = Restored(@, n)]
         /\ booking' = [booking EXCEPT ![b].status = "cancelled"]
<1>1. CancelOK(c) /\ TypeOK /\ c \notin Bookings
  BY FlowAssumption DEF IInv
<1>2. writes[c] = {"row", "tickets"}
  BY <1>1 DEF CancelOK, CancelWrites
<1>3. /\ bookingRow[b] = c /\ Active(b) /\ eventRow[e] = c
      /\ event[e].remaining + n <= event[e].total
  BY <1>1 DEF CancelOK, CancelHolds
<1>4. b \in Bookings /\ booking[b] \in Rows
  BY <1>1, <1>3 DEF TypeOK, Active
<1>5. e \in Events /\ n \in 1..MaxTickets
  BY <1>4 DEF Rows
<1>6. EventOf(c) = e /\ CountOf(c) = n /\ BookingOf(c) = b
  BY <1>1 DEF EventOf, CountOf, BookingOf
<1>7. event' = [event EXCEPT ![e] = Restored(@, n)]
  BY <1>1, <1>2, <1>6 DEF Commits
<1>8. booking' = [booking EXCEPT ![b].status = "cancelled"]
  BY <1>1, <1>2, <1>6 DEF Commits
<1> QED
  BY <1>3, <1>4, <1>5, <1>7, <1>8

(* Ending r's transaction leaves the row locks of the others alone.        *)
LEMMA CommitsFrame ==
  ASSUME TypeOK, NEW r \in Requests, Commits(r)
  PROVE  /\ \A s \in Requests \ {r} :
              /\ tx'[s] = tx[s] /\ writes'[s] = writes[s]
              /\ \A f \in Events : eventRow[f] = s => eventRow'[f] = s
              /\ \A a \in Bookings : bookingRow[a] = s => bookingRow'[a] = s
         /\ tx'[r] = "none"
BY DEF TypeOK, Commits, FreeRows

(* What a COMMIT writes besides events and bookings is of its type.        *)
LEMMA CommitsTypeOK ==
  ASSUME TypeOK, NEW r \in Requests, CommitStep(r)
  PROVE  /\ want' \in [Bookings -> [user : Users, event : Events, count : 0..MaxTickets]]
         /\ target' \in [Cancels -> [user : Users, booking : Bookings]]
         /\ audit' \in SUBSET Requests
         /\ lock' \in [Events -> Bookings \cup {NoOne}]
         /\ eventRow' \in [Events -> Requests \cup {NoOne}]
         /\ bookingRow' \in [Bookings -> Requests \cup {NoOne}]
         /\ writes' \in [Requests -> SUBSET Writes]
         /\ tx' \in [Requests -> TxStates]
         /\ pc' \in [Requests -> Steps]
         /\ seen' \in [Bookings -> Nat]
         /\ resp' \in [Requests -> Answers]
<1>1. /\ eventRow' \in [Events -> Requests \cup {NoOne}]
      /\ bookingRow' \in [Bookings -> Requests \cup {NoOne}]
      /\ writes' \in [Requests -> SUBSET Writes]
      /\ audit' \in SUBSET Requests
  BY DEF TypeOK, CommitStep, Commits, FreeRows
<1>2. tx' \in [Requests -> TxStates]
  BY OtherNames DEF TypeOK, CommitStep, Commits
<1> QED
  BY <1>1, <1>2 DEF TypeOK, CommitStep

(* A booking's COMMIT keeps the invariant.                                 *)
LEMMA BookCommitInv ==
  ASSUME IInv, NEW b \in Bookings, CommitStep(b)
  PROVE  IInv'
<1>1. PICK e, n : e = want[b].event /\ n = want[b].count
  OBVIOUS
<1>2. /\ b \in Requests /\ b \notin Cancels /\ TypeOK
      /\ Committing(b) /\ Commits(b)
  BY FlowAssumption DEF IInv, Requests, CommitStep
<1>3. /\ e \in Events /\ n \in 1..MaxTickets /\ want[b].user \in Users
      /\ booking[b] = NoRow /\ eventRow[e] = b
      /\ n <= event[e].remaining
      /\ event' = [event EXCEPT ![e] = Decremented(@, n)]
      /\ booking' = [booking EXCEPT ![b] = [user |-> want[b].user, event |-> e,
                                            count |-> n, status |-> "confirmed"]]
  BY <1>1, <1>2, BookCommitEffect
<1>4. TypeOK'
  <2>1. event[e] \in EventRecs
    BY <1>2, <1>3 DEF TypeOK
  <2>2. /\ event[e].remaining \in 0..MaxTickets /\ event[e].version \in Nat
    BY <2>1 DEF EventRecs
  <2>3. event[e].remaining - n \in 0..MaxTickets /\ event[e].version + 1 \in Nat
    BY <1>3, <2>2, FlowAssumption
  <2>4. Decremented(event[e], n) \in EventRecs
    BY <2>1, <2>3 DEF EventRecs, Decremented
  <2>5. event' \in [Events -> EventRecs]
    BY <1>2, <1>3, <2>4 DEF TypeOK
  <2>6. booking' \in [Bookings -> Rows \cup {NoRow}]
    BY <1>2, <1>3 DEF TypeOK, Rows
  <2> QED
    BY <1>2, <2>5, <2>6, CommitsTypeOK DEF TypeOK
<1>5. CommitFrame(b, b, e)
  BY <1>2, <1>3, CommitsFrame DEF CommitFrame, CommitStep, TypeOK
<1>6. BookOK(b)'
  <2>1. pc'[b] \in {"release", "done"} /\ tx'[b] = "none" /\ want' = want
    BY <1>2, CommitsFrame DEF CommitStep
  <2>2. want[b].count # 0
    BY <1>1, <1>3, FlowAssumption
  <2>3. RowMatches(b)'
    BY <1>1, <1>2, <1>3, <2>1 DEF RowMatches, TypeOK
  <2> QED
    BY <2>1, <2>2, <2>3 DEF BookOK, BookControl, BookWrites, BookHolds, Committing,
       InCriticalSection, BookSteps
<1> QED
  BY <1>2, <1>3, <1>4, <1>5, <1>6, CommitOthers DEF IInv

(* A cancellation's COMMIT keeps the invariant.                            *)
LEMMA CancelCommitInv ==
  ASSUME IInv, NEW c \in Cancels, CommitStep(c)
  PROVE  IInv'
<1>1. PICK b, e, n : b = target[c].booking /\ e = booking[b].event /\ n = booking[b].count
  OBVIOUS
<1>2. /\ c \in Requests /\ c \notin Bookings /\ TypeOK
      /\ Committing(c) /\ Commits(c)
  BY FlowAssumption DEF IInv, Requests, CommitStep
<1>3. /\ b \in Bookings /\ Active(b) /\ booking[b] \in Rows
      /\ e \in Events /\ n \in 1..MaxTickets
      /\ bookingRow[b] = c /\ eventRow[e] = c
      /\ event[e].remaining + n <= event[e].total
      /\ event' = [event EXCEPT ![e] = Restored(@, n)]
      /\ booking' = [booking EXCEPT ![b].status = "cancelled"]
  BY <1>1, <1>2, CancelCommitEffect
<1>4. /\ booking'[b].event = booking[b].event
      /\ booking'[b].user = booking[b].user
      /\ booking'[b].count = booking[b].count
      /\ booking'[b].status = "cancelled"
      /\ booking'[b] \in Rows
  BY <1>2, <1>3 DEF TypeOK, Rows
<1>5. TypeOK'
  <2>1. event[e] \in EventRecs
    BY <1>2, <1>3 DEF TypeOK
  <2>2. /\ event[e].remaining \in 0..MaxTickets /\ event[e].total \in 1..MaxTickets
    BY <2>1 DEF EventRecs
  <2>3. event[e].remaining + n \in 0..MaxTickets
    BY <1>3, <2>2, FlowAssumption
  <2>4. Restored(event[e], n) \in EventRecs
    BY <2>1, <2>3 DEF EventRecs, Restored
  <2>5. event' \in [Events -> EventRecs]
    BY <1>2, <1>3, <2>4 DEF TypeOK
  <2>6. booking' \in [Bookings -> Rows \cup {NoRow}]
    BY <1>2, <1>3, <1>4 DEF TypeOK
  <2> QED
    BY <1>2, <2>5, <2>6, CommitsTypeOK DEF TypeOK
<1>6. CommitFrame(c, b, e)
  BY <1>1, <1>2, <1>3, <1>4, CommitsFrame DEF CommitFrame, CommitStep, TypeOK
<1>7. CancelOK(c)'
  <2>1. pc'[c] \in {"audit", "done"} /\ tx'[c] = "none"
    BY <1>2, CommitsFrame DEF CommitStep
  <2> QED
    BY <2>1 DEF CancelOK, CancelControl, CancelWrites, CancelHolds, Committing, CancelSteps
<1> QED
  BY <1>1, <1>2, <1>3, <1>4, <1>5, <1>6, <1>7, CommitOthers DEF IInv, Active

(* Which steps commit: COMMIT answered, for a booking or a cancellation,   *)
(* and COMMIT whose client is gone.                                        *)
LEMMA CommitSteps ==
  ASSUME IInv, NEW r \in Requests,
         \/ r \in Bookings /\ CommitBooking(r) /\ tx[r] = "open"
         \/ r \in Cancels /\ CommitCancel(r)
         \/ ServerCommits(r)
  PROVE  CommitStep(r)
<1> USE DEF Goto, Answer
<1>1. /\ TypeOK /\ (r \in Bookings => BookOK(r)) /\ (r \in Cancels => CancelOK(r))
      /\ r \in Bookings \/ r \in Cancels
      /\ r \in Cancels => r \notin Bookings
  BY FlowAssumption DEF IInv, Requests
<1>2. CASE r \in Bookings /\ CommitBooking(r) /\ tx[r] = "open"
  <2>1. Commits(r) /\ pc[r] = "commit" /\ pc' = [pc EXCEPT ![r] = "release"]
    BY <1>2 DEF CommitBooking
  <2> QED
    BY <1>1, <1>2, <2>1, StepNames, AnswerNames, SMTT(30)
    DEF CommitBooking, CommitStep, Committing, TypeOK
<1>3. CASE r \in Cancels /\ CommitCancel(r)
  <2>1. tx[r] = "open"
    BY <1>1, <1>3 DEF CommitCancel, CancelOK, CancelControl
  <2> QED
    BY <1>1, <1>3, <2>1, StepNames, AnswerNames
    DEF CommitCancel, CommitStep, Committing, TypeOK
<1>4. CASE ServerCommits(r)
  <2>1. r \in Bookings => pc[r] \in {"release", "done"}
    BY <1>1, <1>4 DEF ServerCommits, BookOK, BookControl, BookSteps
  <2>2. r \in Cancels => pc[r] = "done"
    BY <1>1, <1>4 DEF ServerCommits, CancelOK, CancelControl, CancelSteps
  <2> QED
    BY <1>1, <1>4, <2>1, <2>2 DEF ServerCommits, CommitStep, Committing, TypeOK
<1> QED
  BY <1>2, <1>3, <1>4

(* Any COMMIT keeps the invariant.                                         *)
LEMMA CommitInv ==
  ASSUME IInv, NEW r \in Requests, CommitStep(r)
  PROVE  IInv'
BY BookCommitInv, CancelCommitInv DEF Requests

(* COMMIT in an aborted transaction is a rollback.                         *)
LEMMA CommitAbortedInv ==
  ASSUME IInv, NEW b \in Bookings, CommitBooking(b), tx[b] # "open"
  PROVE  IInv'
<1> USE DEF Goto, Answer, tables
<1>1. TypeOK /\ b \in Requests /\ "none" \in TxStates /\ Unwound(b) = "release"
  BY OtherNames DEF IInv, Requests, Unwound
<1>2. /\ pc[b] = "commit" /\ tx[b] = "aborted" /\ RollsBack(b, "none")
      /\ pc' = [pc EXCEPT ![b] = "release"] /\ resp' = [resp EXCEPT ![b] = "error"]
      /\ UNCHANGED <<want, target, event, booking, audit, lock, seen>>
  BY DEF CommitBooking
<1>3. TypeOK'
  BY <1>1, <1>2, RollsBackTypeOK, StepNames, AnswerNames DEF TypeOK
<1>4. Frame(b)
  BY <1>1, <1>2 DEF RollsBack, FreeRows, Frame, TypeOK, Requests
<1>5. tx'[b] = "none" /\ pc'[b] = Unwound(b)
  BY <1>1, <1>2 DEF RollsBack, TypeOK
<1> QED
  BY <1>1, <1>2, <1>3, <1>4, <1>5, EndsInv

-----------------------------------------------------------------------------
(* The invariant holds in every reachable state.                           *)

(* A step that moves no request: the TTL, or nothing at all.               *)
LEMMA IdleInv ==
  ASSUME IInv, (\E e \in Events : LockExpires(e)) \/ UNCHANGED vars
  PROVE  IInv'
<1>1. TypeOK'
  BY DEF IInv, TypeOK, LockExpires, tables, rowLocks, vars
<1>2. Frame(NoOne)
  BY DEF Frame, LockExpires, tables, rowLocks, vars
<1>3. NoOne \notin Bookings /\ NoOne \notin Cancels
  BY FlowAssumption DEF Requests
<1> QED
  BY <1>1, <1>2, <1>3, FrameOthers DEF IInv

(* The invariant holds when the tables are new and no request has arrived. *)
LEMMA InitIInv == Init => IInv
<1> SUFFICES ASSUME Init PROVE IInv
  OBVIOUS
<1>1. TypeOK
  <2>1. event \in [Events -> EventRecs]
    <3>1. \A t \in 1..MaxTickets : t \in 0..MaxTickets
      BY FlowAssumption
    <3> QED
      BY <3>1 DEF Init, EventRecs
  <2>2. pc \in [Requests -> Steps] /\ resp \in [Requests -> Answers]
    BY StepNames, AnswerNames DEF Init
  <2>3. tx \in [Requests -> TxStates]
    BY OtherNames DEF Init
  <2> QED
    BY <2>1, <2>2, <2>3 DEF Init, TypeOK
<1>2. ASSUME NEW r \in Requests
      PROVE  pc[r] = "idle" /\ tx[r] = "none" /\ writes[r] = {}
  BY DEF Init
<1>3. ASSUME NEW b \in Bookings PROVE BookOK(b)
  BY <1>2 DEF BookOK, BookControl, BookWrites, BookHolds, Committing,
     InCriticalSection, BookSteps, Requests, Init
<1>4. ASSUME NEW c \in Cancels PROVE CancelOK(c)
  BY <1>2 DEF CancelOK, CancelControl, CancelWrites, CancelHolds, Committing,
     CancelSteps, Requests
<1> QED
  BY <1>1, <1>3, <1>4 DEF IInv

(* Every step keeps the invariant.                                         *)
LEMMA NextIInv == IInv /\ [Next]_vars => IInv'
<1> SUFFICES ASSUME IInv, [Next]_vars PROVE IInv'
  OBVIOUS
<1>1. ASSUME NEW b \in Bookings, ArriveBook(b) \/ BookStep(b) PROVE IInv'
  <2>1. CASE CommitBooking(b)
    <3>1. b \in Requests
      BY DEF Requests
    <3> QED
      BY <2>1, <3>1, CommitSteps, CommitInv, CommitAbortedInv
  <2>2. CASE ~ CommitBooking(b)
    BY <1>1, <2>2, ArriveBookInv, AcquireLockInv, SelectForUpdateInv, CreateInTxInv,
       UpdateTicketsInv, LogInTxInv, ReleaseLockInv DEF BookStep
  <2> QED
    BY <2>1, <2>2
<1>2. ASSUME NEW c \in Cancels, ArriveCancel(c) \/ CancelStep(c) PROVE IInv'
  <2>1. CASE CommitCancel(c)
    <3>1. c \in Requests
      BY DEF Requests
    <3> QED
      BY <2>1, <3>1, CommitSteps, CommitInv
  <2>2. CASE ~ CommitCancel(c)
    BY <1>2, <2>2, ArriveCancelInv, LockBookingInv, CancelRowInv, RestoreTicketsInv,
       AuditLogInv DEF CancelStep
  <2> QED
    BY <2>1, <2>2
<1>3. ASSUME NEW r \in Requests, SharedStep(r) \/ ServerStep(r) \/ Fault(r) PROVE IInv'
  <2>1. CASE ServerCommits(r)
    BY <2>1, CommitSteps, CommitInv
  <2>2. CASE ~ ServerCommits(r)
    BY <1>3, <2>2, BeginInv, RollbackInv, FaultInv DEF SharedStep, ServerStep
  <2> QED
    BY <2>1, <2>2
<1>4. ASSUME Quiescent PROVE IInv'
  BY <1>4, IdleInv DEF Quiescent
<1> QED
  BY <1>1, <1>2, <1>3, <1>4, IdleInv DEF Next

(* The inductive invariant is an invariant.                                *)
THEOREM FlowInvariant == Spec => []IInv
BY InitIInv, NextIInv, PTL DEF Spec

(* Every variable keeps its type: in particular no COMMIT takes an event's *)
(* remaining tickets outside 0..MaxTickets.                                *)
THEOREM FlowTypeOK == Spec => []TypeOK
<1>1. IInv => TypeOK
  BY DEF IInv
<1> QED
  BY <1>1, FlowInvariant, PTL

(* What a booking request checked under SELECT ... FOR UPDATE is still     *)
(* true of the committed event when it commits.                            *)
THEOREM SnapshotAlwaysHolds == Spec => []SnapshotHolds
<1>1. ASSUME IInv, NEW b \in Bookings, InCriticalSection(b)
      PROVE  LET e == event[EventOf(b)] IN
             /\ e.version = seen[b]
             /\ e.remaining >= CountOf(b)
             /\ e.status = "published" /\ ~ e.deleted
  <2>1. BookHolds(b) /\ EventOf(b) = want[b].event /\ CountOf(b) = want[b].count
    BY <1>1 DEF IInv, BookOK, EventOf, CountOf
  <2>2. pc[b] \in {"insert", "decrement", "log"} \/ Committing(b)
    BY <1>1 DEF InCriticalSection, Committing
  <2> QED
    BY <1>1, <2>1, <2>2 DEF BookHolds
<1>2. IInv => SnapshotHolds
  BY <1>1 DEF SnapshotHolds
<1> QED
  BY <1>2, FlowInvariant, PTL

-----------------------------------------------------------------------------
(* The detailed specification implements the ledger.                       *)

(* New tables are a new ledger.                                            *)
LEMMA InitIsLedgerInit == Init => Ledger!Init
<1> SUFFICES ASSUME Init PROVE Ledger!Init
  OBVIOUS
<1>1. ASSUME NEW e \in Events
      PROVE  Stock[e] \in Ledger!Stock /\ Stock[e].remaining = Stock[e].total
  <2>1. /\ event[e].total \in 1..MaxTickets /\ event[e].remaining = event[e].total
    BY DEF Init
  <2>2. event[e].remaining \in 0..MaxTickets
    BY <2>1, FlowAssumption
  <2> QED
    BY <2>1, <2>2 DEF Stock, Ledger!Stock
<1>2. Stock \in [Events -> Ledger!Stock]
  BY <1>1 DEF Stock
<1> QED
  BY <1>1, <1>2 DEF Init, Ledger!Init

(* A booking's COMMIT is the ledger's Book.                                *)
LEMMA BookCommitIsBook ==
  ASSUME IInv, NEW b \in Bookings, CommitStep(b)
  PROVE  Ledger!Next
<1>1. PICK u, e, n : u = want[b].user /\ e = want[b].event /\ n = want[b].count
  OBVIOUS
<1>2. /\ u \in Users /\ e \in Events /\ n \in 1..MaxTickets
      /\ booking[b] = NoRow
      /\ event[e].status = "published" /\ ~ event[e].deleted
      /\ n <= event[e].remaining
      /\ ~ HasActive(u, e)
      /\ event' = [event EXCEPT ![e] = Decremented(@, n)]
      /\ booking' = [booking EXCEPT ![b] = [user |-> u, event |-> e,
                                            count |-> n, status |-> "confirmed"]]
  BY <1>1, BookCommitEffect DEF CommitStep
<1>3. event \in [Events -> EventRecs]
  BY DEF IInv, TypeOK
<1>4. Stock' = [Stock EXCEPT ![e].remaining = @ - n]
  <2>1. /\ event'[e].remaining = event[e].remaining - n
        /\ event'[e].total = event[e].total /\ event'[e].status = event[e].status
        /\ event'[e].deleted = event[e].deleted
    BY <1>2, <1>3 DEF Decremented, EventRecs
  <2>2. \A f \in Events \ {e} : event'[f] = event[f]
    BY <1>2, <1>3
  <2> QED
    BY <1>2, <2>1, <2>2 DEF Stock
<1>5. Stock[e].onSale /\ Stock[e].remaining = event[e].remaining
  BY <1>2 DEF Stock
<1>6. ~ Ledger!Barred(u, e)
  BY <1>2 DEF HasActive, Active, Ledger!Barred, Ledger!HasActive, Ledger!Active
<1>7. Ledger!Book(b, u, e, n)
  BY <1>2, <1>4, <1>5, <1>6 DEF Ledger!Book, Ledger!HasStock
<1> QED
  BY <1>2, <1>7 DEF Ledger!Next

(* A cancellation's COMMIT is the ledger's Cancel.                         *)
LEMMA CancelCommitIsCancel ==
  ASSUME IInv, NEW c \in Cancels, CommitStep(c)
  PROVE  Ledger!Next
<1>1. PICK b, e, n : b = target[c].booking /\ e = booking[b].event /\ n = booking[b].count
  OBVIOUS
<1>2. Committing(c) /\ Commits(c) /\ TypeOK
  BY DEF CommitStep, IInv
<1>3. /\ b \in Bookings /\ Active(b) /\ booking[b] \in Rows
      /\ e \in Events /\ n \in 1..MaxTickets
      /\ bookingRow[b] = c /\ eventRow[e] = c
      /\ event[e].remaining + n <= event[e].total
      /\ event' = [event EXCEPT ![e] = Restored(@, n)]
      /\ booking' = [booking EXCEPT ![b].status = "cancelled"]
  BY <1>1, <1>2, CancelCommitEffect, SMTT(30)
<1>4. event \in [Events -> EventRecs]
  BY DEF IInv, TypeOK
<1>5. Stock' = [Stock EXCEPT ![e].remaining = @ + n]
  <2>1. /\ event'[e].remaining = event[e].remaining + n
        /\ event'[e].total = event[e].total /\ event'[e].status = event[e].status
        /\ event'[e].deleted = event[e].deleted
    BY <1>3, <1>4 DEF Restored, EventRecs
  <2>2. \A f \in Events \ {e} : event'[f] = event[f]
    BY <1>3, <1>4
  <2> QED
    BY <1>3, <2>1, <2>2 DEF Stock
<1>6. Ledger!Cancellable(b)
  BY <1>3 DEF Active, Ledger!Cancellable, Ledger!Active
<1>7. Ledger!Cancel(b)
  BY <1>1, <1>3, <1>5, <1>6 DEF Ledger!Cancel
<1> QED
  BY <1>3, <1>7 DEF Ledger!Next

(* Every step is a step of the ledger, or leaves the committed tables as   *)
(* they are.                                                               *)
LEMMA StepIsLedgerStep == IInv /\ [Next]_vars => [Ledger!Next]_(Ledger!vars)
<1> SUFFICES ASSUME IInv, [Next]_vars PROVE Ledger!Next \/ UNCHANGED <<event, booking>>
  BY DEF Ledger!vars, Stock
<1> USE DEF tables
<1>1. ASSUME NEW r \in Requests, CommitStep(r) PROVE Ledger!Next
  BY <1>1, BookCommitIsBook, CancelCommitIsCancel DEF Requests
<1>2. ASSUME NEW b \in Bookings, ArriveBook(b) \/ BookStep(b)
      PROVE  Ledger!Next \/ UNCHANGED <<event, booking>>
  <2>1. CASE CommitBooking(b)
    <3>1. b \in Requests
      BY DEF Requests
    <3> QED
      BY <2>1, <3>1, <1>1, CommitSteps DEF CommitBooking
  <2>2. CASE ~ CommitBooking(b)
    BY <1>2, <2>2 DEF ArriveBook, BookStep, AcquireLock, AcquireLockFails,
       SelectForUpdate, CreateInTx, UpdateTicketsInTx, LogInTx, ReleaseLock, ReleaseLockFails
  <2> QED
    BY <2>1, <2>2
<1>3. ASSUME NEW c \in Cancels, ArriveCancel(c) \/ CancelStep(c)
      PROVE  Ledger!Next \/ UNCHANGED <<event, booking>>
  <2>1. CASE CommitCancel(c)
    <3>1. c \in Requests
      BY DEF Requests
    <3> QED
      BY <2>1, <3>1, <1>1, CommitSteps
  <2>2. CASE ~ CommitCancel(c)
    BY <1>3, <2>2 DEF ArriveCancel, CancelStep, Fetch, LockBooking, CancelRow,
       RestoreTickets, AuditLog
  <2> QED
    BY <2>1, <2>2
<1>4. ASSUME NEW r \in Requests, SharedStep(r) \/ ServerStep(r) \/ Fault(r)
      PROVE  Ledger!Next \/ UNCHANGED <<event, booking>>
  <2>1. CASE ServerCommits(r)
    BY <2>1, <1>1, CommitSteps
  <2>2. CASE ~ ServerCommits(r)
    BY <1>4, <2>2 DEF SharedStep, Begin, Rollback, ServerStep, ServerRollsBack,
       DeadlockAbort, Fault, CallFails, ConnectionLost, Crash
  <2> QED
    BY <2>1, <2>2
<1>5. ASSUME (\E e \in Events : LockExpires(e)) \/ Quiescent \/ UNCHANGED vars
      PROVE  UNCHANGED <<event, booking>>
  BY <1>5 DEF LockExpires, Quiescent, vars
<1> QED
  BY <1>2, <1>3, <1>4, <1>5 DEF Next

(* Whatever requests, failures and timeouts interleave, the committed      *)
(* tables only ever change by one whole booking or one whole cancellation. *)
THEOREM FlowRefinesLedger == Spec => RefinesLedger
<1>1. Spec => Ledger!Init /\ [][Ledger!Next]_(Ledger!vars)
  BY InitIsLedgerInit, StepIsLedgerStep, FlowInvariant, PTL DEF Spec
<1> QED
  BY <1>1 DEF RefinesLedger, Ledger!Spec

-----------------------------------------------------------------------------
(* What the ledger promises, the code keeps.                               *)
LedgerFacts == INSTANCE TicketLedgerProofs WITH stock <- Stock

(* The parameters suit the ledger.                                         *)
LEMMA LedgerParameters == LedgerFacts!LedgerAssumption
BY FlowAssumption DEF LedgerFacts!LedgerAssumption, LedgerFacts!Rows,
   LedgerFacts!Statuses, Rows, IsFiniteSet, LedgerFacts!IsFiniteSet

(* A run of the code is a run of the ledger.                               *)
LEMMA FlowIsLedger == Spec => LedgerFacts!Spec
<1>1. Ledger!Init <=> LedgerFacts!Init
  BY DEF Ledger!Init, LedgerFacts!Init, Ledger!Stock, LedgerFacts!Stock
<1>2. [Ledger!Next]_(Ledger!vars) <=> [LedgerFacts!Next]_(LedgerFacts!vars)
  BY Zenon DEF Ledger!Next, LedgerFacts!Next, Ledger!vars, LedgerFacts!vars,
     Ledger!Book, LedgerFacts!Book, Ledger!Cancel, LedgerFacts!Cancel,
     Ledger!HasStock, LedgerFacts!HasStock, Ledger!Barred, LedgerFacts!Barred,
     Ledger!Cancellable, LedgerFacts!Cancellable, Ledger!HasActive,
     LedgerFacts!HasActive, Ledger!Active, LedgerFacts!Active
<1> QED
  BY <1>1, <1>2, FlowRefinesLedger, PTL DEF RefinesLedger, Ledger!Spec, LedgerFacts!Spec

(* Tickets are conserved in every committed state: those remaining and     *)
(* those of active bookings make each event's total.                       *)
THEOREM FlowConservation == Spec => []Conservation
<1>1. LedgerFacts!Spec => []LedgerFacts!Conservation
  BY LedgerParameters, LedgerFacts!LedgerConservation
<1>2. LedgerFacts!Conservation <=> Conservation
  BY DEF Conservation, Ledger!Conservation, LedgerFacts!Conservation,
     Ledger!Sold, LedgerFacts!Sold, Ledger!Seats, LedgerFacts!Seats,
     Ledger!Active, LedgerFacts!Active, Ledger!Cardinality, LedgerFacts!Cardinality
<1> QED
  BY <1>1, <1>2, FlowIsLedger, PTL

(* A user never holds two active bookings of one event.                    *)
THEOREM FlowOneActive == Spec => []OneActivePerUser
<1>1. LedgerFacts!Spec => []LedgerFacts!OneActivePerUser
  BY LedgerParameters, LedgerFacts!LedgerOneActive
<1>2. LedgerFacts!OneActivePerUser <=> OneActivePerUser
  BY DEF OneActivePerUser, Ledger!OneActivePerUser, LedgerFacts!OneActivePerUser,
     Ledger!Active, LedgerFacts!Active
<1> QED
  BY <1>1, <1>2, FlowIsLedger, PTL
=============================================================================
