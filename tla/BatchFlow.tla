------------------------------ MODULE BatchFlow ------------------------------
(***************************************************************************)
(* POST /bookings/batch on top of BookingFlow: the entries of a batch are  *)
(* booking requests of one user that BatchBook makes one after the other,  *)
(* each through the whole lock and transaction flow, until one fails.      *)
(* Requests that are in no batch arrive freely beside them.                *)
(***************************************************************************)
EXTENDS BookingFlow, Sequences

CONSTANTS
  BatchRequests,  \* the batch requests
  MaxItems        \* the most entries a batch may have

ASSUME BatchAssumption == MaxItems \in Nat \ {0}

VARIABLE
  batch           \* batch request -> the booking requests its entries become

batchVars == <<want, target, event, booking, audit, lock, eventRow, bookingRow,
               writes, tx, pc, seen, resp, batch>>

Entries == UNION {[1..n -> Bookings] : n \in 0..Cardinality(Bookings)}

(* An entry becomes one booking request, made with the batch's user.       *)
WellFormed ==
  \A s, t \in BatchRequests : \A i \in DOMAIN batch[s], j \in DOMAIN batch[t] :
    /\ batch[s][i] = batch[t][j] => s = t /\ i = j
    /\ s = t => want[batch[s][i]].user = want[batch[t][j]].user

BatchTypeOK == batch \in [BatchRequests -> Entries]

BatchInit ==
  /\ Init
  /\ batch \in [BatchRequests -> Entries]
  /\ WellFormed
-----------------------------------------------------------------------------
Accepted(t) == Len(batch[t]) \in 1..MaxItems

Succeeded(b) == pc[b] = "done" /\ resp[b] = "created"

GoesOn(b) ==                              \* a mutant: an error does not stop the loop
  \A t \in BatchRequests : \A i \in DOMAIN batch[t] :
    batch[t][i] = b => Accepted(t) /\ (i > 1 => pc[batch[t][i - 1]] = "done")

(* The loop of BatchBook reaches entry b: it is the first, or BookTicket   *)
(* has returned the one before it without an error.  A process that dies   *)
(* between two entries might as well die in the later one's first call.    *)
Turn(b) ==
  \A t \in BatchRequests : \A i \in DOMAIN batch[t] :
    batch[t][i] = b => /\ Accepted(t)
                       /\ i > 1 => Succeeded(batch[t][i - 1])

IsLater(b) ==
  \E t \in BatchRequests : \E i \in DOMAIN batch[t] : i > 1 /\ batch[t][i] = b

BatchBook(b) == Turn(b) /\ ArriveBook(b) /\ UNCHANGED batch

BookTicket(b) == BookStep(b) /\ UNCHANGED batch
CancelBooking(c) == (ArriveCancel(c) \/ CancelStep(c)) /\ UNCHANGED batch
AnyRequest(r) == (SharedStep(r) \/ ServerStep(r) \/ Fault(r)) /\ UNCHANGED batch
RedisExpires(e) == LockExpires(e) /\ UNCHANGED batch

(* Every request that will ever come has ended, and nothing is left behind. *)
Settled ==
  /\ \A b \in Bookings : pc[b] = "done" \/ (pc[b] = "idle" /\ ~ Turn(b))
  /\ \A c \in Cancels : pc[c] = "done"
  /\ \A r \in Requests : tx[r] = "none"
  /\ \A e \in Events : lock[e] = NoOne
  /\ UNCHANGED batchVars

BatchNext ==
  \/ \E b \in Bookings : BatchBook(b) \/ BookTicket(b)
  \/ \E c \in Cancels : CancelBooking(c)
  \/ \E r \in Requests : AnyRequest(r)
  \/ \E e \in Events : RedisExpires(e)
  \/ Settled

BatchSpec == BatchInit /\ [][BatchNext]_batchVars

(* As in BookingFlow; and a batch that has begun goes on by itself.        *)
BatchFairness ==
  /\ \A b \in Bookings : /\ WF_batchVars(BookTicket(b))
                         /\ WF_batchVars(IsLater(b) /\ BatchBook(b))
  /\ \A c \in Cancels : WF_batchVars(CancelStep(c) /\ UNCHANGED batch)
  /\ \A r \in Requests : /\ WF_batchVars(SharedStep(r) /\ UNCHANGED batch)
                         /\ WF_batchVars(ServerStep(r) /\ UNCHANGED batch)
  /\ \A e \in Events : WF_batchVars(RedisExpires(e))

FairBatchSpec == BatchSpec /\ BatchFairness
-----------------------------------------------------------------------------
(* The batch answers 201 with all its bookings, or 400 with the index of   *)
(* the entry that failed and its error.                                    *)
Created(t) == Accepted(t) /\ \A i \in DOMAIN batch[t] : Succeeded(batch[t][i])
FailedAt(t, i) == pc[batch[t][i]] = "done" /\ resp[batch[t][i]] # "created"

(* The answer to a batch tells exactly what was booked: with 201 all of    *)
(* it; with an error at entry i the entries before i, none after i now or  *)
(* later, and entry i itself only if its error left the commit in doubt.   *)
AnswerTells ==
  \A t \in BatchRequests :
    /\ Created(t) => \A i \in DOMAIN batch[t] : booking[batch[t][i]] # NoRow
    /\ \A i \in DOMAIN batch[t] : FailedAt(t, i) =>
         /\ \A j \in DOMAIN batch[t] : j < i => booking[batch[t][j]] # NoRow
         /\ \A j \in DOMAIN batch[t] : j > i =>
              booking[batch[t][j]] = NoRow /\ pc[batch[t][j]] = "idle"
         /\ resp[batch[t][i]] \in Rejections =>
              booking[batch[t][i]] = NoRow /\ tx[batch[t][i]] # "inDoubt"

(* A batch never has two transactions on the server, not even one that     *)
(* the server has yet to find abandoned: its row locks are on one event at *)
(* a time, so two batches that name the same events in opposite orders     *)
(* cannot wait for one another.                                            *)
OneTransactionAtATime ==
  \A t \in BatchRequests : \A i, j \in DOMAIN batch[t] :
    tx[batch[t][i]] # "none" /\ tx[batch[t][j]] # "none" => i = j

(* A batch whose entries name one event twice gets both only if the user   *)
(* gave the first back meanwhile.                                          *)
NoEventTwice ==
  \A t \in BatchRequests : \A i, j \in DOMAIN batch[t] :
    /\ i < j
    /\ want[batch[t][i]].event = want[batch[t][j]].event
    /\ Succeeded(batch[t][j])
    => ~ Active(batch[t][i])

(* A batch that has begun is answered, or its process has died: whatever   *)
(* happens to the lock, the pool and the transactions of its entries.      *)
Over(t) == \/ \E i \in DOMAIN batch[t] : FailedAt(t, i)
           \/ \A i \in DOMAIN batch[t] : pc[batch[t][i]] = "done"

EveryBatchEnds ==
  \A t \in BatchRequests :
    (\E i \in DOMAIN batch[t] : pc[batch[t][i]] # "idle") ~> Over(t)
=============================================================================
