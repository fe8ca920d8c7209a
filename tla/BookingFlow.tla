---------------------------- MODULE BookingFlow -----------------------------
(***************************************************************************)
(* POST /bookings and DELETE /bookings/{id}, statement by statement:       *)
(* the Redis lock, the Postgres transaction with its row locks and unique  *)
(* index, the audit log and the deferred clean-up, for requests that run   *)
(* concurrently and may lose a connection, time out or crash at any step.  *)
(*                                                                         *)
(* A transaction's statements are kept in writes[r] and reach the tables   *)
(* at COMMIT.  Row locks live until the transaction ends.  Each request is *)
(* served by a process of its own, so a crash takes any set of them.       *)
(***************************************************************************)
EXTENDS Naturals, FiniteSets

CONSTANTS
  Users,        \* the accounts that book and cancel
  Events,       \* the rows of table events
  Bookings,     \* the booking requests; each is the id of the row it inserts
  Cancels,      \* the cancellation requests
  MaxTickets,   \* bound on an event's total and on a request's ticket_count
  MaxConns,     \* the size of the pgx connection pool (DB_MAX_CONNS)
  NoOne,        \* the holder of a lock that is free
  NoRow         \* the value of a booking id that has no row

Requests == Bookings \cup Cancels

Rows == [user : Users, event : Events, count : 1..MaxTickets,
         status : {"confirmed", "cancelled"}]

EventRecs == [total : 1..MaxTickets, remaining : 0..MaxTickets,
              status : {"draft", "published"}, deleted : BOOLEAN, version : Nat]

ASSUME FlowAssumption ==
  /\ IsFiniteSet(Bookings)
  /\ IsFiniteSet(Cancels)
  /\ Bookings \cap Cancels = {}
  /\ NoOne \notin Requests
  /\ NoRow \notin Rows
  /\ MaxTickets \in Nat
  /\ MaxConns \in Nat \ {0}

VARIABLES
  want,         \* booking request -> the user, event and ticket_count it asks for
  target,       \* cancel request -> its user and the booking it names
  event,        \* table events, committed
  booking,      \* table bookings, committed
  audit,        \* the requests that have an entry in table audit_logs
  lock,         \* Redis: event -> the request whose token "lock:event:<id>" holds
  eventRow,     \* Postgres: event -> the request whose transaction locks the row
  bookingRow,   \* Postgres: booking -> the request whose transaction locks the row
  writes,       \* request -> what its transaction has written and not committed
  tx,           \* request -> the state of its transaction on the server
  pc,           \* request -> the call it makes next
  seen,         \* booking request -> the event version its SELECT returned
  resp          \* request -> the result its handler renders

tables == <<event, booking, audit>>
rowLocks == <<eventRow, bookingRow>>
vars == <<want, target, event, booking, audit, lock, eventRow, bookingRow,
          writes, tx, pc, seen, resp>>

BookSteps == {"acquire", "begin", "select", "insert", "decrement", "log",
              "commit", "rollback", "release"}
CancelSteps == {"fetch", "begin", "lockBooking", "cancelRow", "restore",
                "commit", "rollback", "audit"}
Steps == BookSteps \cup CancelSteps \cup {"idle", "done"}

Writes == {"row", "tickets", "log"}

(* "lost": the client is gone and the server will roll back; "inDoubt":    *)
(* the client is gone while COMMIT was on its way.                         *)
TxStates == {"none", "open", "aborted", "lost", "inDoubt"}

Rejections == {"badCount", "busy", "notFound", "unavailable", "insufficient",
               "alreadyActive", "versionConflict", "notOwner", "cannotCancel",
               "ticketCheck"}
Answers == Rejections \cup {"none", "error", "created", "cancelled"}

TypeOK ==
  /\ want \in [Bookings -> [user : Users, event : Events, count : 0..MaxTickets]]
  /\ target \in [Cancels -> [user : Users, booking : Bookings]]
  /\ event \in [Events -> EventRecs]
  /\ booking \in [Bookings -> Rows \cup {NoRow}]
  /\ audit \in SUBSET Requests
  /\ lock \in [Events -> Bookings \cup {NoOne}]
  /\ eventRow \in [Events -> Requests \cup {NoOne}]
  /\ bookingRow \in [Bookings -> Requests \cup {NoOne}]
  /\ writes \in [Requests -> SUBSET Writes]
  /\ tx \in [Requests -> TxStates]
  /\ pc \in [Requests -> Steps]
  /\ seen \in [Bookings -> Nat]
  /\ resp \in [Requests -> Answers]

Init ==
  /\ want \in [Bookings -> [user : Users, event : Events, count : 0..MaxTickets]]
  /\ target \in [Cancels -> [user : Users, booking : Bookings]]
  /\ event \in [Events -> {[total |-> t, remaining |-> t, status |-> s,
                            deleted |-> d, version |-> 1] :
                             t \in 1..MaxTickets, s \in {"draft", "published"},
                             d \in BOOLEAN}]
  /\ booking = [b \in Bookings |-> NoRow]
  /\ audit = {}
  /\ lock = [e \in Events |-> NoOne]
  /\ eventRow = [e \in Events |-> NoOne]
  /\ bookingRow = [b \in Bookings |-> NoOne]
  /\ writes = [r \in Requests |-> {}]
  /\ tx = [r \in Requests |-> "none"]
  /\ pc = [r \in Requests |-> "idle"]
  /\ seen = [b \in Bookings |-> 0]
  /\ resp = [r \in Requests |-> "none"]
-----------------------------------------------------------------------------
(* A booking request's own input; a cancellation's come from the row it    *)
(* read.                                                                   *)
BookingOf(r) == IF r \in Bookings THEN r ELSE target[r].booking
UserOf(r) == IF r \in Bookings THEN want[r].user ELSE target[r].user
EventOf(r) == IF r \in Bookings THEN want[r].event ELSE booking[target[r].booking].event
CountOf(r) == IF r \in Bookings THEN want[r].count ELSE booking[target[r].booking].count

Active(b) == booking[b] # NoRow /\ booking[b].status = "confirmed"

Goto(r, step) == pc' = [pc EXCEPT ![r] = step]
Answer(r, a) == resp' = [resp EXCEPT ![r] = a]

Retries(r) == IF r \in Bookings THEN "begin" ELSE "done"  \* a mutant: tries again for ever

(* Where a request goes when its transaction is over: BookTicket still has *)
(* the deferred ReleaseLock to run, Cancel returns.                        *)
Unwound(r) == IF r \in Bookings THEN "release" ELSE "done"

(* The handler returns an error and its deferred Rollback runs next.       *)
Refuse(r, why) == Goto(r, "rollback") /\ Answer(r, why)

(* A pooled connection is free: transactions hold theirs until they end.   *)
ConnFree == Cardinality({r \in Requests : tx[r] \in {"open", "aborted"}}) < MaxConns

(* Row locks.                                                              *)
NoEventLock(r, e) == TRUE                 \* a mutant: SELECT without FOR UPDATE
EventRowFree(r, e) == eventRow[e] \in {NoOne, r}

NoBookingLock(r, b) == TRUE               \* a mutant: SELECT without FOR UPDATE
BookingRowFree(r, b) == bookingRow[b] \in {NoOne, r}

LockEventRow(r, e) == eventRow' = [eventRow EXCEPT ![e] = r]

FreeRows(r) ==
  /\ eventRow' = [e \in Events |-> IF eventRow[e] = r THEN NoOne ELSE eventRow[e]]
  /\ bookingRow' = [b \in Bookings |-> IF bookingRow[b] = r THEN NoOne ELSE bookingRow[b]]

(* The server ends r's transaction without its writes.                     *)
RollsBack(r, state) ==
  /\ tx' = [tx EXCEPT ![r] = state]
  /\ writes' = [writes EXCEPT ![r] = {}]
  /\ FreeRows(r)

(* A statement fails on the server, which aborts the transaction.          *)
Abort(r, why) == RollsBack(r, "aborted") /\ Refuse(r, why)

(* What the two UPDATEs make of an event.                                  *)
Decremented(rec, n) == [rec EXCEPT !.remaining = @ - n, !.version = @ + 1]
Restored(rec, n) == [rec EXCEPT !.remaining = @ + n]

(* The server commits r's writes.                                          *)
Commits(r) ==
  /\ event' = [event EXCEPT ![EventOf(r)] =
       IF "tickets" \notin writes[r] THEN @
       ELSE IF r \in Bookings THEN Decremented(@, CountOf(r))
       ELSE Restored(@, CountOf(r))]
  /\ booking' = [booking EXCEPT ![BookingOf(r)] =
       IF "row" \notin writes[r] THEN @
       ELSE IF r \in Bookings
       THEN [user |-> UserOf(r), event |-> EventOf(r), count |-> CountOf(r),
             status |-> "confirmed"]
       ELSE [@ EXCEPT !.status = "cancelled"]]
  /\ audit' = IF "log" \in writes[r] THEN audit \cup {r} ELSE audit
  /\ tx' = [tx EXCEPT ![r] = "none"]
  /\ writes' = [writes EXCEPT ![r] = {}]
  /\ FreeRows(r)

-----------------------------------------------------------------------------
(* POST /bookings                                                          *)

ArriveBook(b) ==
  /\ pc[b] = "idle"
  /\ IF want[b].count = 0
     THEN Goto(b, "done") /\ Answer(b, "badCount")
     ELSE Goto(b, "acquire") /\ UNCHANGED resp
  /\ UNCHANGED <<want, target, tables, lock, rowLocks, writes, tx, seen>>

(* SET NX with a fresh token.                                              *)
AcquireLock(b) ==
  /\ pc[b] = "acquire"
  /\ \/ /\ lock[EventOf(b)] = NoOne
        /\ lock' = [lock EXCEPT ![EventOf(b)] = b]
        /\ Goto(b, "begin")
        /\ UNCHANGED resp
     \/ /\ lock[EventOf(b)] # NoOne
        /\ Goto(b, "done") /\ Answer(b, "busy")
        /\ UNCHANGED lock
  /\ UNCHANGED <<want, target, tables, rowLocks, writes, tx, seen>>

(* Redis fails: the SET NX is lost, or only its reply is, and go-redis     *)
(* perhaps repeats it and finds b's own key.  Nothing is deferred yet, so  *)
(* nobody releases the lock.                                               *)
AcquireLockFails(b) ==
  /\ pc[b] = "acquire"
  /\ \/ UNCHANGED lock /\ Answer(b, "error")
     \/ /\ lock[EventOf(b)] = NoOne
        /\ lock' = [lock EXCEPT ![EventOf(b)] = b]
        /\ Answer(b, "error") \/ Answer(b, "busy")
  /\ Goto(b, "done")
  /\ UNCHANGED <<want, target, tables, rowLocks, writes, tx, seen>>

(* BEGIN on a connection of the pool, for both requests.                   *)
Begin(r) ==
  /\ pc[r] = "begin"
  /\ ConnFree
  /\ tx' = [tx EXCEPT ![r] = "open"]
  /\ Goto(r, IF r \in Bookings THEN "select" ELSE "lockBooking")
  /\ UNCHANGED <<want, target, tables, lock, rowLocks, writes, seen, resp>>

NoStockCheck(e, n) == TRUE                \* a mutant: neither the check nor the CHECK
Covers(e, n) == event[e].remaining >= n

OnSale(e) == event[e].status = "published"

(* SELECT ... FOR UPDATE and the business checks on what it returned.  A   *)
(* deleted event is no row, and so locks none.                             *)
SelectForUpdate(b) ==
  LET e == EventOf(b) IN
  /\ pc[b] = "select"
  /\ EventRowFree(b, e)
  /\ \/ /\ event[e].deleted
        /\ Refuse(b, "notFound")
        /\ UNCHANGED <<eventRow, seen>>
     \/ /\ ~ event[e].deleted
        /\ LockEventRow(b, e)
        /\ seen' = [seen EXCEPT ![b] = event[e].version]
        /\ \/ ~ OnSale(e) /\ Refuse(b, "unavailable")
           \/ OnSale(e) /\ ~ Covers(e, CountOf(b)) /\ Refuse(b, "insufficient")
           \/ /\ OnSale(e) /\ Covers(e, CountOf(b))
              /\ Goto(b, "insert")
              /\ UNCHANGED resp
  /\ UNCHANGED <<want, target, tables, lock, bookingRow, writes, tx>>

(* The partial unique index on (user_id, event_id).  An entry that another *)
(* open transaction has inserted or deleted makes the INSERT wait for that *)
(* transaction's end.                                                      *)
SameEvent(b, r) == EventOf(r) = EventOf(b)     \* a mutant: the index on event_id alone
SameKey(b, r) == UserOf(r) = UserOf(b) /\ EventOf(r) = EventOf(b)
IndexBlockers(b) == {r \in Requests \ {b} : "row" \in writes[r] /\ SameKey(b, r)}

NoIndex(b) == FALSE                       \* a mutant: no unique index
Duplicate(b) ==
  \E a \in Bookings : /\ Active(a)
                      /\ booking[a].user = UserOf(b)
                      /\ booking[a].event = EventOf(b)

(* INSERT INTO bookings                                                    *)
CreateInTx(b) ==
  /\ pc[b] = "insert"
  /\ IndexBlockers(b) = {}
  /\ \/ /\ Duplicate(b)
        /\ Abort(b, "alreadyActive")
     \/ /\ ~ Duplicate(b)
        /\ writes' = [writes EXCEPT ![b] = @ \cup {"row"}]
        /\ Goto(b, "decrement")
        /\ UNCHANGED <<tx, rowLocks, resp>>
  /\ UNCHANGED <<want, target, tables, lock, seen>>

(* UPDATE events SET remaining_tickets = remaining_tickets - n, version =  *)
(* version + 1 WHERE version = $seen.                                      *)
UpdateTicketsInTx(b) ==
  LET e == EventOf(b) IN
  /\ pc[b] = "decrement"
  /\ EventRowFree(b, e)
  /\ \/ /\ event[e].version # seen[b] \/ event[e].deleted
        /\ Refuse(b, "versionConflict")
        /\ UNCHANGED <<tx, writes, rowLocks>>
     \/ /\ event[e].version = seen[b]
        /\ ~ event[e].deleted
        /\ \/ ~ Covers(e, CountOf(b)) /\ Abort(b, "ticketCheck")
           \/ /\ Covers(e, CountOf(b))
              /\ LockEventRow(b, e)
              /\ writes' = [writes EXCEPT ![b] = @ \cup {"tickets"}]
              /\ Goto(b, "log")
              /\ UNCHANGED <<tx, bookingRow, resp>>
  /\ UNCHANGED <<want, target, tables, lock, seen>>

LogOutsideTx(b) ==                        \* a mutant: audit.Log for audit.LogInTx
  /\ pc[b] = "log"
  /\ audit' = audit \cup {b}
  /\ Goto(b, "commit")
  /\ UNCHANGED <<want, target, event, booking, lock, rowLocks, writes, tx, seen, resp>>

LogOnPool(b) ==                           \* a mutant: a second connection for the log
  /\ pc[b] = "log"
  /\ ConnFree
  /\ writes' = [writes EXCEPT ![b] = @ \cup {"log"}]
  /\ Goto(b, "commit")
  /\ UNCHANGED <<want, target, tables, lock, rowLocks, tx, seen, resp>>

(* INSERT INTO audit_logs in the same transaction.  The error is ignored,  *)
(* but a statement that failed has aborted the transaction.                *)
LogInTx(b) ==
  /\ pc[b] = "log"
  /\ \/ writes' = [writes EXCEPT ![b] = @ \cup {"log"}] /\ UNCHANGED <<tx, rowLocks>>
     \/ RollsBack(b, "aborted")
  /\ Goto(b, "commit")
  /\ UNCHANGED <<want, target, tables, lock, seen, resp>>

(* COMMIT.  In an aborted transaction it rolls back and is an error.       *)
CommitBooking(b) ==
  /\ pc[b] = "commit"
  /\ \/ tx[b] = "open" /\ Commits(b) /\ Answer(b, "created")
     \/ tx[b] = "aborted" /\ RollsBack(b, "none") /\ Answer(b, "error") /\ UNCHANGED tables
  /\ Goto(b, "release")
  /\ UNCHANGED <<want, target, lock, seen>>

NoRollback(r) ==                          \* a mutant: the deferred Rollback is missing
  /\ pc[r] = "rollback"
  /\ Goto(r, Unwound(r))
  /\ UNCHANGED <<want, target, tables, lock, rowLocks, writes, tx, seen, resp>>

(* The deferred Rollback, for both requests.                               *)
Rollback(r) ==
  /\ pc[r] = "rollback"
  /\ RollsBack(r, "none")
  /\ Goto(r, Unwound(r))
  /\ UNCHANGED <<want, target, tables, lock, seen, resp>>

(* The deferred ReleaseLock: the script deletes the key if it still holds  *)
(* the caller's token.                                                     *)
AnyToken(b, e) == TRUE                    \* a mutant: DEL without comparing tokens
CanRelease(b, e) == lock[e] = b

ReleaseLock(b) ==
  LET e == EventOf(b) IN
  /\ pc[b] = "release"
  /\ lock' = [lock EXCEPT ![e] = IF CanRelease(b, e) THEN NoOne ELSE @]
  /\ Goto(b, "done")
  /\ UNCHANGED <<want, target, tables, rowLocks, writes, tx, seen, resp>>

(* Redis fails, or the request's context is done and the script is never   *)
(* sent; the error is ignored.                                             *)
ReleaseLockFails(b) ==
  /\ pc[b] = "release"
  /\ Goto(b, "done")
  /\ UNCHANGED <<want, target, tables, lock, rowLocks, writes, tx, seen, resp>>

-----------------------------------------------------------------------------
(* DELETE /bookings/{id}                                                   *)

ArriveCancel(c) ==
  /\ pc[c] = "idle"
  /\ Goto(c, "fetch")
  /\ UNCHANGED <<want, target, tables, lock, rowLocks, writes, tx, seen, resp>>

(* GetByID, outside any transaction, and the ownership check.              *)
Fetch(c) ==
  LET row == booking[target[c].booking] IN
  /\ pc[c] = "fetch"
  /\ ConnFree
  /\ \/ row = NoRow /\ Goto(c, "done") /\ Answer(c, "notFound")
     \/ /\ row # NoRow
        /\ row.user # UserOf(c)
        /\ Goto(c, "done") /\ Answer(c, "notOwner")
     \/ /\ row # NoRow
        /\ row.user = UserOf(c)
        /\ Goto(c, "begin") /\ UNCHANGED resp
  /\ UNCHANGED <<want, target, tables, lock, rowLocks, writes, tx, seen>>

(* SELECT ... FROM bookings WHERE id AND user_id FOR UPDATE, and the       *)
(* status check.  A row the WHERE clause misses is not locked.             *)
LockBooking(c) ==
  LET b == target[c].booking IN
  /\ pc[c] = "lockBooking"
  /\ BookingRowFree(c, b)
  /\ \/ /\ booking[b] = NoRow \/ booking[b].user # UserOf(c)
        /\ Refuse(c, "notFound")
        /\ UNCHANGED bookingRow
     \/ /\ booking[b] # NoRow /\ booking[b].user = UserOf(c)
        /\ bookingRow' = [bookingRow EXCEPT ![b] = c]
        /\ \/ Active(b) /\ Goto(c, "cancelRow") /\ UNCHANGED resp
           \/ ~ Active(b) /\ Refuse(c, "cannotCancel")
  /\ UNCHANGED <<want, target, tables, lock, eventRow, writes, tx, seen>>

(* UPDATE bookings SET status = 'cancelled'                                *)
CancelRow(c) ==
  /\ pc[c] = "cancelRow"
  /\ BookingRowFree(c, target[c].booking)
  /\ bookingRow' = [bookingRow EXCEPT ![target[c].booking] = c]
  /\ writes' = [writes EXCEPT ![c] = @ \cup {"row"}]
  /\ Goto(c, "restore")
  /\ UNCHANGED <<want, target, tables, lock, eventRow, tx, seen, resp>>

RestoreAtOnce(c) ==                       \* a mutant: the UPDATE outside the transaction
  LET e == EventOf(c) IN
  /\ pc[c] = "restore"
  /\ EventRowFree(c, e)
  /\ event[e].remaining + CountOf(c) <= event[e].total
  /\ event' = [event EXCEPT ![e].remaining = @ + CountOf(c)]
  /\ Goto(c, "commit")
  /\ UNCHANGED <<want, target, booking, audit, lock, rowLocks, writes, tx, seen, resp>>

(* UPDATE events SET remaining_tickets = remaining_tickets + n: no version *)
(* check and no deleted_at filter, but the table's CHECK.                  *)
RestoreTickets(c) ==
  LET e == EventOf(c) IN
  /\ pc[c] = "restore"
  /\ EventRowFree(c, e)
  /\ \/ /\ event[e].remaining + CountOf(c) > event[e].total
        /\ Abort(c, "ticketCheck")
     \/ /\ event[e].remaining + CountOf(c) <= event[e].total
        /\ LockEventRow(c, e)
        /\ writes' = [writes EXCEPT ![c] = @ \cup {"tickets"}]
        /\ Goto(c, "commit")
        /\ UNCHANGED <<tx, bookingRow, resp>>
  /\ UNCHANGED <<want, target, tables, lock, seen>>

CommitCancel(c) ==
  /\ pc[c] = "commit"
  /\ Commits(c)
  /\ Answer(c, "cancelled")
  /\ Goto(c, "audit")
  /\ UNCHANGED <<want, target, lock, seen>>

(* audit.Log on a connection of its own; its error is ignored.             *)
AuditLog(c) ==
  /\ pc[c] = "audit"
  /\ ConnFree
  /\ audit' \in {audit, audit \cup {c}}
  /\ Goto(c, "done")
  /\ UNCHANGED <<want, target, event, booking, lock, rowLocks, writes, tx, seen, resp>>

-----------------------------------------------------------------------------
(* What goes wrong around the requests.                                    *)

(* A call outside any transaction fails, or the request's context is done. *)
CallFails(r) ==
  /\ pc[r] \in {"fetch", "begin"}
  /\ Goto(r, IF pc[r] = "fetch" THEN "done" ELSE Unwound(r))
  /\ Answer(r, "error")
  /\ UNCHANGED <<want, target, tables, lock, rowLocks, writes, tx, seen>>

(* The connection of r's transaction breaks, or pgx closes it because the  *)
(* request's context is done.  The server finds out later.                 *)
InTx(r) == tx[r] \in {"open", "aborted"}
Orphaned(r) == IF pc[r] = "commit" /\ tx[r] = "open" THEN "inDoubt" ELSE "lost"

ConnectionLost(r) ==
  /\ InTx(r)
  /\ tx' = [tx EXCEPT ![r] = Orphaned(r)]
  /\ Goto(r, Unwound(r))
  /\ IF pc[r] = "rollback" THEN UNCHANGED resp ELSE Answer(r, "error")
  /\ UNCHANGED <<want, target, tables, lock, rowLocks, writes, seen>>

(* The process serving r dies: nothing deferred runs, nobody is answered.  *)
Crash(r) ==
  /\ pc[r] \notin {"idle", "done"}
  /\ tx' = [tx EXCEPT ![r] = IF InTx(r) THEN Orphaned(r) ELSE @]
  /\ Goto(r, "done") /\ Answer(r, "none")
  /\ UNCHANGED <<want, target, tables, lock, rowLocks, writes, seen>>

(* The server notices a client that is gone.                               *)
ServerRollsBack(r) ==
  /\ tx[r] \in {"lost", "inDoubt"}
  /\ RollsBack(r, "none")
  /\ UNCHANGED <<want, target, tables, lock, pc, seen, resp>>

(* The COMMIT of a client that is gone had arrived.                        *)
ServerCommits(r) ==
  /\ tx[r] = "inDoubt"
  /\ Commits(r)
  /\ UNCHANGED <<want, target, lock, pc, seen, resp>>

(* r's next statement waits for s's transaction.                           *)
WaitsFor(r, s) ==
  /\ tx[r] = "open" /\ r # s
  /\ \/ pc[r] \in {"select", "decrement", "restore"} /\ eventRow[EventOf(r)] = s
     \/ pc[r] = "insert" /\ s \in IndexBlockers(r)
     \/ pc[r] \in {"lockBooking", "cancelRow"} /\ bookingRow[BookingOf(r)] = s

(* Postgres's deadlock detector picks a victim.                            *)
Deadlocked(r) == \E s \in Requests : WaitsFor(r, s) /\ WaitsFor(s, r)

DeadlockAbort(r) ==
  /\ Deadlocked(r)
  /\ Abort(r, "error")
  /\ UNCHANGED <<want, target, tables, lock, seen>>

(* The lock's 5 s TTL runs out, however far its holder is; or Redis, which *)
(* persists nothing, restarts.                                             *)
NoTTL(e) == FALSE                         \* a mutant: SET NX without PX
Expires(e) == lock[e] # NoOne

LockExpires(e) ==
  /\ Expires(e)
  /\ lock' = [lock EXCEPT ![e] = NoOne]
  /\ UNCHANGED <<want, target, tables, rowLocks, writes, tx, pc, seen, resp>>

(* Every request has ended and nothing is left behind.                     *)
Quiescent ==
  /\ \A r \in Requests : pc[r] = "done" /\ tx[r] = "none"
  /\ \A e \in Events : lock[e] = NoOne
  /\ UNCHANGED vars

-----------------------------------------------------------------------------
(* The code's own steps, once the request has arrived.                     *)
BookStep(b) ==
  \/ AcquireLock(b) \/ AcquireLockFails(b) \/ SelectForUpdate(b) \/ CreateInTx(b)
  \/ UpdateTicketsInTx(b) \/ LogInTx(b) \/ CommitBooking(b)
  \/ ReleaseLock(b) \/ ReleaseLockFails(b)

CancelStep(c) ==
  \/ Fetch(c) \/ LockBooking(c) \/ CancelRow(c) \/ RestoreTickets(c)
  \/ CommitCancel(c) \/ AuditLog(c)

SharedStep(r) == Begin(r) \/ Rollback(r)

(* What Postgres does of its own accord.                                   *)
ServerStep(r) == ServerRollsBack(r) \/ ServerCommits(r) \/ DeadlockAbort(r)

Fault(r) == CallFails(r) \/ ConnectionLost(r) \/ Crash(r)

Next ==
  \/ \E b \in Bookings : ArriveBook(b) \/ BookStep(b)
  \/ \E c \in Cancels : ArriveCancel(c) \/ CancelStep(c)
  \/ \E r \in Requests : SharedStep(r) \/ ServerStep(r) \/ Fault(r)
  \/ \E e \in Events : LockExpires(e)
  \/ Quiescent

Spec == Init /\ [][Next]_vars

(* A handler keeps running, Postgres finds broken connections and          *)
(* deadlocks, Redis expires keys.  Nothing makes a client call, and        *)
(* nothing makes a fault happen or stay away.                              *)
Fairness ==
  /\ \A b \in Bookings : WF_vars(BookStep(b))
  /\ \A c \in Cancels : WF_vars(CancelStep(c))
  /\ \A r \in Requests : WF_vars(SharedStep(r)) /\ WF_vars(ServerStep(r))
  /\ \A e \in Events : WF_vars(LockExpires(e))

FairSpec == Spec /\ Fairness

-----------------------------------------------------------------------------
(* The tables as the atomic ledger sees them.                              *)
Stock == [e \in Events |->
            [total |-> event[e].total, remaining |-> event[e].remaining,
             onSale |-> event[e].status = "published" /\ ~ event[e].deleted]]

Ledger == INSTANCE TicketLedger WITH stock <- Stock

(* The code's interleaved statements implement the ledger: whatever the    *)
(* requests do, the committed tables only ever change by one whole booking *)
(* or one whole cancellation.                                              *)
RefinesLedger == Ledger!Spec

(* Remaining tickets plus those of active bookings make an event's total,  *)
(* in every committed state (events_remaining_valid alone allows a leak).  *)
Conservation == Ledger!Conservation

(* A user has at most one active booking of an event, although the INSERT  *)
(* races cancellations of the same user's earlier booking.                 *)
OneActivePerUser == Ledger!OneActivePerUser

(* From SELECT ... FOR UPDATE to COMMIT, what a booking request checked    *)
(* stays true of the committed event: the optimistic version check of      *)
(* UpdateTicketsInTx can never be what saves it.                           *)
InCriticalSection(b) ==
  pc[b] \in {"insert", "decrement", "log", "commit"} /\ tx[b] = "open"

SnapshotHolds ==
  \A b \in Bookings : InCriticalSection(b) =>
    LET e == event[EventOf(b)] IN
    /\ e.version = seen[b]
    /\ e.remaining >= CountOf(b)
    /\ e.status = "published" /\ ~ e.deleted

(* What a client was told is true: 201 means the row is there, a definite  *)
(* refusal that it is not and cannot appear later from a commit in doubt.  *)
(* A 200 on cancel means the booking is cancelled, and only one request    *)
(* is ever told so; "cannot be cancelled" means it has been.               *)
AnswersAreTrue ==
  /\ \A b \in Bookings :
       /\ resp[b] = "created" => booking[b] # NoRow
       /\ resp[b] \in Rejections => booking[b] = NoRow /\ tx[b] # "inDoubt"
  /\ \A c \in Cancels :
       resp[c] \in {"cancelled", "cannotCancel"} => ~ Active(target[c].booking)
  /\ \A c, d \in Cancels :
       /\ resp[c] = "cancelled" /\ resp[d] = "cancelled"
       /\ target[c].booking = target[d].booking
       => c = d

(* The audit log tells no lie about bookings: every booking that exists    *)
(* has its create entry, no entry is for a booking that was rolled back,   *)
(* and a cancel entry is for a booking that is cancelled.                  *)
AuditIsTrue ==
  /\ \A b \in Bookings : b \in audit <=> booking[b] # NoRow
  /\ \A c \in Cancels : c \in audit => /\ booking[target[c].booking] # NoRow
                                       /\ ~ Active(target[c].booking)

(* r cannot go on before a request of S does: it waits for a row or an     *)
(* index entry, for a connection of a pool that S has used up, or for an   *)
(* end of its transaction that nobody is left to order.                    *)
NeedsConn(r) == pc[r] \in {"fetch", "begin", "audit"}

Stuck(r, S) ==
  \/ \E s \in S : WaitsFor(r, s)
  \/ NeedsConn(r) /\ ~ ConnFree /\ \A s \in Requests : InTx(s) => s \in S
  \/ pc[r] = "done" /\ InTx(r)

(* Bookings lock the event before the user's index entry, cancellations    *)
(* the booking before the event, and both use one connection at a time.    *)
(* Whenever requests are stuck with nobody outside to help them, one       *)
(* user's booking and the same user's cancellation wait for one another,   *)
(* which Postgres sees: neither the pool nor another user can be part of   *)
(* the cause.                                                              *)
DeadlocksAreSelfInflicted ==
  \A S \in (SUBSET Requests) \ {{}} :
    (\A r \in S : Stuck(r, S)) =>
      \E b \in S \cap Bookings, c \in S \cap Cancels :
        WaitsFor(b, c) /\ WaitsFor(c, b) /\ UserOf(b) = UserOf(c)

(* Nobody's release frees another's Redis lock, even if the TTL ran out    *)
(* and the lock was taken again: a lock leaves its holder only by the      *)
(* holder's own step or by a step that moves no request at all.            *)
OnlyHolderReleases ==
  [][\A e \in Events, b \in Bookings :
       lock[e] = b /\ lock'[e] # b =>
         lock'[e] = NoOne /\ (pc'[b] # pc[b] \/ pc' = pc)]_vars

(* A request that has begun ends: no deadlock of row locks, of the unique  *)
(* index or of the connection pool keeps it for ever.                      *)
EveryRequestEnds ==
  \A r \in Requests : pc[r] # "idle" ~> pc[r] = "done"

(* No row lock outlives its request for ever, whatever happened to it.     *)
RowLocksAreFreed ==
  \A r \in Requests :
    /\ \A e \in Events : eventRow[e] = r ~> eventRow[e] # r
    /\ \A b \in Bookings : bookingRow[b] = r ~> bookingRow[b] # r

(* A Redis lock is always given up in the end, after a crash too.          *)
RedisLocksAreFreed ==
  \A e \in Events, b \in Bookings : lock[e] = b ~> lock[e] # b

-----------------------------------------------------------------------------
(* What the documentation says and the code does not do.                   *)

(* "Every create/update/delete on events and bookings is recorded": a      *)
(* cancellation that has been answered with 200 has its audit entry.       *)
CancellationAudited ==
  \A c \in Cancels : resp[c] = "cancelled" /\ pc[c] = "done" => c \in audit
=============================================================================
