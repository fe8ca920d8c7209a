----------------------------- MODULE EventAdmin -----------------------------
(***************************************************************************)
(* The administrators' side of the API: creating events (one or a batch),  *)
(* updating them under the optimistic version lock, soft-deleting them,    *)
(* and the audit entries written after each of these, while users book and *)
(* cancel.                                                                 *)
(*                                                                         *)
(* An administrator's request reads, writes and logs in separate           *)
(* statements without a transaction, so every statement is an action.      *)
(* Bookings and cancellations are indivisible here: BookingFlow shows that *)
(* they are, and the UPDATE of an event waits for the row lock they hold.  *)
(***************************************************************************)
EXTENDS Naturals, Sequences, FiniteSets

CONSTANTS
  Users,        \* the accounts that book
  Events,       \* the ids the rows of table events may get
  Bookings,     \* the ids the rows of table bookings may get
  Creates,      \* requests: POST /events and POST /events/batch
  Updates,      \* requests: PUT /events/{id}
  Deletes,      \* requests: DELETE /events/{id}
  MaxTickets,   \* bound on total_tickets
  MaxBatch,     \* the most events a batch may have (50)
  MaxVersion,   \* bound on the version a PUT sends
  NoRow         \* the value of an id that has no row, and of a state not logged

Admins == Creates \cup Updates \cup Deletes

(* published: on sale; draft: the other three values of the enum.          *)
Statuses == {"draft", "published"}

(* events_remaining_valid is part of the type.                             *)
EventRows ==
  {row \in [total : 1..MaxTickets, remaining : 0..MaxTickets, status : Statuses,
            deleted : BOOLEAN, version : Nat \ {0}] :
     row.remaining <= row.total}

BookingRows == [user : Users, event : Events, count : 1..MaxTickets,
                status : {"confirmed", "cancelled"}]

(* What a client asks an event to be.  Total 0 stands for everything the   *)
(* validation refuses, "bogus" for a status that is not in the enum, which *)
(* only Postgres refuses, and "" for a status left out.                    *)
Specs == [total : 0..MaxTickets, status : Statuses \cup {"", "bogus"}]

(* The body of a PUT.  Its version is whatever the client sends; 0 stands  *)
(* for a missing one and for everything else that is not positive.         *)
Edits == [event : Events, spec : Specs, version : 0..MaxVersion]

Batches == UNION {[1..n -> Specs] : n \in 0 .. MaxBatch + 1}

Entries == [by : Admins, event : Events, old : EventRows \cup {NoRow},
            new : EventRows \cup {NoRow}]

ASSUME AdminAssumption ==
  /\ IsFiniteSet(Bookings)
  /\ Creates \cap Updates = {} /\ Creates \cap Deletes = {} /\ Updates \cap Deletes = {}
  /\ Bookings \cap Admins = {}
  /\ MaxTickets \in Nat
  /\ MaxBatch \in Nat \ {0}
  /\ MaxVersion \in Nat
  /\ NoRow \notin EventRows /\ NoRow \notin BookingRows

VARIABLES
  asked,        \* create request -> the events it asks for
  edit,         \* update request -> its event, what it is to be, the version sent
  victim,       \* delete request -> its event
  event,        \* table events
  booking,      \* table bookings
  trail,        \* table audit_logs: the entries about events
  base,         \* update request -> the row its client saw (GET) and whose
                \*   version it sends; NoRow: it made the version up
  old,          \* update or delete request -> the row its GetByID returned
  todo,         \* request -> the audit entries it has yet to write
  pc,           \* request -> the call it makes next
  resp,         \* request or booking -> the answer to it
  made          \* history: event -> the total it was created with

inputs == <<asked, edit, victim>>
vars == <<inputs, event, booking, trail, base, old, todo, pc, resp, made>>

TypeOK ==
  /\ asked \in [Creates -> Batches]
  /\ edit \in [Updates -> Edits]
  /\ victim \in [Deletes -> Events]
  /\ event \in [Events -> EventRows \cup {NoRow}]
  /\ booking \in [Bookings -> BookingRows \cup {NoRow}]
  /\ trail \in SUBSET Entries
  /\ base \in [Updates -> EventRows \cup {NoRow}]
  /\ old \in [Updates \cup Deletes -> EventRows \cup {NoRow}]
  /\ todo \in [Admins -> SUBSET Entries]
  /\ pc \in [Admins -> {"idle", "write", "log", "done"}]
  /\ resp \in [Admins \cup Bookings -> {"none", "ok", "error", "badInput", "notFound",
                                        "conflict", "created", "cancelled", "ticketCheck"}]
  /\ made \in [Events -> 0..MaxTickets]

(* The tables may hold events nobody has touched yet.                      *)
Fresh(n, status) == [total |-> n, remaining |-> n, status |-> status,
                     deleted |-> FALSE, version |-> 1]

Init ==
  /\ asked \in [Creates -> Batches]
  /\ edit \in [Updates -> Edits]
  /\ victim \in [Deletes -> Events]
  /\ event \in [Events -> {Fresh(n, s) : n \in 1..MaxTickets, s \in Statuses} \cup {NoRow}]
  /\ booking = [b \in Bookings |-> NoRow]
  /\ trail = {}
  /\ base = [u \in Updates |-> NoRow]
  /\ old = [r \in Updates \cup Deletes |-> NoRow]
  /\ todo = [r \in Admins |-> {}]
  /\ pc = [r \in Admins |-> "idle"]
  /\ resp = [r \in Admins \cup Bookings |-> "none"]
  /\ made = [e \in Events |-> IF event[e] = NoRow THEN 0 ELSE event[e].total]

-----------------------------------------------------------------------------
Goto(r, step) == pc' = [pc EXCEPT ![r] = step]
Answer(r, a) == resp' = [resp EXCEPT ![r] = a]
Finish(r, a) == Goto(r, "done") /\ Answer(r, a)

EventOf(r) == IF r \in Updates THEN edit[r].event ELSE victim[r]

(* WHERE deleted_at IS NULL                                                *)
Exists(e) == event[e] # NoRow /\ ~ event[e].deleted

(* The write is done and its audit entries are next.                       *)
ThenLog(r, entries) ==
  /\ todo' = [todo EXCEPT ![r] = entries]
  /\ Goto(r, "log")
  /\ UNCHANGED resp

Entry(r, e, before, after) == [by |-> r, event |-> e, old |-> before, new |-> after]

-----------------------------------------------------------------------------
(* POST /events is a batch of one.                                         *)

Refused(c) ==
  \/ Len(asked[c]) \notin 1..MaxBatch
  \/ \E i \in DOMAIN asked[c] : asked[c][i].total = 0

(* Without a status the event is a draft.                                  *)
RowFor(spec) == Fresh(spec.total, IF spec.status = "" THEN "draft" ELSE spec.status)

InsertsFirst(c, id) ==          \* a mutant: what is logged is not what is created
  /\ event' = [event EXCEPT ![id[1]] = RowFor(asked[c][1])]
  /\ made' = [made EXCEPT ![id[1]] = asked[c][1].total]

(* The INSERTs of a batch are one implicit transaction: c's events get     *)
(* fresh ids, all of them or none.                                         *)
Inserts(c, id) ==
  /\ event' = [e \in Events |->
       IF \E i \in DOMAIN id : id[i] = e
       THEN RowFor(asked[c][CHOOSE i \in DOMAIN id : id[i] = e]) ELSE event[e]]
  /\ made' = [e \in Events |->
       IF \E i \in DOMAIN id : id[i] = e
       THEN asked[c][CHOOSE i \in DOMAIN id : id[i] = e].total ELSE made[e]]

FreshIds(c) ==
  {id \in [DOMAIN asked[c] -> {e \in Events : event[e] = NoRow}] :
     \A i, j \in DOMAIN asked[c] : id[i] = id[j] => i = j}

InEnum(c) == \A i \in DOMAIN asked[c] : asked[c][i].status # "bogus"

Create(c) ==
  /\ pc[c] = "idle"
  /\ \/ Refused(c) /\ Finish(c, "badInput") /\ UNCHANGED <<event, made, todo>>
     \/ /\ ~ Refused(c) /\ ~ InEnum(c)
        /\ Finish(c, "error")
        /\ UNCHANGED <<event, made, todo>>
     \/ /\ ~ Refused(c) /\ InEnum(c)
        /\ \E id \in FreshIds(c) :
             /\ Inserts(c, id)
             /\ ThenLog(c, {Entry(c, id[i], NoRow, RowFor(asked[c][i])) : i \in DOMAIN id})
  /\ UNCHANGED <<inputs, booking, trail, base, old>>

(* The connection breaks: nothing is inserted, or only the answer is lost. *)
CreateFails(c) ==
  /\ pc[c] = "idle" /\ ~ Refused(c)
  /\ \/ UNCHANGED <<event, made>>
     \/ InEnum(c) /\ \E id \in FreshIds(c) : Inserts(c, id)
  /\ Finish(c, "error")
  /\ UNCHANGED <<inputs, booking, trail, base, old, todo>>

-----------------------------------------------------------------------------
(* PUT /events/{id}                                                        *)

(* The client fetches the event and finds the version it then sends.  It   *)
(* need not: any version may be in the body.                               *)
ClientGets(u) ==
  /\ pc[u] = "idle" /\ base[u] = NoRow
  /\ Exists(EventOf(u)) /\ event[EventOf(u)].version = edit[u].version
  /\ base' = [base EXCEPT ![u] = event[EventOf(u)]]
  /\ UNCHANGED <<inputs, event, booking, trail, old, todo, pc, resp, made>>

(* GetByID, for updates and deletes, then validateUpdateEvent.             *)
ReadOld(r) ==
  LET e == EventOf(r)
      Valid == r \in Updates => edit[r].version > 0 /\ edit[r].spec.total > 0
  IN
  /\ pc[r] = "idle"
  /\ \/ ~ Exists(e) /\ Finish(r, "notFound") /\ UNCHANGED old
     \/ Exists(e) /\ ~ Valid /\ Finish(r, "badInput") /\ UNCHANGED old
     \/ /\ Exists(e) /\ Valid
        /\ old' = [old EXCEPT ![r] = event[e]]
        /\ Goto(r, "write")
        /\ UNCHANGED resp
  /\ UNCHANGED <<inputs, event, booking, trail, base, todo, made>>

AnyVersion(u) == Exists(EventOf(u))           \* a mutant: no version in the WHERE
DeletedToo(u) ==                              \* a mutant: no deleted_at in the WHERE
  event[EventOf(u)].version = edit[u].version
Matches(u) ==
  Exists(EventOf(u)) /\ event[EventOf(u)].version = edit[u].version

(* The CHECK on remaining_tickets, and the enum.                           *)
OnlyEnum(u) == edit[u].spec.status \in Statuses    \* a mutant: no CHECK
Storable(u) ==
  /\ edit[u].spec.status \in Statuses
  /\ old[u].remaining <= edit[u].spec.total

KeepsVersion(row, u) ==                       \* a mutant: SET without the version
  [row EXCEPT !.total = edit[u].spec.total, !.status = edit[u].spec.status,
              !.remaining = old[u].remaining]

(* remaining_tickets is written back as it was read.                       *)
Written(row, u) ==
  [row EXCEPT !.total = edit[u].spec.total, !.status = edit[u].spec.status,
              !.remaining = old[u].remaining, !.version = @ + 1]

Writes(u) ==
  /\ Matches(u) /\ Storable(u)
  /\ event' = [event EXCEPT ![EventOf(u)] = Written(event[EventOf(u)], u)]

WriteUpdate(u) ==
  LET e == EventOf(u) IN
  /\ pc[u] = "write"
  /\ \/ /\ Writes(u)
        /\ ThenLog(u, {Entry(u, e, old[u], event'[e])})
     \/ /\ edit[u].spec.status \in Statuses /\ ~ Matches(u)
        /\ Finish(u, "conflict")
        /\ UNCHANGED <<event, todo>>
     \/ /\ \/ edit[u].spec.status \notin Statuses
           \/ Matches(u) /\ ~ Storable(u)
        /\ Finish(u, "error")
        /\ UNCHANGED <<event, todo>>
  /\ UNCHANGED <<inputs, booking, trail, base, old, made>>

(* The connection breaks: before the UPDATE, or after it.                  *)
WriteUpdateFails(u) ==
  /\ pc[u] = "write"
  /\ Writes(u) \/ UNCHANGED event
  /\ Finish(u, "error")
  /\ UNCHANGED <<inputs, booking, trail, base, old, todo, made>>

-----------------------------------------------------------------------------
(* DELETE /events/{id}                                                     *)

SoftDeletes(d) ==
  /\ Exists(EventOf(d))
  /\ event' = [event EXCEPT ![EventOf(d)].deleted = TRUE]

WriteDelete(d) ==
  /\ pc[d] = "write"
  /\ \/ /\ SoftDeletes(d)
        /\ ThenLog(d, {Entry(d, EventOf(d), old[d], NoRow)})
     \/ /\ ~ Exists(EventOf(d))
        /\ Finish(d, "notFound")
        /\ UNCHANGED <<event, todo>>
  /\ UNCHANGED <<inputs, booking, trail, base, old, made>>

WriteDeleteFails(d) ==
  /\ pc[d] = "write"
  /\ SoftDeletes(d) \/ UNCHANGED event
  /\ Finish(d, "error")
  /\ UNCHANGED <<inputs, booking, trail, base, old, todo, made>>

-----------------------------------------------------------------------------
(* For all requests: the entries go in one INSERT each, whose errors are   *)
(* ignored.  The order within a batch does not matter to anyone.           *)
AuditLog(r) ==
  /\ pc[r] = "log"
  /\ \E x \in todo[r] :
       /\ trail' \in {trail, trail \cup {x}}
       /\ todo' = [todo EXCEPT ![r] = @ \ {x}]
  /\ IF todo'[r] = {} THEN Finish(r, "ok") ELSE UNCHANGED <<pc, resp>>
  /\ UNCHANGED <<inputs, event, booking, base, old, made>>

(* GetByID fails.                                                          *)
ReadFails(r) ==
  /\ pc[r] = "idle"
  /\ Finish(r, "error")
  /\ UNCHANGED <<inputs, event, booking, trail, base, old, todo, made>>

(* The process serving r dies.  Its client's connection breaks, which      *)
(* tells it as much as an error.                                           *)
Crash(r) ==
  /\ pc[r] \in {"write", "log"}
  /\ Finish(r, "error")
  /\ UNCHANGED <<inputs, event, booking, trail, base, old, todo, made>>

-----------------------------------------------------------------------------
(* Users, as TicketLedger has them, on the rows administrators write.      *)

Active(b) == booking[b] # NoRow /\ booking[b].status = "confirmed"

SellsUnseen(row, n) == [row EXCEPT !.remaining = @ - n]   \* a mutant: no version
Sells(row, n) == [row EXCEPT !.remaining = @ - n, !.version = @ + 1]

Book(b, u, e, n) ==
  /\ booking[b] = NoRow
  /\ Exists(e) /\ event[e].status = "published" /\ event[e].remaining >= n
  /\ ~ \E c \in Bookings : Active(c) /\ booking[c].user = u /\ booking[c].event = e
  /\ event' = [event EXCEPT ![e] = Sells(event[e], n)]
  /\ booking' = [booking EXCEPT ![b] =
                   [user |-> u, event |-> e, count |-> n, status |-> "confirmed"]]
  /\ Answer(b, "created")
  /\ UNCHANGED <<inputs, trail, base, old, todo, pc, made>>

(* Neither the version nor deleted_at matters, but the CHECK does.         *)
Cancel(b) ==
  LET e == booking[b].event
      n == booking[b].count
  IN
  /\ Active(b)
  /\ \/ /\ event[e].remaining + n <= event[e].total
        /\ event' = [event EXCEPT ![e].remaining = @ + n]
        /\ booking' = [booking EXCEPT ![b].status = "cancelled"]
        /\ Answer(b, "cancelled")
     \/ /\ event[e].remaining + n > event[e].total
        /\ Answer(b, "ticketCheck")
        /\ UNCHANGED <<event, booking>>
  /\ UNCHANGED <<inputs, trail, base, old, todo, pc, made>>

-----------------------------------------------------------------------------
Next ==
  \/ \E c \in Creates : Create(c) \/ CreateFails(c)
  \/ \E u \in Updates : ClientGets(u) \/ WriteUpdate(u) \/ WriteUpdateFails(u)
  \/ \E d \in Deletes : WriteDelete(d) \/ WriteDeleteFails(d)
  \/ \E r \in Updates \cup Deletes : ReadOld(r) \/ ReadFails(r)
  \/ \E r \in Admins : AuditLog(r) \/ Crash(r)
  \/ \E b \in Bookings, u \in Users, e \in Events, n \in 1..MaxTickets : Book(b, u, e, n)
  \/ \E b \in Bookings : Cancel(b)

Spec == Init /\ [][Next]_vars

-----------------------------------------------------------------------------
(* The tickets sold for e, counted as TicketLedger counts them.            *)
Ledger == INSTANCE TicketLedger WITH stock <- event

(* For sale and sold together.                                             *)
Tickets(e) == event[e].remaining + Ledger!Sold(e)

(* u sends a version that its service's read had not reached: its client   *)
(* made it up.                                                             *)
Ahead(u) == old[u] # NoRow /\ edit[u].version > old[u].version

(* However updates, which write back a count read earlier, race bookings   *)
(* and cancellations: never more tickets for sale or sold than the event   *)
(* was created with, as long as no PUT is ahead of the event.  Stale and   *)
(* made-up versions that the event has reached do no harm.                 *)
NeverOversold ==
  \A e \in Events :
    event[e] # NoRow /\ (\A u \in Updates : EventOf(u) = e => ~ Ahead(u)) =>
      Tickets(e) <= made[e]

(* Only a PUT ever parts the tickets for sale and sold from their sum, and *)
(* only by writing back a stale count in one of two ways.  Its service     *)
(* read the event at the version it has now, before a cancellation gave    *)
(* some back.  Or it sent a version the event reached only after that      *)
(* read, which nobody can have seen before sending it.                     *)
OnlyStaleUpdatesMiscount ==
  [][\A e \in Events :
       event[e] # NoRow /\ Tickets(e)' # Tickets(e) =>
         \E u \in Updates :
           /\ EventOf(u) = e /\ pc[u] = "write"
           /\ edit[u].version = event[e].version
           /\ \/ /\ old[u].version = event[e].version
                 /\ old[u].remaining < event[e].remaining
              \/ Ahead(u) /\ base[u] = NoRow]_vars

(* An update that succeeds meets the version it was sent with, and if its  *)
(* author saw that version it replaces exactly the state the author saw:   *)
(* no other edit, booking or deletion came between the GET and the UPDATE. *)
UpdatesAreSeen ==
  [][\A u \in Updates :
       LET e == EventOf(u) IN
       pc[u] = "write" /\ pc'[u] # "write" /\ event'[e] # event[e] =>
         /\ ~ event[e].deleted
         /\ event[e].version = edit[u].version
         /\ base[u] # NoRow =>
              event[e].total = base[u].total /\ event[e].status = base[u].status]_vars

(* Once deleted, an event only ever takes back the tickets of cancelled    *)
(* bookings, although updates and bookings that read it before go on.      *)
DeletedIsFinal ==
  [][\A e \in Events : event[e] # NoRow /\ event[e].deleted =>
       \E n \in event[e].remaining..event[e].total :
         event'[e] = [event[e] EXCEPT !.remaining = n]]_vars

(* The audit trail tells a possible history: each update's entry ends at   *)
(* the version after the one it was sent with, and starts no later than    *)
(* that one, at just that one if its author saw it; no version is claimed  *)
(* twice, entries that meet at a version agree on the edited fields, and   *)
(* an event is deleted at most once and only if it is.  Entries may be     *)
(* missing, and old states may be stale in remaining_tickets.              *)
AuditIsTrue ==
  /\ \A x \in trail :
       /\ event[x.event] # NoRow
       /\ x.by \in Updates => /\ x.new.version = edit[x.by].version + 1
                              /\ x.new.version <= event[x.event].version
                              /\ x.old.version <= edit[x.by].version
                              /\ base[x.by] # NoRow => x.old.version = edit[x.by].version
       /\ x.by \in Deletes => event[x.event].deleted
  /\ \A x, y \in trail : x.event = y.event /\ x # y =>
       /\ x.by \in Deletes => y.by \notin Deletes
       /\ x.by \in Creates => y.by \notin Creates
       /\ x.by \in Updates /\ y.by \in Updates => x.new.version # y.new.version
       /\ x.by \notin Deletes /\ y.by \notin Creates /\ x.new.version = y.old.version =>
            x.new.total = y.old.total /\ x.new.status = y.old.status

(* The fields in which two logged states differ, with both values.         *)
Fields(row) == IF row = NoRow THEN {} ELSE DOMAIN row

ComputeDiff(before, after) ==
  [f \in {f \in Fields(before) \cup Fields(after) :
            f \in Fields(before) \cap Fields(after) => before[f] # after[f]} |->
     [old |-> IF f \in Fields(before) THEN before[f] ELSE NoRow,
      new |-> IF f \in Fields(after) THEN after[f] ELSE NoRow]]

(* The diff of an update's audit entry is what its author did: exactly the *)
(* fields asked to be other than what the client had seen, from what it    *)
(* had seen to what it asked for, and the version; never a change that     *)
(* came between the client's GET and the service's own read.  (Of a client *)
(* that sent a version it had not seen, nobody knows what it meant.)       *)
DiffsAreTrue ==
  \A x \in trail : x.by \in Updates /\ base[x.by] # NoRow =>
    LET diff == ComputeDiff(x.old, x.new)
        saw == base[x.by]
        asks == edit[x.by].spec
    IN
    /\ DOMAIN diff = {"version"} \cup {f \in {"total", "status"} : asks[f] # saw[f]}
    /\ \A f \in DOMAIN diff \ {"version"} : diff[f] = [old |-> saw[f], new |-> asks[f]]

-----------------------------------------------------------------------------
(* What the documentation says and the code does not do.                   *)

(* "Cancellation automatically restores ticket inventory."                 *)
CancellationRestores ==
  \A e \in Events : event[e] # NoRow => Tickets(e) >= made[e]

(* "Optimistic locking - concurrent updates detected": an update takes     *)
(* effect only if no booking or edit came since its service read the row.  *)
RacesAreDetected ==
  [][\A u \in Updates :
       LET e == EventOf(u) IN
       pc[u] = "write" /\ pc'[u] # "write" /\ event'[e] # event[e] =>
         event[e].version = old[u].version]_vars

=============================================================================
