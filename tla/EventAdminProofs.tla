-------------------------- MODULE EventAdminProofs ---------------------------
(***************************************************************************)
(* TLAPS proofs of EventAdmin's safety properties, for any sets of users,  *)
(* events, bookings and requests and any bounds.                           *)
(***************************************************************************)
EXTENDS EventAdmin, FiniteSetTheorems, TLAPS

(* x is in the audit log or about to be written there.                     *)
Logged(x) == x \in trail \/ \E r \in Admins : x \in todo[r]

(* Somebody has read or recorded row as a state of event e, or it is now.  *)
Known(e, row) ==
  \/ row = event[e]
  \/ \E u \in Updates : EventOf(u) = e /\ row = base[u]
  \/ \E r \in Updates \cup Deletes : EventOf(r) = e /\ row = old[r]
  \/ \E x \in Entries : Logged(x) /\ x.event = e /\ (row = x.old \/ row = x.new)

(* Versions identify what administrators edit, and the table has the last. *)
Coherent ==
  \A e \in Events :
    /\ \A s \in EventRows : Known(e, s) =>
         event[e] # NoRow /\ s.version <= event[e].version
    /\ \A s, t \in EventRows : Known(e, s) /\ Known(e, t) /\ s.version = t.version =>
         s.total = t.total /\ s.status = t.status

(* A request reads once, and has read when it is about to write; while the *)
(* version it read stands, tickets can only have come back since.          *)
Pending ==
  \A r \in Updates \cup Deletes :
    /\ pc[r] = "idle" => old[r] = NoRow
    /\ pc[r] = "write" =>
         /\ old[r] # NoRow
         /\ event[EventOf(r)] # NoRow
         /\ r \in Updates => edit[r].spec.total > 0
         /\ old[r].version = event[EventOf(r)].version =>
              old[r].remaining <= event[EventOf(r)].remaining

(* A client that saw the version it sends saw it before the service read.  *)
Seen ==
  \A u \in Updates : base[u] # NoRow =>
    /\ base[u].version = edit[u].version
    /\ old[u] # NoRow => base[u].version <= old[u].version

(* The versions an update's entry spans: to the one after the version sent *)
(* and from no later than that, or from just that if the client saw it.    *)
Spans(x) ==
  /\ x.old # NoRow /\ x.new # NoRow
  /\ x.new.version = edit[x.by].version + 1
  /\ x.old.version <= edit[x.by].version
  /\ base[x.by] # NoRow => x.old.version = edit[x.by].version

(* Entries come from requests that have written, one write each.           *)
Authored ==
  \A x \in Entries : Logged(x) =>
    /\ pc[x.by] \in {"log", "done"}
    /\ event[x.event] # NoRow
    /\ x.by \in Creates => x.old = NoRow /\ x.new # NoRow
    /\ x.by \in Updates => Spans(x)
    /\ x.by \in Deletes => x.old # NoRow /\ x.new = NoRow /\ event[x.event].deleted

OwnEntries == \A r \in Admins : \A x \in todo[r] : x.by = r

Distinct ==
  \A x, y \in Entries : Logged(x) /\ Logged(y) /\ x.event = y.event /\ x # y =>
    /\ x.by \in Deletes => y.by \notin Deletes
    /\ x.by \in Creates => y.by \notin Creates
    /\ x.by \in Updates /\ y.by \in Updates => x.new.version # y.new.version

(* Tickets for sale and sold, against the total at the start.              *)
Left(e) == IF event[e] = NoRow THEN 0 ELSE event[e].remaining

(* No update of e sends a version that its service's read had not reached. *)
Honest(e) == \A u \in Updates : EventOf(u) = e => ~ Ahead(u)

Balanced ==
  \A e \in Events :
    /\ Honest(e) => Left(e) + Ledger!Sold(e) <= made[e]
    /\ event[e] = NoRow => made[e] = 0 /\ Ledger!Sold(e) = 0

IInv == TypeOK /\ Coherent /\ Pending /\ Seen /\ Authored /\ OwnEntries /\ Distinct /\ Balanced

-----------------------------------------------------------------------------
(* The ledger's lemmas on seats, over this module's bookings.              *)
LedgerFacts == INSTANCE TicketLedgerProofs WITH stock <- event

(* The parameters suit the ledger.                                         *)
LEMMA LedgerParameters == LedgerFacts!LedgerAssumption
BY AdminAssumption DEF LedgerFacts!LedgerAssumption, LedgerFacts!Rows,
   LedgerFacts!Statuses, BookingRows, IsFiniteSet, LedgerFacts!IsFiniteSet

(* Both instances count the same tickets.                                  *)
LEMMA SameSold == \A e : LedgerFacts!Sold(e) = Ledger!Sold(e)
BY DEF Ledger!Sold, LedgerFacts!Sold, Ledger!Seats, LedgerFacts!Seats,
   Ledger!Active, LedgerFacts!Active, Ledger!Cardinality, LedgerFacts!Cardinality

(* And in the next state.                                                  *)
LEMMA SameSoldNext == \A e : LedgerFacts!Sold(e)' = Ledger!Sold(e)'
BY DEF Ledger!Sold, LedgerFacts!Sold, Ledger!Seats, LedgerFacts!Seats,
   Ledger!Active, LedgerFacts!Active, Ledger!Cardinality, LedgerFacts!Cardinality

(* Bookings that stay the same leave the number sold.                      *)
LEMMA SoldFrame ==
  ASSUME UNCHANGED booking
  PROVE  \A e : Ledger!Sold(e)' = Ledger!Sold(e)
BY DEF Ledger!Sold, Ledger!Seats, Ledger!Active

(* The number sold is a number.                                            *)
LEMMA SoldNat == \A e : Ledger!Sold(e) \in Nat
<1>1. \A e : LedgerFacts!Sold(e) \in Nat
  BY LedgerParameters, LedgerFacts!SeatsFinite DEF LedgerFacts!Sold
<1> QED
  BY <1>1, SameSold

(* A booking adds its tickets to those sold for its event.                 *)
LEMMA BookCount ==
  ASSUME TypeOK, NEW b \in Bookings, NEW u \in Users, NEW e \in Events,
         NEW n \in 1..MaxTickets, Book(b, u, e, n)
  PROVE  /\ Ledger!Sold(e)' = Ledger!Sold(e) + n
         /\ \A f \in Events \ {e} : Ledger!Sold(f)' = Ledger!Sold(f)
<1>1. /\ booking \in [Bookings -> LedgerFacts!Rows \cup {NoRow}]
      /\ booking[b] = NoRow
      /\ booking' = [booking EXCEPT ![b] =
                       [user |-> u, event |-> e, count |-> n, status |-> "confirmed"]]
  BY DEF TypeOK, Book, BookingRows, LedgerFacts!Rows, LedgerFacts!Statuses
<1>2. /\ LedgerFacts!Sold(e)' = LedgerFacts!Sold(e) + n
      /\ \A f \in Events \ {e} : LedgerFacts!Sold(f)' = LedgerFacts!Sold(f)
  BY <1>1, LedgerParameters, LedgerFacts!BookSold, Zenon
<1> QED
  BY <1>2, SameSold, SameSoldNext

(* A cancellation takes them off again.                                    *)
LEMMA CancelCount ==
  ASSUME TypeOK, NEW b \in Bookings, Active(b),
         booking' = [booking EXCEPT ![b].status = "cancelled"],
         NEW e, NEW n, e = booking[b].event, n = booking[b].count
  PROVE  /\ Ledger!Sold(e) = Ledger!Sold(e)' + n
         /\ Ledger!Sold(e)' \in Nat
         /\ \A f \in Events \ {e} : Ledger!Sold(f)' = Ledger!Sold(f)
<1>1. /\ booking \in [Bookings -> LedgerFacts!Rows \cup {NoRow}]
      /\ LedgerFacts!Active(b) /\ LedgerFacts!Withdraws(b, e, n)
  BY DEF TypeOK, Active, LedgerFacts!Active, BookingRows, LedgerFacts!Rows,
     LedgerFacts!Statuses, LedgerFacts!Withdraws
<1>2. /\ LedgerFacts!Sold(e) = LedgerFacts!Sold(e)' + n
      /\ LedgerFacts!Sold(e)' \in Nat
      /\ \A f \in Events \ {e} : LedgerFacts!Sold(f)' = LedgerFacts!Sold(f)
  BY <1>1, LedgerParameters, LedgerFacts!CancelSold, Zenon
<1> QED
  BY <1>2, SameSold, SameSoldNext

-----------------------------------------------------------------------------
(* How a row of table events may change in one step.                       *)
Evolves(s, t) ==
  \/ t = s
  \/ s = NoRow /\ t # NoRow
  \/ s # NoRow /\ t # NoRow /\ s.version < t.version /\ ~ s.deleted
  \/ s # NoRow /\ t = [s EXCEPT !.deleted = TRUE]
  \/ s # NoRow /\ \E n \in s.remaining..s.total : t = [s EXCEPT !.remaining = n]

(* A row that evolves stays, and keeps what it had or gets a new version.  *)
LEMMA EvolvesFacts ==
  ASSUME NEW s \in EventRows, NEW t \in EventRows \cup {NoRow}, Evolves(s, t)
  PROVE  /\ t \in EventRows
         /\ s.version <= t.version
         /\ s.deleted => t.deleted
         /\ s.version = t.version =>
              t.total = s.total /\ t.status = s.status /\ s.remaining <= t.remaining
<1>1. s # NoRow
  BY AdminAssumption
<1>2. s \in [total : 1..MaxTickets, remaining : 0..MaxTickets, status : Statuses,
             deleted : BOOLEAN, version : Nat \ {0}]
  BY DEF EventRows
<1>3. CASE t = s
  BY <1>2, <1>3, AdminAssumption
<1>4. CASE t # NoRow /\ s.version < t.version /\ ~ s.deleted
  BY <1>2, <1>4 DEF EventRows
<1>5. CASE t = [s EXCEPT !.deleted = TRUE]
  <2>1. /\ t.total = s.total /\ t.remaining = s.remaining /\ t.status = s.status
        /\ t.version = s.version /\ t.deleted = TRUE
    BY <1>2, <1>5
  <2>2. t \in EventRows
    BY <1>2, <1>5 DEF EventRows
  <2> QED
    BY <1>2, <2>1, <2>2
<1>6. CASE \E n \in s.remaining..s.total : t = [s EXCEPT !.remaining = n]
  BY <1>2, <1>6, AdminAssumption DEF EventRows
<1> QED
  BY <1>1, <1>3, <1>4, <1>5, <1>6 DEF Evolves

(* Coherence survives if nothing becomes known but the rows of the table.  *)
LEMMA CoherentStep ==
  ASSUME TypeOK, TypeOK', Coherent,
         \A e \in Events : Evolves(event[e], event'[e]),
         \A e \in Events, s \in EventRows : Known(e, s)' => Known(e, s) \/ s = event'[e]
  PROVE  Coherent'
<1> SUFFICES ASSUME NEW e \in Events
             PROVE  /\ \A s \in EventRows : Known(e, s)' =>
                         event'[e] # NoRow /\ s.version <= event'[e].version
                    /\ \A s, t \in EventRows :
                         Known(e, s)' /\ Known(e, t)' /\ s.version = t.version =>
                           s.total = t.total /\ s.status = t.status
  BY DEF Coherent
<1>1. event'[e] \in EventRows \cup {NoRow} /\ event[e] \in EventRows \cup {NoRow}
  BY DEF TypeOK
<1>2. ASSUME NEW s \in EventRows, Known(e, s)
      PROVE  /\ event[e] \in EventRows /\ event'[e] \in EventRows
             /\ s.version <= event[e].version
             /\ event[e].version <= event'[e].version
             /\ event[e].version = event'[e].version =>
                  event'[e].total = event[e].total /\ event'[e].status = event[e].status
  <2>1. event[e] # NoRow /\ s.version <= event[e].version
    BY <1>2 DEF Coherent
  <2> QED
    BY <1>1, <2>1, EvolvesFacts
<1>3. \A s \in EventRows : s # NoRow /\ s.version \in Nat
  BY AdminAssumption DEF EventRows
<1>4. \A s \in EventRows : Known(e, s)' =>
        event'[e] # NoRow /\ s.version <= event'[e].version
  <2> SUFFICES ASSUME NEW s \in EventRows, Known(e, s)'
               PROVE  event'[e] # NoRow /\ s.version <= event'[e].version
    OBVIOUS
  <2>1. CASE Known(e, s)
    BY <1>2, <1>3, <2>1
  <2>2. CASE s = event'[e]
    BY <1>3, <2>2
  <2> QED
    BY <2>1, <2>2
<1>5. ASSUME NEW s \in EventRows, Known(e, s), s.version = event'[e].version
      PROVE  s.total = event'[e].total /\ s.status = event'[e].status
  <2>1. /\ event[e] \in EventRows /\ event'[e] \in EventRows
        /\ s.version = event[e].version /\ event[e].version = event'[e].version
    BY <1>2, <1>3, <1>5
  <2>2. Known(e, event[e])
    BY DEF Known
  <2> QED
    BY <1>2, <1>5, <2>1, <2>2 DEF Coherent
<1>6. ASSUME NEW s \in EventRows, NEW t \in EventRows,
             Known(e, s)', Known(e, t)', s.version = t.version
      PROVE  s.total = t.total /\ s.status = t.status
  <2>1. CASE Known(e, s) /\ Known(e, t)
    BY <1>6, <2>1 DEF Coherent
  <2>2. CASE s = event'[e] \/ t = event'[e]
    BY <1>5, <1>6, <2>2
  <2> QED
    BY <1>6, <2>1, <2>2
<1> QED
  BY <1>4, <1>6

(* Requests about to write stay ready while rows evolve.                   *)
LEMMA PendingStep ==
  ASSUME TypeOK, TypeOK', Coherent, Pending, UNCHANGED inputs,
         \A e \in Events : Evolves(event[e], event'[e]),
         \A r \in Updates \cup Deletes : pc'[r] \in {"idle", "write"} =>
           pc[r] = pc'[r] /\ old'[r] = old[r]
  PROVE  Pending'
<1>1. ASSUME NEW r \in Updates \cup Deletes, pc'[r] = "idle" PROVE old'[r] = NoRow
  BY <1>1 DEF Pending
<1>2. ASSUME NEW r \in Updates \cup Deletes, pc'[r] = "write"
      PROVE  /\ old'[r] # NoRow
             /\ event'[EventOf(r)'] # NoRow
             /\ r \in Updates => edit'[r].spec.total > 0
             /\ old'[r].version = event'[EventOf(r)'].version =>
                  old'[r].remaining <= event'[EventOf(r)'].remaining
  <2>1. PICK e : e = EventOf(r)
    OBVIOUS
  <2>2. e \in Events /\ EventOf(r)' = e
    BY <2>1 DEF TypeOK, EventOf, Edits, inputs
  <2>3. /\ pc[r] = "write" /\ old'[r] = old[r]
        /\ old[r] # NoRow /\ event[e] # NoRow
        /\ old[r].version = event[e].version => old[r].remaining <= event[e].remaining
    BY <1>2, <2>1 DEF Pending
  <2>4. /\ old[r] \in EventRows /\ event[e] \in EventRows
        /\ event'[e] \in EventRows \cup {NoRow}
    BY <2>2, <2>3 DEF TypeOK
  <2>5. old[r].version <= event[e].version
    <3>1. Known(e, old[r])
      BY <2>1 DEF Known
    <3> QED
      BY <2>2, <2>4, <3>1 DEF Coherent
  <2>6. /\ event'[e] \in EventRows /\ event[e].version <= event'[e].version
        /\ event[e].version = event'[e].version =>
             event[e].remaining <= event'[e].remaining
    BY <2>2, <2>4, EvolvesFacts
  <2>7. event'[e] # NoRow
    BY <2>6, AdminAssumption
  <2>8. old[r].version = event'[e].version => old[r].remaining <= event'[e].remaining
    BY <2>3, <2>4, <2>5, <2>6, AdminAssumption DEF EventRows
  <2>9. r \in Updates => edit'[r].spec.total > 0
    BY <2>3 DEF Pending, inputs
  <2> QED
    BY <2>2, <2>3, <2>7, <2>8, <2>9
<1> QED
  BY <1>1, <1>2 DEF Pending

(* What the log says stays true of rows that evolve.                       *)
LEMMA AuthoredStep ==
  ASSUME TypeOK, TypeOK', Authored, NEW x \in Entries, Logged(x),
         \A e \in Events : Evolves(event[e], event'[e]),
         UNCHANGED inputs, x.by \in Updates => base'[x.by] = base[x.by],
         pc[x.by] \in {"log", "done"} => pc'[x.by] \in {"log", "done"}
  PROVE  /\ pc'[x.by] \in {"log", "done"}
         /\ event'[x.event] # NoRow
         /\ x.by \in Creates => x.old = NoRow /\ x.new # NoRow
         /\ x.by \in Updates => Spans(x)'
         /\ x.by \in Deletes => x.old # NoRow /\ x.new = NoRow /\ event'[x.event].deleted
<1>1. x.event \in Events
  BY DEF Entries
<1>2. event[x.event] \in EventRows /\ event'[x.event] \in EventRows \cup {NoRow}
  BY <1>1 DEF TypeOK, Authored
<1>3. /\ event'[x.event] # NoRow
      /\ event[x.event].deleted => event'[x.event].deleted
  BY <1>1, <1>2, EvolvesFacts, AdminAssumption
<1>4. x.by \in Updates => Spans(x)'
  BY DEF Authored, Spans, inputs
<1> QED
  BY <1>3, <1>4 DEF Authored

(* A step that reads nothing, logs nothing new and at most ends requests.  *)
LEMMA Settle ==
  ASSUME IInv, TypeOK', Balanced', UNCHANGED <<inputs, base, old>>,
         \A x : Logged(x)' => Logged(x),
         \A r \in Admins : todo'[r] \subseteq todo[r],
         \A e \in Events : Evolves(event[e], event'[e]),
         \A r \in Admins : pc'[r] = pc[r] \/ pc'[r] = "done"
  PROVE  IInv'
<1> USE DEF IInv
<1>1. \A x : Logged(x)' => Logged(x)
  OBVIOUS
<1>2. \A r : EventOf(r)' = EventOf(r)
  BY DEF EventOf, inputs
<1>3. Coherent'
  <2>1. \A e \in Events, s \in EventRows : Known(e, s)' => Known(e, s) \/ s = event'[e]
    BY <1>1, <1>2 DEF Known
  <2> QED
    BY <2>1, CoherentStep
<1>4. Pending'
  <2>1. \A r \in Updates \cup Deletes : pc'[r] \in {"idle", "write"} => pc[r] = pc'[r]
    BY DEF Admins
  <2> QED
    BY <2>1, PendingStep
<1>5. Authored'
  <2> SUFFICES ASSUME NEW x \in Entries, Logged(x)
               PROVE  /\ pc'[x.by] \in {"log", "done"}
                      /\ event'[x.event] # NoRow
                      /\ x.by \in Creates => x.old = NoRow /\ x.new # NoRow
                      /\ x.by \in Updates => Spans(x)'
                      /\ x.by \in Deletes => /\ x.old # NoRow /\ x.new = NoRow
                                             /\ event'[x.event].deleted
    BY <1>1 DEF Authored
  <2>1. x.by \in Admins
    BY DEF Entries
  <2>2. pc[x.by] \in {"log", "done"} => pc'[x.by] \in {"log", "done"}
    BY <2>1
  <2> QED
    BY <2>2, AuthoredStep
<1>6. OwnEntries'
  BY DEF OwnEntries
<1>7. Distinct'
  BY <1>1 DEF Distinct
<1>8. Seen'
  BY DEF Seen, inputs
<1> QED
  BY <1>3, <1>4, <1>5, <1>6, <1>7, <1>8

(* A request that has not written yet has logged nothing.                  *)
LEMMA NothingLogged ==
  ASSUME IInv, NEW r \in Admins, pc[r] \in {"idle", "write"}
  PROVE  todo[r] = {} /\ \A x \in Entries : Logged(x) => x.by # r
<1> USE DEF IInv
<1>1. \A x \in Entries : Logged(x) => x.by # r
  BY DEF Authored
<1>2. \A x \in todo[r] : x \in Entries /\ x.by = r /\ Logged(x)
  BY DEF TypeOK, OwnEntries, Logged
<1> QED
  BY <1>1, <1>2

(* S are the entries of what r writes.                                     *)
NewEntries(r, S) ==
  \A x \in S :
    /\ x.by = r
    /\ event'[x.event] # NoRow
    /\ x.old = NoRow \/ Known(x.event, x.old)
    /\ x.new = NoRow \/ x.new = event'[x.event]
    /\ r \in Creates => x.old = NoRow /\ x.new # NoRow /\ event[x.event] = NoRow
    /\ r \in Updates => /\ Spans(x)
                        /\ event[x.event] # NoRow
                        /\ event[x.event].version < x.new.version
    /\ r \in Deletes => /\ x.old # NoRow /\ x.new = NoRow
                        /\ event[x.event] # NoRow /\ ~ event[x.event].deleted
                        /\ event'[x.event].deleted

(* Request r writes and turns to logging the entries S.                    *)
LEMMA Wrote ==
  ASSUME IInv, TypeOK', Balanced', UNCHANGED <<inputs, trail, base, old>>,
         \A e \in Events : Evolves(event[e], event'[e]),
         NEW r \in Admins, pc[r] \in {"idle", "write"}, pc' = [pc EXCEPT ![r] = "log"],
         NEW S \in SUBSET Entries, todo' = [todo EXCEPT ![r] = S],
         NewEntries(r, S),
         \A x, y \in S : x.event = y.event => x = y
  PROVE  IInv'
<1> USE DEF IInv, NewEntries
<1>1. todo[r] = {} /\ \A x \in Entries : Logged(x) => x.by # r
  BY NothingLogged
<1>2. \A x : Logged(x)' <=> Logged(x) \/ x \in S
  BY <1>1 DEF Logged, TypeOK
<1>3. \A q : EventOf(q)' = EventOf(q)
  BY DEF EventOf, inputs
<1>4. Coherent'
  <2> SUFFICES ASSUME NEW e \in Events, NEW s \in EventRows, Known(e, s)'
               PROVE  Known(e, s) \/ s = event'[e]
    BY CoherentStep
  <2>1. ASSUME NEW x \in Entries, Logged(x)', x.event = e, s = x.old \/ s = x.new
        PROVE  Known(e, s) \/ s = event'[e]
    <3>1. CASE x \in S
      BY <2>1, <3>1, AdminAssumption
    <3>2. CASE Logged(x)
      BY <2>1, <3>2 DEF Known
    <3> QED
      BY <1>2, <2>1, <3>1, <3>2
  <2> QED
    BY <1>3, <2>1 DEF Known
<1>5. Pending'
  <2>1. \A q \in Updates \cup Deletes : pc'[q] \in {"idle", "write"} => pc[q] = pc'[q]
    BY DEF Admins, TypeOK
  <2> QED
    BY <2>1, PendingStep
<1>6. Authored'
  <2> SUFFICES ASSUME NEW x \in Entries, Logged(x)'
               PROVE  /\ pc'[x.by] \in {"log", "done"}
                      /\ event'[x.event] # NoRow
                      /\ x.by \in Creates => x.old = NoRow /\ x.new # NoRow
                      /\ x.by \in Updates => Spans(x)'
                      /\ x.by \in Deletes => /\ x.old # NoRow /\ x.new = NoRow
                                             /\ event'[x.event].deleted
    BY DEF Authored
  <2>1. CASE x \in S
    BY <2>1 DEF TypeOK, Spans, inputs
  <2>2. CASE Logged(x)
    <3>1. x.by \in Admins
      BY DEF Entries
    <3>2. pc[x.by] \in {"log", "done"} => pc'[x.by] \in {"log", "done"}
      BY <3>1 DEF TypeOK
    <3> QED
      BY <2>2, <3>2, AuthoredStep
  <2> QED
    BY <1>2, <2>1, <2>2
<1>7. OwnEntries'
  BY DEF OwnEntries, TypeOK
<1>8. Distinct'
  <2>1. ASSUME NEW x \in S, NEW y \in Entries, Logged(y), x.event = y.event
        PROVE  /\ ~ (x.by \in Deletes /\ y.by \in Deletes)
               /\ ~ (x.by \in Creates /\ y.by \in Creates)
               /\ x.by \in Updates /\ y.by \in Updates => x.new.version # y.new.version
    <3>1. x.by = r /\ x \in Entries /\ y.event \in Events /\ event[y.event] # NoRow
      BY <2>1 DEF Entries, Authored
    <3>2. ~ (x.by \in Deletes /\ y.by \in Deletes)
      BY <2>1, <3>1 DEF Authored
    <3>3. ~ (x.by \in Creates /\ y.by \in Creates)
      BY <2>1, <3>1
    <3>4. ASSUME x.by \in Updates, y.by \in Updates PROVE x.new.version # y.new.version
      <4>1. y.new \in EventRows /\ x.new \in EventRows
        BY <2>1, <3>1, <3>4 DEF Entries, Authored, Spans
      <4>2. Known(y.event, y.new)
        BY <2>1 DEF Known
      <4>3. y.new.version <= event[y.event].version
        BY <3>1, <4>1, <4>2 DEF Coherent
      <4>4. event[y.event].version < x.new.version /\ event[y.event] \in EventRows
        BY <2>1, <3>1, <3>4 DEF TypeOK
      <4> QED
        BY <4>1, <4>3, <4>4 DEF EventRows
    <3> QED
      BY <3>2, <3>3, <3>4
  <2> SUFFICES ASSUME NEW x \in Entries, NEW y \in Entries, Logged(x)', Logged(y)',
                      x.event = y.event, x # y
               PROVE  /\ x.by \in Deletes => y.by \notin Deletes
                      /\ x.by \in Creates => y.by \notin Creates
                      /\ x.by \in Updates /\ y.by \in Updates =>
                           x.new.version # y.new.version
    BY DEF Distinct
  <2>2. CASE Logged(x) /\ Logged(y)
    BY <2>2 DEF Distinct
  <2>3. CASE x \in S /\ Logged(y)
    BY <2>1, <2>3
  <2>4. CASE Logged(x) /\ y \in S
    BY <2>1, <2>4
  <2> QED
    BY <1>2, <2>2, <2>3, <2>4
<1>9. Seen'
  BY DEF Seen, inputs
<1> QED
  BY <1>4, <1>5, <1>6, <1>7, <1>8, <1>9

-----------------------------------------------------------------------------
(* The actions, one at a time.                                             *)

Answers == {"none", "ok", "error", "badInput", "notFound", "conflict", "created",
            "cancelled", "ticketCheck"}

(* The record type under EventRows' condition.                             *)
LEMMA RowFields ==
  ASSUME NEW row \in EventRows
  PROVE  /\ row \in [total : 1..MaxTickets, remaining : 0..MaxTickets, status : Statuses,
                     deleted : BOOLEAN, version : Nat \ {0}]
         /\ row.remaining <= row.total
         /\ row.total \in Nat /\ row.remaining \in Nat /\ row.version \in Nat
         /\ row # NoRow
BY AdminAssumption DEF EventRows

(* A new row satisfies the CHECK.                                          *)
LEMMA FreshRow ==
  ASSUME NEW n \in 1..MaxTickets, NEW s \in Statuses
  PROVE  /\ Fresh(n, s) \in EventRows /\ Fresh(n, s) # NoRow
         /\ Fresh(n, s).total = n /\ Fresh(n, s).remaining = n
<1>1. MaxTickets \in Nat /\ NoRow \notin EventRows
  BY AdminAssumption
<1>2. Fresh(n, s).total = n /\ Fresh(n, s).remaining = n
  BY DEF Fresh
<1>3. Fresh(n, s) \in [total : 1..MaxTickets, remaining : 0..MaxTickets, status : Statuses,
                      deleted : BOOLEAN, version : Nat \ {0}]
  BY <1>1 DEF Fresh
<1>4. n <= n
  BY <1>1
<1> QED
  BY <1>1, <1>2, <1>3, <1>4 DEF EventRows

(* Initially nothing is sold or logged.                                    *)
LEMMA InitIInv == Init => IInv
<1> SUFFICES ASSUME Init PROVE IInv
  OBVIOUS
<1>1. \A n \in 1..MaxTickets, s \in Statuses : Fresh(n, s) \in EventRows
  BY FreshRow
<1>2. event \in [Events -> EventRows \cup {NoRow}]
  BY <1>1 DEF Init
<1>3. \A e \in Events : event[e] # NoRow =>
        event[e].remaining = event[e].total /\ event[e].total \in 1..MaxTickets
  BY DEF Init, Fresh
<1>4. TypeOK
  <2>1. made \in [Events -> 0..MaxTickets]
    BY <1>3, AdminAssumption DEF Init
  <2> QED
    BY <1>2, <2>1 DEF Init, TypeOK
<1>5. \A x : ~ Logged(x)
  BY DEF Init, Logged
<1>6. Coherent
  <2>1. \A e \in Events, s \in EventRows : Known(e, s) => s = event[e]
    BY <1>5, AdminAssumption DEF Known, Init
  <2>2. \A e \in Events : event[e] \in EventRows => event[e].version <= event[e].version
    BY RowFields
  <2> QED
    BY <2>1, <2>2, AdminAssumption DEF Coherent
<1>7. Pending /\ Seen
  BY DEF Init, Pending, Seen, Admins
<1>8. Authored /\ OwnEntries /\ Distinct
  BY <1>5 DEF Init, Authored, OwnEntries, Distinct
<1>9. Balanced
  <2>1. \A e : Ledger!Seats(e) = {}
    BY DEF Init, Ledger!Seats, Ledger!Active
  <2>2. \A e : Ledger!Sold(e) = 0
    BY <2>1, FS_EmptySet DEF Ledger!Sold, Ledger!Cardinality, Cardinality
  <2> QED
    BY <1>3, <2>2, AdminAssumption DEF Init, Balanced, Left
<1> QED
  BY <1>4, <1>6, <1>7, <1>8, <1>9 DEF IInv

(* Requests that read nothing new are as honest as before.                 *)
LEMMA HonestFrame ==
  ASSUME UNCHANGED <<inputs, old>>
  PROVE  \A e : Honest(e)' = Honest(e)
BY DEF Honest, Ahead, EventOf, inputs

(* Steps that leave the tables and what was read keep the balance.         *)
LEMMA SameBalance ==
  ASSUME IInv, UNCHANGED <<inputs, event, booking, old, made>>
  PROVE  Balanced'
BY HonestFrame, SoldFrame DEF IInv, Balanced, Left

(* A request ends and nothing else happens.                                *)
LEMMA EndsQuietly ==
  ASSUME IInv, NEW r \in Admins, NEW a \in Answers, Finish(r, a),
         UNCHANGED <<inputs, event, booking, trail, base, old, todo, made>>
  PROVE  IInv'
<1> USE DEF IInv
<1>1. TypeOK'
  BY DEF TypeOK, inputs, Finish, Goto, Answer, Answers
<1>2. Balanced'
  BY SameBalance
<1>3. \A q \in Admins : pc'[q] = pc[q] \/ pc'[q] = "done"
  BY DEF TypeOK, Finish, Goto
<1>4. \A e \in Events : Evolves(event[e], event'[e])
  BY DEF Evolves
<1>5. (\A x : Logged(x)' => Logged(x)) /\ \A q \in Admins : todo'[q] \subseteq todo[q]
  BY DEF Logged
<1> QED
  BY <1>1, <1>2, <1>3, <1>4, <1>5, Settle

(* The rows of a batch appear together, on ids nobody used before.         *)
LEMMA InsertsEffect ==
  ASSUME IInv, NEW c \in Creates, ~ Refused(c), InEnum(c), NEW id \in FreshIds(c),
         Inserts(c, id), UNCHANGED <<inputs, booking, old>>
  PROVE  /\ event' \in [Events -> EventRows \cup {NoRow}]
         /\ made' \in [Events -> 0..MaxTickets]
         /\ \A e \in Events : Evolves(event[e], event'[e])
         /\ \A i \in DOMAIN asked[c] :
              /\ id[i] \in Events /\ event[id[i]] = NoRow
              /\ RowFor(asked[c][i]) \in EventRows
              /\ event'[id[i]] = RowFor(asked[c][i])
         /\ Balanced'
<1> USE DEF IInv
<1> DEFINE D == DOMAIN asked[c]
<1>1. /\ DOMAIN id = D
      /\ \A i \in D : id[i] \in Events /\ event[id[i]] = NoRow
      /\ \A i, j \in D : id[i] = id[j] => i = j
  BY DEF FreshIds
<1>2. \A i \in D : asked[c][i] \in Specs
  <2>1. asked[c] \in Batches
    BY DEF TypeOK
  <2>2. PICK n \in 0 .. MaxBatch + 1 : asked[c] \in [1..n -> Specs]
    BY <2>1 DEF Batches
  <2> QED
    BY <2>2
<1>3. \A i \in D : asked[c][i].total \in 1..MaxTickets
  <2>1. \A i \in D : asked[c][i].total # 0
    BY DEF Refused
  <2>2. \A i \in D : asked[c][i].total \in 0..MaxTickets
    BY <1>2 DEF Specs
  <2> QED
    BY <2>1, <2>2, AdminAssumption
<1>4. \A i \in D :
        /\ RowFor(asked[c][i]) \in EventRows /\ RowFor(asked[c][i]) # NoRow
        /\ RowFor(asked[c][i]).remaining = asked[c][i].total
  <2> SUFFICES ASSUME NEW i \in D
               PROVE  /\ RowFor(asked[c][i]) \in EventRows
                      /\ RowFor(asked[c][i]) # NoRow
                      /\ RowFor(asked[c][i]).remaining = asked[c][i].total
    OBVIOUS
  <2>1. (IF asked[c][i].status = "" THEN "draft" ELSE asked[c][i].status) \in Statuses
    BY <1>2 DEF InEnum, Specs, Statuses
  <2> QED
    BY <1>3, <2>1, FreshRow DEF RowFor
<1>5. ASSUME NEW e \in Events, ~ \E i \in D : id[i] = e
      PROVE  event'[e] = event[e] /\ made'[e] = made[e]
  BY <1>1, <1>5 DEF Inserts
<1>6. ASSUME NEW i \in D
      PROVE  event'[id[i]] = RowFor(asked[c][i]) /\ made'[id[i]] = asked[c][i].total
  <2>1. (CHOOSE j \in D : id[j] = id[i]) = i
    BY <1>1
  <2> QED
    BY <1>1, <2>1 DEF Inserts
<1>7. \A e \in Events :
        event'[e] \in EventRows \cup {NoRow} /\ made'[e] \in 0..MaxTickets
  BY <1>3, <1>4, <1>5, <1>6, AdminAssumption DEF TypeOK
<1>8. event' \in [Events -> EventRows \cup {NoRow}] /\ made' \in [Events -> 0..MaxTickets]
  BY <1>7 DEF Inserts
<1>9. \A e \in Events : Evolves(event[e], event'[e])
  BY <1>1, <1>4, <1>5, <1>6, AdminAssumption DEF Evolves
<1>10. Balanced'
  <2> SUFFICES ASSUME NEW e \in Events
               PROVE  /\ Honest(e)' => Left(e)' + Ledger!Sold(e)' <= made'[e]
                      /\ event'[e] = NoRow => made'[e] = 0 /\ Ledger!Sold(e)' = 0
    BY DEF Balanced
  <2>1. Ledger!Sold(e)' = Ledger!Sold(e) /\ Honest(e)' = Honest(e)
    BY HonestFrame, SoldFrame
  <2>2. CASE \E i \in D : id[i] = e
    <3>1. PICK i \in D : id[i] = e
      BY <2>2
    <3>2. event[e] = NoRow /\ event'[e] = RowFor(asked[c][i]) /\ made'[e] = asked[c][i].total
      BY <1>1, <1>6, <3>1
    <3>3. Ledger!Sold(e) = 0
      BY <3>2 DEF Balanced
    <3>4. event'[e] # NoRow /\ Left(e)' = asked[c][i].total
      BY <1>4, <3>2 DEF Left
    <3> QED
      BY <1>3, <2>1, <3>2, <3>3, <3>4, AdminAssumption
  <2>3. CASE ~ \E i \in D : id[i] = e
    BY <1>5, <2>1, <2>3 DEF Balanced, Left
  <2> QED
    BY <2>2, <2>3
<1> QED
  BY <1>1, <1>4, <1>6, <1>8, <1>9, <1>10

(* POST keeps the invariant.                                               *)
LEMMA CreateIInv ==
  ASSUME IInv, NEW c \in Creates, Create(c)
  PROVE  IInv'
<1> USE DEF IInv
<1>1. c \in Admins /\ c \notin Updates /\ c \notin Deletes
  BY AdminAssumption DEF Admins
<1>2. CASE Finish(c, "badInput") /\ UNCHANGED <<event, made, todo>>
  BY <1>1, <1>2, EndsQuietly DEF Create, Answers
<1>3. CASE Finish(c, "error") /\ UNCHANGED <<event, made, todo>>
  BY <1>1, <1>3, EndsQuietly DEF Create, Answers
<1>4. ASSUME NEW id \in FreshIds(c), ~ Refused(c), InEnum(c), Inserts(c, id),
             ThenLog(c, {Entry(c, id[i], NoRow, RowFor(asked[c][i])) : i \in DOMAIN id})
      PROVE  IInv'
  <2> DEFINE S == {Entry(c, id[i], NoRow, RowFor(asked[c][i])) : i \in DOMAIN id}
  <2>1. UNCHANGED <<inputs, booking, trail, base, old>> /\ pc[c] = "idle"
    BY DEF Create
  <2>2. /\ event' \in [Events -> EventRows \cup {NoRow}]
        /\ made' \in [Events -> 0..MaxTickets]
        /\ \A e \in Events : Evolves(event[e], event'[e])
        /\ Balanced'
    BY <1>4, <2>1, InsertsEffect
  <2>3. \A i \in DOMAIN id :
          /\ id[i] \in Events /\ event[id[i]] = NoRow
          /\ RowFor(asked[c][i]) \in EventRows
          /\ event'[id[i]] = RowFor(asked[c][i])
    <3>1. DOMAIN id = DOMAIN asked[c]
      BY DEF FreshIds
    <3> QED
      BY <1>4, <2>1, <3>1, InsertsEffect
  <2>4. \A x \in S :
          /\ x \in Entries /\ x.by = c /\ x.old = NoRow
          /\ x.new = event'[x.event] /\ x.new # NoRow /\ event[x.event] = NoRow
    BY <1>1, <2>3, AdminAssumption DEF Entry, Entries
  <2>5. \A x, y \in S : x.event = y.event => x = y
    BY DEF Entry, FreshIds
  <2>6. TypeOK'
    BY <1>4, <2>1, <2>2, <2>4 DEF TypeOK, ThenLog, Goto, inputs
  <2>7. S \in SUBSET Entries /\ todo' = [todo EXCEPT ![c] = S]
        /\ pc' = [pc EXCEPT ![c] = "log"]
    BY <1>4, <2>4 DEF ThenLog, Goto
  <2> HIDE DEF S
  <2>8. NewEntries(c, S)
    BY <1>1, <2>4 DEF NewEntries
  <2> HIDE DEF IInv
  <2> QED
    BY <1>1, <2>1, <2>2, <2>5, <2>6, <2>7, <2>8, Wrote
<1> QED
  BY <1>2, <1>3, <1>4 DEF Create

(* And so does a POST whose connection breaks.                             *)
LEMMA CreateFailsIInv ==
  ASSUME IInv, NEW c \in Creates, CreateFails(c)
  PROVE  IInv'
<1> USE DEF IInv
<1>1. c \in Admins /\ Finish(c, "error") /\ ~ Refused(c)
      /\ UNCHANGED <<inputs, booking, trail, base, old, todo>>
  BY DEF Admins, CreateFails
<1>2. CASE UNCHANGED <<event, made>>
  BY <1>1, <1>2, EndsQuietly DEF Answers
<1>3. ASSUME InEnum(c), NEW id \in FreshIds(c), Inserts(c, id)
      PROVE  IInv'
  <2>1. /\ event' \in [Events -> EventRows \cup {NoRow}]
        /\ made' \in [Events -> 0..MaxTickets]
        /\ \A e \in Events : Evolves(event[e], event'[e])
        /\ Balanced'
    BY <1>1, <1>3, InsertsEffect
  <2>2. TypeOK'
    BY <1>1, <2>1 DEF TypeOK, Finish, Goto, Answer, inputs
  <2>3. \A q \in Admins : pc'[q] = pc[q] \/ pc'[q] = "done"
    BY <1>1 DEF TypeOK, Finish, Goto
  <2>4. (\A x : Logged(x)' => Logged(x)) /\ \A q \in Admins : todo'[q] \subseteq todo[q]
    BY <1>1 DEF Logged
  <2> QED
    BY <1>1, <2>1, <2>2, <2>3, <2>4, Settle
<1> QED
  BY <1>2, <1>3 DEF CreateFails

(* A request reads: it comes to know rows of the table only.               *)
LEMMA Reads ==
  ASSUME IInv, TypeOK', Pending', Seen', Balanced', NEW r \in Updates \cup Deletes, pc[r] = "idle",
         UNCHANGED <<inputs, event, booking, trail, todo, made>>,
         \A q \in Admins \ {r} : pc'[q] = pc[q],
         \A q \in Updates \ {r} : base'[q] = base[q],
         \A e \in Events, s \in EventRows : Known(e, s)' => Known(e, s)
  PROVE  IInv'
<1> USE DEF IInv
<1>1. \A x \in Entries : Logged(x) => x.by # r
  BY NothingLogged DEF Admins
<1>2. \A x : Logged(x)' <=> Logged(x)
  BY DEF Logged
<1>3. Coherent'
  <2>1. \A e \in Events : Evolves(event[e], event'[e])
    BY DEF Evolves
  <2> QED
    BY <2>1, CoherentStep
<1>4. Authored'
  <2>1. \A x \in Entries : Logged(x) => pc'[x.by] = pc[x.by]
    BY <1>1 DEF Entries
  <2>2. \A x \in Entries : Logged(x) /\ x.by \in Updates => Spans(x)'
    BY <1>1 DEF Authored, Spans, inputs
  <2> QED
    BY <1>2, <2>1, <2>2 DEF Authored
<1>5. OwnEntries' /\ Distinct'
  BY <1>2 DEF OwnEntries, Distinct
<1> QED
  BY <1>3, <1>4, <1>5

(* The client's GET keeps the invariant.                                   *)
LEMMA ClientGetsIInv ==
  ASSUME IInv, NEW u \in Updates, ClientGets(u)
  PROVE  IInv'
<1> USE DEF IInv
<1>1. PICK e : e = EventOf(u)
  OBVIOUS
<1>2. /\ e \in Events /\ pc[u] = "idle" /\ event[e] # NoRow
      /\ event[e].version = edit[u].version
      /\ base' = [base EXCEPT ![u] = event[e]]
      /\ UNCHANGED <<inputs, event, booking, trail, old, todo, pc, resp, made>>
  BY <1>1 DEF ClientGets, Exists, TypeOK, EventOf, Edits
<1>3. TypeOK'
  BY <1>2 DEF TypeOK, inputs
<1>4. \A f \in Events, s \in EventRows : Known(f, s)' => Known(f, s)
  <2>1. \A q : EventOf(q)' = EventOf(q)
    BY <1>2 DEF EventOf, inputs
  <2>2. \A v \in Updates : base'[v] = base[v] \/ (v = u /\ base'[v] = event[e])
    BY <1>2 DEF TypeOK
  <2> QED
    BY <1>1, <1>2, <2>1, <2>2 DEF Known, Logged
<1>5. Pending'
  <2>1. \A e1 \in Events : Evolves(event[e1], event'[e1])
    BY <1>2 DEF Evolves
  <2> QED
    BY <1>2, <1>3, <2>1, PendingStep
<1>6. \A v \in Updates \ {u} : base'[v] = base[v]
  BY <1>2 DEF TypeOK
<1>7. Seen'
  <2>1. base'[u] = event[e] /\ old'[u] = NoRow
    BY <1>2 DEF TypeOK, Pending
  <2> QED
    BY <1>2, <1>6, <2>1 DEF Seen, inputs
<1>8. Balanced'
  BY <1>2, SameBalance
<1> QED
  BY <1>2, <1>3, <1>4, <1>5, <1>6, <1>7, <1>8, Reads

(* And so does the read before an update or a deletion.                    *)
LEMMA ReadOldIInv ==
  ASSUME IInv, NEW r \in Updates \cup Deletes, ReadOld(r)
  PROVE  IInv'
<1> USE DEF IInv
<1>1. PICK e : e = EventOf(r)
  OBVIOUS
<1>2. /\ e \in Events /\ r \in Admins /\ pc[r] = "idle"
      /\ UNCHANGED <<inputs, event, booking, trail, base, todo, made>>
  BY <1>1 DEF ReadOld, TypeOK, EventOf, Edits, Admins
<1>3. CASE Finish(r, "notFound") /\ UNCHANGED old
  BY <1>2, <1>3, EndsQuietly DEF Answers
<1>4. CASE Finish(r, "badInput") /\ UNCHANGED old
  BY <1>2, <1>4, EndsQuietly DEF Answers
<1>5. ASSUME Exists(e), r \in Updates => edit[r].spec.total > 0,
             old' = [old EXCEPT ![r] = event[e]], Goto(r, "write"), UNCHANGED resp
      PROVE  IInv'
  <2>1. event[e] \in EventRows /\ event[e] # NoRow
    BY <1>2, <1>5 DEF Exists, TypeOK
  <2>2. TypeOK'
    BY <1>2, <1>5, <2>1 DEF TypeOK, inputs, Goto
  <2>3. \A q : EventOf(q)' = EventOf(q)
    BY <1>2 DEF EventOf, inputs
  <2>4. \A q \in Updates \cup Deletes : q # r => old'[q] = old[q] /\ pc'[q] = pc[q]
    BY <1>5 DEF TypeOK, Goto, Admins
  <2>5. old'[r] = event[e]
    BY <1>5 DEF TypeOK
  <2>6. \A f \in Events, s \in EventRows : Known(f, s)' => Known(f, s)
    BY <1>1, <1>2, <2>3, <2>4, <2>5 DEF Known, Logged
  <2>7. Pending'
    <3> SUFFICES ASSUME NEW q \in Updates \cup Deletes
                 PROVE  /\ pc'[q] = "idle" => old'[q] = NoRow
                        /\ pc'[q] = "write" =>
                             /\ old'[q] # NoRow
                             /\ event'[EventOf(q)'] # NoRow
                             /\ q \in Updates => edit'[q].spec.total > 0
                             /\ old'[q].version = event'[EventOf(q)'].version =>
                                  old'[q].remaining <= event'[EventOf(q)'].remaining
      BY DEF Pending
    <3>1. CASE q # r
      BY <1>2, <2>3, <2>4, <3>1 DEF Pending, inputs
    <3>2. CASE q = r
      <4>1. event[e].remaining <= event[e].remaining
        BY <2>1, RowFields
      <4>2. pc'[r] = "write"
        BY <1>2, <1>5 DEF TypeOK, Goto
      <4> QED
        BY <1>1, <1>2, <1>5, <2>1, <2>3, <2>5, <3>2, <4>1, <4>2 DEF inputs
    <3> QED
      BY <3>1, <3>2
  <2>8. \A q \in Admins \ {r} : pc'[q] = pc[q]
    BY <1>5 DEF TypeOK, Goto
  <2>9. Seen'
    <3> SUFFICES ASSUME NEW q \in Updates, base[q] # NoRow
                 PROVE  /\ base[q].version = edit[q].version
                        /\ old'[q] # NoRow => base[q].version <= old'[q].version
      BY <1>2 DEF Seen, inputs
    <3>1. CASE q # r
      BY <2>4, <3>1 DEF Seen
    <3>2. CASE q = r
      <4>1. base[q] \in EventRows /\ Known(e, base[q])
        BY <1>1, <3>2 DEF TypeOK, Known
      <4> QED
        BY <1>2, <2>5, <3>2, <4>1 DEF Coherent, Seen
    <3> QED
      BY <3>1, <3>2
  <2>10. Balanced'
    <3>1. old[r] = NoRow
      BY <1>2 DEF Pending
    <3>2. \A f \in Events : Honest(f)' => Honest(f)
      BY <1>2, <2>3, <2>4, <3>1 DEF Honest, Ahead, inputs
    <3> QED
      BY <1>2, <3>2, SoldFrame DEF Balanced, Left
  <2> QED
    BY <1>2, <2>2, <2>6, <2>7, <2>8, <2>9, <2>10, Reads
<1> QED
  BY <1>1, <1>3, <1>4, <1>5 DEF ReadOld

(* A request that ends, whatever it has done to table events.              *)
LEMMA EndsAfter ==
  ASSUME IInv, NEW r \in Admins, NEW a \in Answers, Finish(r, a),
         event' \in [Events -> EventRows \cup {NoRow}], Balanced',
         \A e \in Events : Evolves(event[e], event'[e]),
         UNCHANGED <<inputs, booking, trail, base, old, todo, made>>
  PROVE  IInv'
<1> USE DEF IInv
<1>1. TypeOK'
  BY DEF TypeOK, Finish, Goto, Answer, Answers, inputs
<1>2. \A q \in Admins : pc'[q] = pc[q] \/ pc'[q] = "done"
  BY DEF TypeOK, Finish, Goto
<1>3. (\A x : Logged(x)' => Logged(x)) /\ \A q \in Admins : todo'[q] \subseteq todo[q]
  BY DEF Logged
<1> QED
  BY <1>1, <1>2, <1>3, Settle

(* The UPDATE meets the version its author sent.  If the handler read no   *)
(* older one, no ticket it would hide from buyers has been sold since.     *)
LEMMA WritesEffect ==
  ASSUME IInv, NEW u \in Updates, pc[u] = "write", Writes(u),
         UNCHANGED <<inputs, booking, old, made>>, NEW e, e = EventOf(u)
  PROVE  /\ event' \in [Events -> EventRows \cup {NoRow}]
         /\ \A f \in Events : Evolves(event[f], event'[f])
         /\ Balanced'
         /\ e \in Events /\ event[e] \in EventRows /\ event[e] # NoRow
         /\ event'[e] \in EventRows /\ event'[e] # NoRow
         /\ old[u] \in EventRows /\ old[u] # NoRow
         /\ event'[e].version = edit[u].version + 1
         /\ old[u].version <= edit[u].version
         /\ base[u] # NoRow => old[u].version = edit[u].version
         /\ event[e].version < event'[e].version
<1> USE DEF IInv
<1>1. /\ e \in Events /\ event[e] # NoRow /\ ~ event[e].deleted
      /\ event[e].version = edit[u].version
      /\ edit[u].spec.status \in Statuses /\ old[u].remaining <= edit[u].spec.total
      /\ event' = [event EXCEPT ![e] = Written(event[e], u)]
  BY DEF Writes, Matches, Exists, Storable, TypeOK, EventOf, Edits
<1>2. /\ event[e] \in EventRows /\ old[u] \in EventRows /\ old[u] # NoRow
      /\ old[u].version = event[e].version => old[u].remaining <= event[e].remaining
  BY <1>1 DEF Pending, TypeOK
<1>3. Known(e, old[u])
  BY DEF Known
<1>4. old[u].version <= event[e].version
  BY <1>1, <1>2, <1>3 DEF Coherent
<1>5. base[u] # NoRow => old[u].version = edit[u].version
  <2>1. base[u] # NoRow => edit[u].version <= old[u].version
    BY <1>2 DEF Seen
  <2> QED
    BY <1>1, <1>2, <1>4, <2>1, RowFields
<1>6. ~ Ahead(u) => old[u].remaining <= event[e].remaining
  BY <1>1, <1>2, <1>4, RowFields DEF Ahead
<1>7. edit[u].spec.total \in 0..MaxTickets
  BY DEF TypeOK, Edits, Specs
<1> DEFINE new == Written(event[e], u)
<1>8. new.total = edit[u].spec.total /\ new.remaining = old[u].remaining
      /\ new.version = event[e].version + 1
  BY <1>2, RowFields DEF Written
<1>9. new \in EventRows
  <2>1. edit[u].spec.total \in 1..MaxTickets
    <3>1. edit[u].spec.total > 0
      BY DEF Pending
    <3> QED
      BY <1>7, <3>1, AdminAssumption
  <2>2. new \in [total : 1..MaxTickets, remaining : 0..MaxTickets, status : Statuses,
                 deleted : BOOLEAN, version : Nat \ {0}]
    <3>1. event[e] \in [total : 1..MaxTickets, remaining : 0..MaxTickets, status : Statuses,
                         deleted : BOOLEAN, version : Nat \ {0}]
          /\ old[u].remaining \in 0..MaxTickets
      BY <1>2 DEF EventRows
    <3>2. event[e].version + 1 \in Nat \ {0}
      BY <1>2, RowFields
    <3>3. new = [event[e] EXCEPT !.total = edit[u].spec.total,
                                 !.status = edit[u].spec.status,
                                 !.remaining = old[u].remaining,
                                 !.version = event[e].version + 1]
      BY <3>1 DEF Written
    <3> QED
      BY <1>1, <2>1, <3>1, <3>2, <3>3
  <2>3. new.remaining <= new.total
    BY <1>1, <1>8
  <2> QED
    BY <2>2, <2>3 DEF EventRows
<1>10. event'[e] = new /\ \A f \in Events \ {e} : event'[f] = event[f]
  BY <1>1 DEF TypeOK
<1> HIDE DEF new
<1>11. event' \in [Events -> EventRows \cup {NoRow}]
  BY <1>1, <1>9 DEF TypeOK, new
<1>12. new # NoRow /\ event[e].version < new.version
  BY <1>2, <1>8, <1>9, RowFields
<1>13. \A f \in Events : Evolves(event[f], event'[f])
  BY <1>1, <1>10, <1>12 DEF Evolves
<1>14. Balanced'
  <2> SUFFICES ASSUME NEW f \in Events
               PROVE  /\ Honest(f)' => Left(f)' + Ledger!Sold(f)' <= made'[f]
                      /\ event'[f] = NoRow => made'[f] = 0 /\ Ledger!Sold(f)' = 0
    BY DEF Balanced
  <2>1. /\ Ledger!Sold(f)' = Ledger!Sold(f) /\ Ledger!Sold(f) \in Nat
        /\ Honest(f)' = Honest(f)
    BY HonestFrame, SoldFrame, SoldNat
  <2>2. /\ Honest(f) => Left(f) + Ledger!Sold(f) <= made[f]
        /\ event[f] = NoRow => made[f] = 0 /\ Ledger!Sold(f) = 0
    BY DEF Balanced
  <2>3. CASE f = e
    <3>1. Left(f)' = old[u].remaining /\ Left(f) = event[e].remaining /\ event'[f] # NoRow
      BY <1>1, <1>8, <1>10, <1>12, <2>3 DEF Left
    <3>2. old[u].remaining \in Nat /\ event[e].remaining \in Nat
      BY <1>2, RowFields
    <3>3. made[f] \in Nat
      BY AdminAssumption DEF TypeOK
    <3>4. Honest(f) => ~ Ahead(u)
      BY <2>3 DEF Honest
    <3> QED
      BY <1>6, <2>1, <2>2, <3>1, <3>2, <3>3, <3>4
  <2>4. CASE f # e
    BY <1>10, <2>1, <2>2, <2>4 DEF Left
  <2> QED
    BY <2>3, <2>4
<1> QED
  BY <1>1, <1>2, <1>4, <1>5, <1>8, <1>9, <1>10, <1>11, <1>12, <1>13, <1>14

(* PUT's write keeps the invariant.                                        *)
LEMMA WriteUpdateIInv ==
  ASSUME IInv, NEW u \in Updates, WriteUpdate(u)
  PROVE  IInv'
<1> USE DEF IInv
<1>1. /\ u \in Admins /\ u \notin Creates /\ u \notin Deletes /\ pc[u] = "write"
      /\ UNCHANGED <<inputs, booking, trail, base, old, made>>
  BY AdminAssumption DEF Admins, WriteUpdate
<1>2. PICK e : e = EventOf(u)
  OBVIOUS
<1>3. CASE Finish(u, "conflict") /\ UNCHANGED <<event, todo>>
  BY <1>1, <1>3, EndsQuietly DEF Answers
<1>4. CASE Finish(u, "error") /\ UNCHANGED <<event, todo>>
  BY <1>1, <1>4, EndsQuietly DEF Answers
<1>5. CASE Writes(u) /\ ThenLog(u, {Entry(u, e, old[u], event'[e])})
  <2> DEFINE S == {Entry(u, e, old[u], event'[e])}
  <2>1. /\ event' \in [Events -> EventRows \cup {NoRow}]
        /\ \A f \in Events : Evolves(event[f], event'[f])
        /\ Balanced'
        /\ e \in Events /\ event[e] # NoRow
        /\ event'[e] \in EventRows /\ event'[e] # NoRow
        /\ old[u] \in EventRows /\ old[u] # NoRow
        /\ event'[e].version = edit[u].version + 1
        /\ old[u].version <= edit[u].version
        /\ base[u] # NoRow => old[u].version = edit[u].version
        /\ event[e].version < event'[e].version
    BY <1>1, <1>2, <1>5, WritesEffect
  <2>2. \A x \in S : /\ x \in Entries /\ x.by = u /\ x.event = e
                     /\ x.old = old[u] /\ x.new = event'[e]
    BY <1>1, <2>1 DEF Entry, Entries
  <2>3. Known(e, old[u])
    BY <1>2 DEF Known
  <2>4. S \in SUBSET Entries /\ todo' = [todo EXCEPT ![u] = S]
        /\ pc' = [pc EXCEPT ![u] = "log"] /\ resp' = resp
    BY <1>5, <2>2 DEF ThenLog, Goto
  <2>5. \A x, y \in S : x.event = y.event => x = y
    OBVIOUS
  <2> HIDE DEF S
  <2>6. TypeOK'
    BY <1>1, <2>1, <2>4 DEF TypeOK, inputs
  <2>7. \A x \in S :
          /\ x.by = u /\ event'[x.event] # NoRow /\ Known(x.event, x.old)
          /\ Spans(x) /\ x.new = event'[x.event]
          /\ event[x.event] # NoRow /\ event[x.event].version < x.new.version
    BY <2>1, <2>2, <2>3, Zenon DEF Spans
  <2>8. NewEntries(u, S)
    BY <1>1, <2>7 DEF NewEntries
  <2> HIDE DEF IInv
  <2> QED
    BY <1>1, <2>1, <2>4, <2>5, <2>6, <2>8, Wrote
<1> QED
  BY <1>2, <1>3, <1>4, <1>5 DEF WriteUpdate

(* Even if nobody hears of it.                                             *)
LEMMA WriteUpdateFailsIInv ==
  ASSUME IInv, NEW u \in Updates, WriteUpdateFails(u)
  PROVE  IInv'
<1>1. /\ u \in Admins /\ pc[u] = "write" /\ Finish(u, "error")
      /\ UNCHANGED <<inputs, booking, trail, base, old, todo, made>>
  BY DEF Admins, WriteUpdateFails
<1>2. CASE UNCHANGED event
  BY <1>1, <1>2, EndsQuietly DEF Answers
<1>3. CASE Writes(u)
  <2>1. /\ event' \in [Events -> EventRows \cup {NoRow}] /\ Balanced'
        /\ \A f \in Events : Evolves(event[f], event'[f])
    BY <1>1, <1>3, WritesEffect
  <2> QED
    BY <1>1, <2>1, EndsAfter DEF Answers
<1> QED
  BY <1>2, <1>3 DEF WriteUpdateFails

(* A soft delete keeps the row and its tickets.                            *)
LEMMA SoftDeletesEffect ==
  ASSUME IInv, NEW d \in Deletes, SoftDeletes(d),
         UNCHANGED <<inputs, booking, old, made>>, NEW e, e = EventOf(d)
  PROVE  /\ event' \in [Events -> EventRows \cup {NoRow}]
         /\ \A f \in Events : Evolves(event[f], event'[f])
         /\ Balanced'
         /\ e \in Events /\ event[e] # NoRow /\ ~ event[e].deleted
         /\ event'[e] # NoRow /\ event'[e].deleted
<1> USE DEF IInv
<1>1. d \notin Updates
  BY AdminAssumption
<1>2. /\ e \in Events /\ event[e] # NoRow /\ ~ event[e].deleted
      /\ event' = [event EXCEPT ![e].deleted = TRUE]
  BY <1>1 DEF SoftDeletes, Exists, TypeOK, EventOf
<1>3. event[e] \in EventRows
  BY <1>2 DEF TypeOK
<1>4. event'[e] = [event[e] EXCEPT !.deleted = TRUE] /\ \A f \in Events \ {e} : event'[f] = event[f]
  BY <1>2 DEF TypeOK
<1>5. /\ event'[e] \in EventRows /\ event'[e] # NoRow
      /\ event'[e].deleted /\ event'[e].remaining = event[e].remaining
  <2>1. event[e] \in [total : 1..MaxTickets, remaining : 0..MaxTickets, status : Statuses,
                      deleted : BOOLEAN, version : Nat \ {0}]
    BY <1>3 DEF EventRows
  <2>2. event'[e] \in EventRows
    BY <1>3, <1>4, <2>1 DEF EventRows
  <2> QED
    BY <1>4, <2>1, <2>2, AdminAssumption
<1>6. event' \in [Events -> EventRows \cup {NoRow}]
  BY <1>2, <1>4, <1>5 DEF TypeOK
<1>7. \A f \in Events : Evolves(event[f], event'[f])
  BY <1>2, <1>4 DEF Evolves
<1>8. Balanced'
  <2>1. \A f \in Events : Left(f)' = Left(f) /\ (event'[f] = NoRow <=> event[f] = NoRow)
    BY <1>2, <1>4, <1>5 DEF Left
  <2> QED
    BY <2>1, HonestFrame, SoldFrame DEF Balanced
<1> QED
  BY <1>2, <1>5, <1>6, <1>7, <1>8

(* DELETE keeps the invariant.                                             *)
LEMMA WriteDeleteIInv ==
  ASSUME IInv, NEW d \in Deletes, WriteDelete(d)
  PROVE  IInv'
<1> USE DEF IInv
<1>1. /\ d \in Admins /\ d \notin Creates /\ d \notin Updates /\ pc[d] = "write"
      /\ UNCHANGED <<inputs, booking, trail, base, old, made>>
  BY AdminAssumption DEF Admins, WriteDelete
<1>2. PICK e : e = EventOf(d)
  OBVIOUS
<1>3. CASE Finish(d, "notFound") /\ UNCHANGED <<event, todo>>
  BY <1>1, <1>3, EndsQuietly DEF Answers
<1>4. CASE SoftDeletes(d) /\ ThenLog(d, {Entry(d, e, old[d], NoRow)})
  <2> DEFINE S == {Entry(d, e, old[d], NoRow)}
  <2>1. /\ event' \in [Events -> EventRows \cup {NoRow}]
        /\ \A f \in Events : Evolves(event[f], event'[f])
        /\ Balanced'
        /\ e \in Events /\ event[e] # NoRow /\ ~ event[e].deleted
        /\ event'[e] # NoRow /\ event'[e].deleted
    BY <1>1, <1>2, <1>4, SoftDeletesEffect
  <2>2. old[d] \in EventRows /\ old[d] # NoRow
    BY <1>1 DEF TypeOK, Pending
  <2>3. Known(e, old[d])
    BY <1>2 DEF Known
  <2>4. \A x \in S : /\ x \in Entries /\ x.by = d /\ x.event = e
                     /\ x.old = old[d] /\ x.new = NoRow
    BY <1>1, <2>1, <2>2 DEF Entry, Entries
  <2>5. S \in SUBSET Entries /\ todo' = [todo EXCEPT ![d] = S]
        /\ pc' = [pc EXCEPT ![d] = "log"] /\ resp' = resp
    BY <1>4, <2>4 DEF ThenLog, Goto
  <2>6. \A x, y \in S : x.event = y.event => x = y
    OBVIOUS
  <2> HIDE DEF S
  <2>7. TypeOK'
    BY <1>1, <2>1, <2>5 DEF TypeOK, inputs
  <2>8. \A x \in S :
          /\ x.by = d /\ event'[x.event] # NoRow /\ Known(x.event, x.old)
          /\ x.old # NoRow /\ x.new = NoRow
          /\ event[x.event] # NoRow /\ ~ event[x.event].deleted
          /\ event'[x.event].deleted
    BY <2>1, <2>2, <2>3, <2>4, Zenon
  <2>9. NewEntries(d, S)
    BY <1>1, <2>8 DEF NewEntries
  <2> HIDE DEF IInv
  <2> QED
    BY <1>1, <2>1, <2>5, <2>6, <2>7, <2>9, Wrote
<1> QED
  BY <1>2, <1>3, <1>4 DEF WriteDelete

(* Even if nobody hears of it.                                             *)
LEMMA WriteDeleteFailsIInv ==
  ASSUME IInv, NEW d \in Deletes, WriteDeleteFails(d)
  PROVE  IInv'
<1>1. /\ d \in Admins /\ Finish(d, "error")
      /\ UNCHANGED <<inputs, booking, trail, base, old, todo, made>>
  BY DEF Admins, WriteDeleteFails
<1>2. CASE UNCHANGED event
  BY <1>1, <1>2, EndsQuietly DEF Answers
<1>3. CASE SoftDeletes(d)
  <2>1. /\ event' \in [Events -> EventRows \cup {NoRow}] /\ Balanced'
        /\ \A f \in Events : Evolves(event[f], event'[f])
    BY <1>1, <1>3, SoftDeletesEffect
  <2> QED
    BY <1>1, <2>1, EndsAfter DEF Answers
<1> QED
  BY <1>2, <1>3 DEF WriteDeleteFails

(* An entry moves from the request to the log, or is lost.                 *)
LEMMA AuditLogIInv ==
  ASSUME IInv, NEW r \in Admins, AuditLog(r)
  PROVE  IInv'
<1> USE DEF IInv
<1>1. PICK x \in todo[r] : /\ trail' \in {trail, trail \cup {x}}
                          /\ todo' = [todo EXCEPT ![r] = @ \ {x}]
  BY DEF AuditLog
<1>2. UNCHANGED <<inputs, event, booking, base, old, made>>
  BY DEF AuditLog
<1>3. Finish(r, "ok") \/ UNCHANGED <<pc, resp>>
  BY DEF AuditLog
<1>4. todo' \in [Admins -> SUBSET Entries] /\ trail' \in SUBSET Entries
  BY <1>1 DEF TypeOK
<1>5. pc' \in [Admins -> {"idle", "write", "log", "done"}]
      /\ \A q \in Admins : pc'[q] = pc[q] \/ pc'[q] = "done"
  BY <1>3 DEF TypeOK, Finish, Goto
<1>6. TypeOK'
  BY <1>2, <1>3, <1>4, <1>5 DEF TypeOK, inputs, Finish, Answer
<1>7. \A q \in Admins : todo'[q] \subseteq todo[q]
  BY <1>1 DEF TypeOK
<1>8. \A y : Logged(y)' => Logged(y)
  BY <1>1, <1>7 DEF Logged
<1>9. Balanced' /\ \A e \in Events : Evolves(event[e], event'[e])
  BY <1>2, SameBalance DEF Evolves
<1> QED
  BY <1>2, <1>5, <1>6, <1>7, <1>8, <1>9, Settle

(* A booking takes tickets off those for sale and bumps the version.       *)
LEMMA BookEffect ==
  ASSUME IInv, NEW b \in Bookings, NEW u \in Users, NEW e \in Events,
         NEW n \in 1..MaxTickets, Book(b, u, e, n)
  PROVE  /\ event' \in [Events -> EventRows \cup {NoRow}]
         /\ \A f \in Events : Evolves(event[f], event'[f])
         /\ Balanced'
<1> USE DEF IInv
<1>1. /\ event[e] # NoRow /\ ~ event[e].deleted /\ n <= event[e].remaining
      /\ event' = [event EXCEPT ![e] = Sells(event[e], n)]
      /\ made' = made /\ UNCHANGED <<inputs, old>>
  BY DEF Book, Exists
<1>2. event[e] \in EventRows
  BY <1>1 DEF TypeOK
<1>3. /\ event[e] \in [total : 1..MaxTickets, remaining : 0..MaxTickets, status : Statuses,
                       deleted : BOOLEAN, version : Nat \ {0}]
      /\ event[e].remaining <= event[e].total /\ MaxTickets \in Nat /\ NoRow \notin EventRows
  BY <1>2, AdminAssumption DEF EventRows
<1> DEFINE new == Sells(event[e], n)
<1>4. /\ new.total = event[e].total /\ new.remaining = event[e].remaining - n
      /\ new.version = event[e].version + 1
  BY <1>3 DEF Sells
<1>5. new \in EventRows
  <2>1. event[e].remaining - n \in 0..MaxTickets /\ event[e].version + 1 \in Nat \ {0}
    BY <1>1, <1>3
  <2>2. new = [event[e] EXCEPT !.remaining = event[e].remaining - n,
                               !.version = event[e].version + 1]
    BY <1>3 DEF Sells
  <2>3. new \in [total : 1..MaxTickets, remaining : 0..MaxTickets, status : Statuses,
                 deleted : BOOLEAN, version : Nat \ {0}]
    BY <1>3, <2>1, <2>2
  <2>4. new.remaining <= new.total
    BY <1>3, <1>4
  <2> QED
    BY <2>3, <2>4 DEF EventRows
<1>6. event'[e] = new /\ \A f \in Events \ {e} : event'[f] = event[f]
  BY <1>1 DEF TypeOK
<1>7. event' \in [Events -> EventRows \cup {NoRow}]
  BY <1>1, <1>5 DEF TypeOK
<1> HIDE DEF new
<1>8. new # NoRow /\ event[e].version < new.version
  BY <1>3, <1>4, <1>5
<1>9. \A f \in Events : Evolves(event[f], event'[f])
  BY <1>1, <1>6, <1>8 DEF Evolves
<1>10. Balanced'
  <2>1. /\ Ledger!Sold(e)' = Ledger!Sold(e) + n
        /\ \A f \in Events \ {e} : Ledger!Sold(f)' = Ledger!Sold(f)
    BY BookCount
  <2> SUFFICES ASSUME NEW f \in Events
               PROVE  /\ Honest(f)' => Left(f)' + Ledger!Sold(f)' <= made'[f]
                      /\ event'[f] = NoRow => made'[f] = 0 /\ Ledger!Sold(f)' = 0
    BY DEF Balanced
  <2>2. /\ Honest(f) => Left(f) + Ledger!Sold(f) <= made[f]
        /\ event[f] = NoRow => made[f] = 0 /\ Ledger!Sold(f) = 0
        /\ Honest(f)' = Honest(f)
    BY <1>1, HonestFrame DEF Balanced
  <2>3. CASE f # e
    BY <1>1, <1>6, <2>1, <2>2, <2>3 DEF Left
  <2>4. CASE f = e
    <3>1. /\ Left(f)' = event[e].remaining - n /\ Left(f) = event[e].remaining
          /\ event'[f] # NoRow
      BY <1>1, <1>4, <1>6, <1>8, <2>4 DEF Left
    <3>2. Ledger!Sold(f) \in Nat /\ made[f] \in Nat
      BY SoldNat, AdminAssumption DEF TypeOK
    <3> QED
      BY <1>1, <1>3, <2>1, <2>2, <2>4, <3>1, <3>2
  <2> QED
    BY <2>3, <2>4
<1> QED
  BY <1>7, <1>9, <1>10

(* Users' steps leave the administrators' requests alone.                  *)
LEMMA UsersStep ==
  ASSUME IInv, TypeOK', Balanced', UNCHANGED <<inputs, trail, base, old, todo, pc>>,
         \A e \in Events : Evolves(event[e], event'[e])
  PROVE  IInv'
<1>1. (\A x : Logged(x)' => Logged(x)) /\ \A q \in Admins : todo'[q] \subseteq todo[q]
  BY DEF Logged
<1> QED
  BY <1>1, Settle

(* BookTicket keeps the invariant.                                         *)
LEMMA BookIInv ==
  ASSUME IInv, NEW b \in Bookings, NEW u \in Users, NEW e \in Events,
         NEW n \in 1..MaxTickets, Book(b, u, e, n)
  PROVE  IInv'
<1>1. /\ event' \in [Events -> EventRows \cup {NoRow}]
      /\ \A f \in Events : Evolves(event[f], event'[f])
      /\ Balanced'
  BY BookEffect
<1>2. TypeOK'
  <2>1. booking' \in [Bookings -> BookingRows \cup {NoRow}]
    BY DEF IInv, TypeOK, Book, BookingRows
  <2> QED
    BY <1>1, <2>1 DEF IInv, TypeOK, Book, Answer, inputs
<1> QED
  BY <1>1, <1>2, UsersStep DEF Book

(* A cancellation the CHECK accepts returns tickets, and never too many.   *)
LEMMA CancelEffect ==
  ASSUME IInv, NEW b \in Bookings, Cancel(b)
  PROVE  /\ event' \in [Events -> EventRows \cup {NoRow}]
         /\ \A f \in Events : Evolves(event[f], event'[f])
         /\ Balanced'
         /\ booking' \in [Bookings -> BookingRows \cup {NoRow}]
<1> USE DEF IInv
<1>1. PICK e, n : e = booking[b].event /\ n = booking[b].count
  OBVIOUS
<1>2. Active(b) /\ booking[b] \in BookingRows /\ e \in Events /\ n \in 1..MaxTickets
      /\ made' = made /\ UNCHANGED <<inputs, old>>
  BY <1>1 DEF Cancel, Active, TypeOK, BookingRows
<1>3. CASE UNCHANGED <<event, booking>>
  BY <1>2, <1>3, SameBalance DEF TypeOK, Evolves
<1>4. CASE /\ event[e].remaining + n <= event[e].total
           /\ event' = [event EXCEPT ![e].remaining = @ + n]
           /\ booking' = [booking EXCEPT ![b].status = "cancelled"]
  <2>1. /\ Ledger!Sold(e) = Ledger!Sold(e)' + n
        /\ Ledger!Sold(e)' \in Nat
        /\ \A f \in Events \ {e} : Ledger!Sold(f)' = Ledger!Sold(f)
    BY <1>1, <1>2, <1>4, CancelCount, Zenon
  <2>2. MaxTickets \in Nat /\ NoRow \notin EventRows
    BY AdminAssumption
  <2>3. event[e] # NoRow
    <3> SUFFICES ASSUME event[e] = NoRow PROVE FALSE
      OBVIOUS
    <3>1. Ledger!Sold(e) = 0
      BY <1>2 DEF Balanced
    <3> QED
      BY <1>2, <2>1, <2>2, <3>1
  <2>4. event[e] \in EventRows
        /\ event[e] \in [total : 1..MaxTickets, remaining : 0..MaxTickets, status : Statuses,
                         deleted : BOOLEAN, version : Nat \ {0}]
    BY <1>2, <2>3 DEF TypeOK, EventRows
  <2> DEFINE m == event[e].remaining + n
  <2>5. /\ m \in event[e].remaining..event[e].total /\ m \in 0..MaxTickets
        /\ m <= event[e].total
    BY <1>2, <1>4, <2>2, <2>4
  <2>6. /\ event'[e] = [event[e] EXCEPT !.remaining = m]
        /\ \A f \in Events \ {e} : event'[f] = event[f]
    BY <1>2, <1>4 DEF TypeOK
  <2> HIDE DEF m
  <2>7. event'[e] \in EventRows /\ event'[e].remaining = m /\ event'[e] # NoRow
    BY <2>2, <2>4, <2>5, <2>6 DEF EventRows
  <2>8. event' \in [Events -> EventRows \cup {NoRow}]
    BY <1>2, <1>4, <2>6, <2>7 DEF TypeOK
  <2>9. \A f \in Events : Evolves(event[f], event'[f])
    BY <2>3, <2>5, <2>6 DEF Evolves
  <2>10. Balanced'
    <3> SUFFICES ASSUME NEW f \in Events
                 PROVE  /\ Honest(f)' => Left(f)' + Ledger!Sold(f)' <= made'[f]
                        /\ event'[f] = NoRow => made'[f] = 0 /\ Ledger!Sold(f)' = 0
      BY DEF Balanced
    <3>1. /\ Honest(f) => Left(f) + Ledger!Sold(f) <= made[f]
          /\ event[f] = NoRow => made[f] = 0 /\ Ledger!Sold(f) = 0
          /\ Honest(f)' = Honest(f)
      BY <1>2, HonestFrame DEF Balanced
    <3>2. CASE f # e
      BY <1>2, <2>1, <2>6, <3>1, <3>2 DEF Left
    <3>3. CASE f = e
      <4>1. Left(f)' = m /\ Left(f) = event[e].remaining
        BY <2>3, <2>7, <3>3 DEF Left
      <4>2. made[f] \in Nat /\ event[e].remaining \in Nat
        BY <2>2, <2>4 DEF TypeOK
      <4> QED
        BY <1>2, <2>1, <2>2, <2>7, <3>1, <3>3, <4>1, <4>2 DEF m
    <3> QED
      BY <3>2, <3>3
  <2>11. booking' \in [Bookings -> BookingRows \cup {NoRow}]
    BY <1>2, <1>4 DEF TypeOK, BookingRows
  <2> QED
    BY <2>8, <2>9, <2>10, <2>11
<1> QED
  BY <1>1, <1>3, <1>4 DEF Cancel

(* Cancel keeps the invariant.                                             *)
LEMMA CancelIInv ==
  ASSUME IInv, NEW b \in Bookings, Cancel(b)
  PROVE  IInv'
<1>1. /\ event' \in [Events -> EventRows \cup {NoRow}]
      /\ \A f \in Events : Evolves(event[f], event'[f])
      /\ Balanced'
      /\ booking' \in [Bookings -> BookingRows \cup {NoRow}]
  BY CancelEffect
<1>2. UNCHANGED <<inputs, trail, base, old, todo, pc, made>>
  BY DEF Cancel
<1>3. resp' \in [Admins \cup Bookings -> Answers]
  BY DEF IInv, TypeOK, Cancel, Answer, Answers
<1>4. TypeOK'
  BY <1>1, <1>2, <1>3 DEF IInv, TypeOK, inputs, Answers
<1> QED
  BY <1>1, <1>2, <1>4, UsersStep

-----------------------------------------------------------------------------
(* Every step keeps the invariant.                                         *)
LEMMA NextIInv == IInv /\ [Next]_vars => IInv'
<1> SUFFICES ASSUME IInv, [Next]_vars PROVE IInv'
  OBVIOUS
<1>1. ASSUME NEW c \in Creates, Create(c) \/ CreateFails(c) PROVE IInv'
  BY <1>1, CreateIInv, CreateFailsIInv
<1>2. ASSUME NEW u \in Updates, ClientGets(u) \/ WriteUpdate(u) \/ WriteUpdateFails(u)
      PROVE  IInv'
  BY <1>2, ClientGetsIInv, WriteUpdateIInv, WriteUpdateFailsIInv
<1>3. ASSUME NEW d \in Deletes, WriteDelete(d) \/ WriteDeleteFails(d) PROVE IInv'
  BY <1>3, WriteDeleteIInv, WriteDeleteFailsIInv
<1>4. ASSUME NEW r \in Updates \cup Deletes, ReadOld(r) PROVE IInv'
  BY <1>4, ReadOldIInv
<1>5. ASSUME NEW r \in Updates \cup Deletes, ReadFails(r) PROVE IInv'
  BY <1>5, EndsQuietly DEF ReadFails, Answers, Admins
<1>6. ASSUME NEW r \in Admins, AuditLog(r) PROVE IInv'
  BY <1>6, AuditLogIInv
<1>7. ASSUME NEW r \in Admins, Crash(r) PROVE IInv'
  BY <1>7, EndsQuietly DEF Crash, Answers
<1>8. ASSUME NEW b \in Bookings, NEW u \in Users, NEW e \in Events,
             NEW n \in 1..MaxTickets, Book(b, u, e, n)
      PROVE  IInv'
  BY <1>8, BookIInv
<1>9. ASSUME NEW b \in Bookings, Cancel(b) PROVE IInv'
  BY <1>9, CancelIInv
<1>10. CASE UNCHANGED vars
  <2>1. /\ TypeOK' /\ Balanced' /\ \A x : Logged(x)' => Logged(x)
    BY <1>10, SameBalance DEF vars, inputs, IInv, TypeOK, Logged
  <2> QED
    BY <1>10, <2>1, Settle DEF vars, Evolves
<1> QED
  BY <1>1, <1>2, <1>3, <1>4, <1>5, <1>6, <1>7, <1>8, <1>9, <1>10 DEF Next

(* Rows of table events change only as Evolves says.                       *)
LEMMA NextEvolves ==
  ASSUME IInv, [Next]_vars
  PROVE  \A e \in Events : Evolves(event[e], event'[e])
<1>1. CASE UNCHANGED event
  BY <1>1 DEF Evolves
<1>2. ASSUME NEW c \in Creates, NEW id \in FreshIds(c), ~ Refused(c), InEnum(c),
             Inserts(c, id), UNCHANGED <<inputs, booking, old>>
      PROVE  \A e \in Events : Evolves(event[e], event'[e])
  BY <1>2, InsertsEffect
<1>3. ASSUME NEW u \in Updates, pc[u] = "write", Writes(u),
             UNCHANGED <<inputs, booking, old, made>>
      PROVE  \A e \in Events : Evolves(event[e], event'[e])
  BY <1>3, WritesEffect
<1>4. ASSUME NEW d \in Deletes, SoftDeletes(d), UNCHANGED <<inputs, booking, old, made>>
      PROVE  \A e \in Events : Evolves(event[e], event'[e])
  BY <1>4, SoftDeletesEffect
<1>5. ASSUME NEW b \in Bookings, NEW u \in Users, NEW e \in Events,
             NEW n \in 1..MaxTickets, Book(b, u, e, n)
      PROVE  \A f \in Events : Evolves(event[f], event'[f])
  BY <1>5, BookEffect
<1>6. ASSUME NEW b \in Bookings, Cancel(b)
      PROVE  \A e \in Events : Evolves(event[e], event'[e])
  BY <1>6, CancelEffect
<1>7. ASSUME NEW c \in Creates, Create(c) \/ CreateFails(c)
      PROVE  \A e \in Events : Evolves(event[e], event'[e])
  BY <1>1, <1>2, <1>7 DEF Create, CreateFails
<1>8. ASSUME NEW u \in Updates, ClientGets(u) \/ WriteUpdate(u) \/ WriteUpdateFails(u)
      PROVE  \A e \in Events : Evolves(event[e], event'[e])
  BY <1>1, <1>3, <1>8 DEF ClientGets, WriteUpdate, WriteUpdateFails
<1>9. ASSUME NEW d \in Deletes, WriteDelete(d) \/ WriteDeleteFails(d)
      PROVE  \A e \in Events : Evolves(event[e], event'[e])
  BY <1>1, <1>4, <1>9 DEF WriteDelete, WriteDeleteFails
<1>10. ASSUME NEW r \in Admins, ReadOld(r) \/ ReadFails(r) \/ AuditLog(r) \/ Crash(r)
       PROVE  \A e \in Events : Evolves(event[e], event'[e])
  BY <1>1, <1>10 DEF ReadOld, ReadFails, AuditLog, Crash
<1> QED
  BY <1>1, <1>5, <1>6, <1>7, <1>8, <1>9, <1>10 DEF Next, vars, Admins

(* Only the UPDATE changes the event of an update that ends by it.         *)
LEMMA OnlyWrites ==
  ASSUME IInv, [Next]_vars, NEW u \in Updates, NEW e, e = EventOf(u),
         pc[u] = "write", pc'[u] # "write", event'[e] # event[e]
  PROVE  Matches(u)
<1>1. \A r \in Creates \cup Deletes : r \in Admins /\ r # u
  BY AdminAssumption DEF Admins
<1>2. ASSUME NEW r \in Admins, r # u, NEW s, Goto(r, s) PROVE FALSE
  BY <1>2 DEF IInv, TypeOK, Goto, Admins
<1>3. ASSUME NEW c \in Creates, Create(c) \/ CreateFails(c) PROVE FALSE
  <2>1. c \in Admins /\ c # u
    BY <1>1
  <2>2. \E s : Goto(c, s)
    BY <1>3 DEF Create, CreateFails, Finish, ThenLog
  <2> QED
    BY <1>2, <2>1, <2>2
<1>4. ASSUME NEW v \in Updates, WriteUpdate(v) \/ WriteUpdateFails(v) PROVE Matches(u)
  <2>1. \E s : Goto(v, s)
    BY <1>4 DEF WriteUpdate, WriteUpdateFails, Finish, ThenLog
  <2>2. v = u
    BY <1>2, <2>1 DEF Admins
  <2>3. Writes(v)
    BY <1>4, <2>2 DEF WriteUpdate, WriteUpdateFails
  <2> QED
    BY <2>2, <2>3 DEF Writes
<1>5. ASSUME NEW d \in Deletes, WriteDelete(d) \/ WriteDeleteFails(d) PROVE FALSE
  <2>1. d \in Admins /\ d # u
    BY <1>1
  <2>2. \E s : Goto(d, s)
    BY <1>5 DEF WriteDelete, WriteDeleteFails, Finish, ThenLog
  <2> QED
    BY <1>2, <2>1, <2>2
<1>6. ASSUME NEW r \in Admins, ReadOld(r) \/ ReadFails(r) \/ AuditLog(r) \/ Crash(r)
      PROVE  FALSE
  BY <1>6 DEF ReadOld, ReadFails, AuditLog, Crash
<1>7. ASSUME NEW v \in Updates, ClientGets(v) PROVE FALSE
  BY <1>7 DEF ClientGets
<1>8. ASSUME NEW b \in Bookings, NEW w \in Users, NEW f \in Events,
             NEW n \in 1..MaxTickets, Book(b, w, f, n)
      PROVE  FALSE
  BY <1>8 DEF Book
<1>9. ASSUME NEW b \in Bookings, Cancel(b) PROVE FALSE
  BY <1>9 DEF Cancel
<1>10. CASE UNCHANGED vars
  BY <1>10 DEF vars
<1> QED
  BY <1>3, <1>4, <1>5, <1>6, <1>7, <1>8, <1>9, <1>10 DEF Next, Admins

-----------------------------------------------------------------------------
(* Every variable keeps its type: no request, whatever it asks, leaves an  *)
(* event with more tickets for sale than its total.                        *)
THEOREM AdminTypeOK == Spec => []TypeOK
<1>1. IInv => TypeOK
  BY DEF IInv
<1> QED
  BY <1>1, InitIInv, NextIInv, PTL DEF Spec

(* However updates race bookings and cancellations, and whatever versions  *)
(* they send: an event has more tickets for sale and sold than it was      *)
(* created with only if some PUT sent a version that its service's read    *)
(* had not reached.                                                        *)
THEOREM NeverOversoldAlways == Spec => []NeverOversold
<1>1. IInv => NeverOversold
  BY DEF IInv, Balanced, Honest, Left, NeverOversold, Tickets
<1> QED
  BY <1>1, InitIInv, NextIInv, PTL DEF Spec

(* A booking or a cancellation moves tickets, and keeps their number.      *)
LEMMA UsersKeepTickets ==
  ASSUME IInv, NEW b \in Bookings, NEW e \in Events, event[e] # NoRow,
         \/ \E u \in Users, f \in Events, n \in 1..MaxTickets : Book(b, u, f, n)
         \/ Cancel(b)
  PROVE  Tickets(e)' = Tickets(e)
<1> USE DEF IInv, Tickets
<1>1. /\ event[e].remaining \in Nat /\ Ledger!Sold(e) \in Nat /\ MaxTickets \in Nat
      /\ event \in [Events -> EventRows \cup {NoRow}] /\ event[e] \in EventRows
  BY SoldNat, AdminAssumption DEF TypeOK, EventRows
<1>2. ASSUME NEW u \in Users, NEW f \in Events, NEW n \in 1..MaxTickets, Book(b, u, f, n)
      PROVE  Tickets(e)' = Tickets(e)
  <2>1. /\ Ledger!Sold(f)' = Ledger!Sold(f) + n
        /\ \A g \in Events \ {f} : Ledger!Sold(g)' = Ledger!Sold(g)
    BY <1>2, BookCount
  <2>2. event' = [event EXCEPT ![f] = Sells(event[f], n)]
    BY <1>2 DEF Book
  <2>3. CASE e = f
    <3>1. event'[e].remaining = event[e].remaining - n
      BY <1>1, <2>2, <2>3 DEF Sells, EventRows
    <3> QED
      BY <1>1, <2>1, <2>3, <3>1
  <2>4. CASE e # f
    BY <1>1, <2>1, <2>2, <2>4
  <2> QED
    BY <2>3, <2>4
<1>3. CASE Cancel(b)
  <2>1. PICK f, n : f = booking[b].event /\ n = booking[b].count
    OBVIOUS
  <2>2. Active(b) /\ f \in Events /\ n \in 1..MaxTickets
    BY <1>3, <2>1 DEF Cancel, Active, TypeOK, BookingRows
  <2>3. CASE UNCHANGED <<event, booking>>
    BY <2>3, SoldFrame
  <2>4. CASE /\ event' = [event EXCEPT ![f].remaining = @ + n]
             /\ booking' = [booking EXCEPT ![b].status = "cancelled"]
    <3>1. /\ Ledger!Sold(f) = Ledger!Sold(f)' + n
          /\ Ledger!Sold(f)' \in Nat
          /\ \A g \in Events \ {f} : Ledger!Sold(g)' = Ledger!Sold(g)
      BY <2>1, <2>2, <2>4, CancelCount, Zenon
    <3>2. CASE e = f
      <4>1. event'[e].remaining = event[e].remaining + n
        BY <1>1, <2>4, <3>2 DEF EventRows
      <4> QED
        BY <1>1, <2>2, <3>1, <3>2, <4>1
    <3>3. CASE e # f
      BY <1>1, <2>4, <3>1, <3>3
    <3> QED
      BY <3>2, <3>3
  <2> QED
    BY <1>3, <2>1, <2>3, <2>4 DEF Cancel
<1> QED
  BY <1>2, <1>3

(* The UPDATE of a PUT: unless it was sent a version its service had not   *)
(* reached, the row has the version that was read, and so what was read of *)
(* remaining_tickets is right unless tickets came back.                    *)
LEMMA UpdateTickets ==
  ASSUME IInv, NEW u \in Updates, pc[u] = "write", Writes(u), UNCHANGED booking,
         NEW e \in Events, event[e] # NoRow, Tickets(e)' # Tickets(e)
  PROVE  /\ EventOf(u) = e /\ edit[u].version = event[e].version
         /\ \/ old[u].version = event[e].version /\ old[u].remaining < event[e].remaining
            \/ Ahead(u) /\ base[u] = NoRow
<1> USE DEF IInv
<1>1. event' = [event EXCEPT ![EventOf(u)] = Written(event[EventOf(u)], u)]
  BY DEF Writes
<1>2. Ledger!Sold(e)' = Ledger!Sold(e)
  BY SoldFrame
<1>3. event \in [Events -> EventRows \cup {NoRow}] /\ event[e] \in EventRows
  BY DEF TypeOK
<1>4. EventOf(u) = e
  BY <1>1, <1>2, <1>3 DEF Tickets
<1>5. event'[e].remaining = old[u].remaining
  BY <1>1, <1>3, <1>4 DEF Written, EventRows
<1>6. old[u].remaining # event[e].remaining
  BY <1>2, <1>5 DEF Tickets
<1>7. /\ old[u] \in EventRows /\ old[u] # NoRow
      /\ old[u].version = event[e].version => old[u].remaining <= event[e].remaining
  BY <1>4 DEF Pending, TypeOK
<1>8. event[e].version = edit[u].version
  BY <1>4 DEF Writes, Matches
<1>9. old[u].version <= event[e].version
  BY <1>4, <1>7 DEF Coherent, Known
<1>10. ASSUME old[u].version = event[e].version
       PROVE  old[u].remaining < event[e].remaining
  BY <1>3, <1>6, <1>7, <1>10, RowFields
<1>11. ASSUME old[u].version # event[e].version
       PROVE  Ahead(u) /\ base[u] = NoRow
  <2>1. old[u].version < edit[u].version
    BY <1>3, <1>7, <1>8, <1>9, <1>11, RowFields
  <2>2. base[u] # NoRow => edit[u].version <= old[u].version
    BY <1>7 DEF Seen
  <2>3. old[u].version \in Nat /\ edit[u].version \in Nat
    BY <1>3, <1>7, <1>8, RowFields
  <2> QED
    BY <1>7, <2>1, <2>2, <2>3 DEF Ahead
<1> QED
  BY <1>4, <1>8, <1>10, <1>11

(* Tickets are miscounted in two ways only: a PUT writes back the count    *)
(* that its service read before a cancellation, or one read at an older    *)
(* version than the PUT was sent with, which its client had made up.       *)
(* Nothing else, be it a creation, a deletion, a booking, a crash or a     *)
(* stale edit, parts an event's tickets for sale and sold from their sum.  *)
THEOREM MiscountsAreStaleUpdates == Spec => OnlyStaleUpdatesMiscount
<1>1. ASSUME IInv, Next, NEW e \in Events, event[e] # NoRow, Tickets(e)' # Tickets(e)
      PROVE  \E u \in Updates :
               /\ EventOf(u) = e /\ pc[u] = "write"
               /\ edit[u].version = event[e].version
               /\ \/ /\ old[u].version = event[e].version
                     /\ old[u].remaining < event[e].remaining
                  \/ Ahead(u) /\ base[u] = NoRow
  <2> USE <1>1 DEF IInv
  <2>1. ASSUME UNCHANGED booking, event'[e].remaining = event[e].remaining PROVE FALSE
    BY <2>1, SoldFrame DEF Tickets
  <2>2. ASSUME NEW c \in Creates, Create(c) \/ CreateFails(c) PROVE FALSE
    <3>1. ASSUME NEW id \in FreshIds(c), Inserts(c, id) PROVE event'[e] = event[e]
      BY <3>1 DEF FreshIds, Inserts
    <3> QED
      BY <2>1, <2>2, <3>1 DEF Create, CreateFails
  <2>3. ASSUME NEW u \in Updates, ClientGets(u) \/ WriteUpdate(u) \/ WriteUpdateFails(u)
        PROVE  /\ EventOf(u) = e /\ pc[u] = "write"
               /\ edit[u].version = event[e].version
               /\ \/ /\ old[u].version = event[e].version
                     /\ old[u].remaining < event[e].remaining
                  \/ Ahead(u) /\ base[u] = NoRow
    <3>1. pc[u] = "write" /\ Writes(u) /\ UNCHANGED booking
      BY <2>1, <2>3 DEF ClientGets, WriteUpdate, WriteUpdateFails
    <3> QED
      BY <3>1, UpdateTickets
  <2>4. ASSUME NEW d \in Deletes, WriteDelete(d) \/ WriteDeleteFails(d) PROVE FALSE
    <3>1. UNCHANGED booking /\ (UNCHANGED event \/ SoftDeletes(d))
      BY <2>4 DEF WriteDelete, WriteDeleteFails
    <3>2. ASSUME SoftDeletes(d) PROVE event'[e].remaining = event[e].remaining
      BY <3>2 DEF SoftDeletes, TypeOK, EventRows
    <3> QED
      BY <2>1, <3>1, <3>2
  <2>5. ASSUME NEW r \in Admins, ReadOld(r) \/ ReadFails(r) \/ AuditLog(r) \/ Crash(r)
        PROVE  FALSE
    BY <2>1, <2>5 DEF ReadOld, ReadFails, AuditLog, Crash
  <2>6. ASSUME NEW b \in Bookings,
               \/ \E u \in Users, f \in Events, n \in 1..MaxTickets : Book(b, u, f, n)
               \/ Cancel(b)
        PROVE  FALSE
    BY <2>6, UsersKeepTickets
  <2> QED
    BY <2>2, <2>3, <2>4, <2>5, <2>6 DEF Next, Admins
<1>2. ASSUME IInv, [Next]_vars
      PROVE  [\A e \in Events :
                event[e] # NoRow /\ Tickets(e)' # Tickets(e) =>
                  \E u \in Updates :
                    /\ EventOf(u) = e /\ pc[u] = "write"
                    /\ edit[u].version = event[e].version
                    /\ \/ /\ old[u].version = event[e].version
                          /\ old[u].remaining < event[e].remaining
                       \/ Ahead(u) /\ base[u] = NoRow]_vars
  BY <1>1, <1>2
<1> QED
  BY <1>2, InitIInv, NextIInv, PTL DEF Spec, OnlyStaleUpdatesMiscount

(* Whatever entries are lost and whatever versions are sent, those in the  *)
(* audit log tell a possible history of every event.                       *)
THEOREM AdminAuditIsTrue == Spec => []AuditIsTrue
<1>1. ASSUME IInv PROVE AuditIsTrue
  <2> USE <1>1 DEF IInv
  <2>1. \A x \in trail :
          /\ x \in Entries /\ Logged(x) /\ x.event \in Events
          /\ x.old \in EventRows \cup {NoRow} /\ x.new \in EventRows \cup {NoRow}
          /\ x.by \in Admins
    BY DEF TypeOK, Logged, Entries
  <2>2. \A x \in trail : Known(x.event, x.old) /\ Known(x.event, x.new)
    BY <2>1 DEF Known
  <2>3. \A x \in trail :
          /\ event[x.event] # NoRow
          /\ x.by \in Updates =>
               /\ x.new.version = edit[x.by].version + 1
               /\ x.new.version <= event[x.event].version
               /\ x.old.version <= edit[x.by].version
               /\ base[x.by] # NoRow => x.old.version = edit[x.by].version
          /\ x.by \in Deletes => event[x.event].deleted
    BY <2>1, <2>2 DEF Authored, Spans, Coherent
  <2>4. \A x, y \in trail : x.event = y.event /\ x # y =>
          /\ x.by \in Deletes => y.by \notin Deletes
          /\ x.by \in Creates => y.by \notin Creates
          /\ x.by \in Updates /\ y.by \in Updates => x.new.version # y.new.version
    BY <2>1 DEF Distinct
  <2>5. ASSUME NEW x \in trail, NEW y \in trail, x.event = y.event,
               x.by \notin Deletes, y.by \notin Creates, x.new.version = y.old.version
        PROVE  x.new.total = y.old.total /\ x.new.status = y.old.status
    <3>1. x.new \in EventRows /\ y.old \in EventRows
      BY <2>1, <2>5 DEF Authored, Spans, Admins
    <3> QED
      BY <2>1, <2>2, <2>5, <3>1 DEF Coherent
  <2> QED
    BY <2>3, <2>4, <2>5 DEF AuditIsTrue
<1> QED
  BY <1>1, InitIInv, NextIInv, PTL DEF Spec

(* An update that takes effect meets the version it was sent with, and     *)
(* replaces the state its author saw at that version, however many         *)
(* requests edit, book or delete the event meanwhile.                      *)
THEOREM UpdatesAreAlwaysSeen == Spec => UpdatesAreSeen
<1>1. ASSUME IInv, [Next]_vars, NEW u \in Updates, NEW e, e = EventOf(u),
             pc[u] = "write", pc'[u] # "write", event'[e] # event[e]
      PROVE  /\ ~ event[e].deleted
             /\ event[e].version = edit[u].version
             /\ base[u] # NoRow =>
                  event[e].total = base[u].total /\ event[e].status = base[u].status
  <2> USE <1>1 DEF IInv
  <2>1. event[e] # NoRow /\ ~ event[e].deleted /\ event[e].version = edit[u].version
    BY <1>1, OnlyWrites DEF Matches, Exists
  <2>2. e \in Events /\ event[e] \in EventRows
    BY <1>1, <2>1 DEF TypeOK, Pending, EventOf, Edits
  <2>3. ASSUME base[u] # NoRow
        PROVE  event[e].total = base[u].total /\ event[e].status = base[u].status
    <3>1. base[u] \in EventRows /\ base[u].version = edit[u].version
      BY <2>3 DEF TypeOK, Seen
    <3>2. Known(e, event[e]) /\ Known(e, base[u])
      BY <1>1 DEF Known
    <3> QED
      BY <2>1, <2>2, <3>1, <3>2 DEF Coherent
  <2> QED
    BY <2>1, <2>3
<1>2. ASSUME IInv, [Next]_vars
      PROVE  [\A u \in Updates :
                LET e == EventOf(u) IN
                pc[u] = "write" /\ pc'[u] # "write" /\ event'[e] # event[e] =>
                  /\ ~ event[e].deleted
                  /\ event[e].version = edit[u].version
                  /\ base[u] # NoRow =>
                       event[e].total = base[u].total /\ event[e].status = base[u].status]_vars
  BY <1>1, <1>2
<1> QED
  BY <1>2, InitIInv, NextIInv, PTL DEF Spec, UpdatesAreSeen

(* A deleted event only ever takes back the tickets of bookings that are   *)
(* cancelled.                                                              *)
THEOREM DeletedStaysFinal == Spec => DeletedIsFinal
<1>1. ASSUME IInv, [Next]_vars, NEW e \in Events, event[e] # NoRow, event[e].deleted
      PROVE  \E n \in event[e].remaining..event[e].total :
               event'[e] = [event[e] EXCEPT !.remaining = n]
  <2>1. event[e] \in EventRows
    BY <1>1 DEF IInv, TypeOK
  <2>2. /\ event[e] \in [total : 1..MaxTickets, remaining : 0..MaxTickets,
                         status : Statuses, deleted : BOOLEAN, version : Nat \ {0}]
        /\ event[e].remaining \in event[e].remaining..event[e].total
    BY <2>1, AdminAssumption DEF EventRows
  <2>3. event[e] = [event[e] EXCEPT !.remaining = event[e].remaining]
    BY <2>2
  <2>4. [event[e] EXCEPT !.deleted = TRUE] = event[e]
    BY <1>1, <2>2
  <2>5. Evolves(event[e], event'[e])
    BY <1>1, NextEvolves
  <2>6. \/ event'[e] = event[e]
        \/ \E n \in event[e].remaining..event[e].total :
             event'[e] = [event[e] EXCEPT !.remaining = n]
    BY <1>1, <2>4, <2>5 DEF Evolves
  <2> QED
    BY <2>2, <2>3, <2>6
<1>2. ASSUME IInv, [Next]_vars
      PROVE  [\A e \in Events : event[e] # NoRow /\ event[e].deleted =>
                \E n \in event[e].remaining..event[e].total :
                  event'[e] = [event[e] EXCEPT !.remaining = n]]_vars
  BY <1>1, <1>2
<1> QED
  BY <1>2, InitIInv, NextIInv, PTL DEF Spec, DeletedIsFinal

-----------------------------------------------------------------------------
(* An update's entry starts at the row its service read and ends at that   *)
(* row as the request wants it, one version after the one sent.  A row     *)
(* that was read for an update was not deleted.                            *)
EntryOK(x) ==
  /\ x.by \in Updates /\ x.event = EventOf(x.by) /\ x.old # NoRow
  /\ x.new = [x.old EXCEPT !.total = edit[x.by].spec.total,
                           !.status = edit[x.by].spec.status,
                           !.version = edit[x.by].version + 1]

Faithful ==
  /\ \A x \in Entries : Logged(x) /\ x.by \in Updates => EntryOK(x)
  /\ \A u \in Updates : old[u] # NoRow => ~ old[u].deleted

(* The entry of an update that has just written.                           *)
LEMMA WrittenEntry ==
  ASSUME IInv, Faithful, NEW u \in Updates, WriteUpdate(u), Writes(u)
  PROVE  EntryOK(Entry(u, EventOf(u), old[u], event'[EventOf(u)]))
<1> DEFINE e == EventOf(u)
<1>1. /\ TypeOK /\ e \in Events /\ event[e] # NoRow /\ ~ event[e].deleted
      /\ event[e].version = edit[u].version /\ old[u] # NoRow
  BY DEF IInv, TypeOK, Pending, EventOf, Edits, WriteUpdate, Writes, Matches, Exists
<1>2. event[e] \in EventRows /\ old[u] \in EventRows
  BY <1>1 DEF TypeOK
<1>3. event'[e] = Written(event[e], u)
  BY <1>1 DEF Writes, TypeOK
<1>4. ~ old[u].deleted
  BY <1>1 DEF Faithful
<1>5. event'[e] = [old[u] EXCEPT !.total = edit[u].spec.total,
                                 !.status = edit[u].spec.status,
                                 !.version = edit[u].version + 1]
  <2>1. /\ event[e] = [total |-> event[e].total, remaining |-> event[e].remaining,
                       status |-> event[e].status, deleted |-> event[e].deleted,
                       version |-> event[e].version]
        /\ old[u] = [total |-> old[u].total, remaining |-> old[u].remaining,
                     status |-> old[u].status, deleted |-> old[u].deleted,
                     version |-> old[u].version]
        /\ event[e].deleted = old[u].deleted
    BY <1>1, <1>2, <1>4 DEF EventRows
  <2>2. PICK n : n = edit[u].version + 1
    OBVIOUS
  <2>3. event'[e] = [event[e] EXCEPT !.total = edit[u].spec.total,
                                     !.status = edit[u].spec.status,
                                     !.remaining = old[u].remaining, !.version = n]
    BY <1>1, <1>3, <2>1, <2>2 DEF Written
  <2>4. event'[e] = [old[u] EXCEPT !.total = edit[u].spec.total,
                                   !.status = edit[u].spec.status, !.version = n]
    BY <2>1, <2>3, ZenonT(40)
  <2> QED
    BY <2>2, <2>4
<1> QED
  BY <1>1, <1>5 DEF EntryOK, Entry

(* Where a new entry of an update comes from.                              *)
LEMMA NewEntry ==
  ASSUME IInv, [Next]_vars, NEW x \in Entries, Logged(x)', ~ Logged(x), x.by \in Updates
  PROVE  \E u \in Updates :
           /\ WriteUpdate(u) /\ Writes(u)
           /\ x = Entry(u, EventOf(u), old[u], event'[EventOf(u)])
<1>1. TypeOK
  BY DEF IInv
<1>2. ASSUME NEW r \in Admins, NEW E, todo' = [todo EXCEPT ![r] = E], trail' = trail
      PROVE  x \in E
  BY <1>1, <1>2 DEF Logged, TypeOK
<1>3. ASSUME todo' = todo, trail' = trail PROVE FALSE
  BY <1>3 DEF Logged
<1>4. ASSUME NEW c \in Creates, Create(c) \/ CreateFails(c) PROVE FALSE
  <2>1. ASSUME NEW id, ThenLog(c, {Entry(c, id[i], NoRow, RowFor(asked[c][i])) : i \in DOMAIN id}),
               trail' = trail
        PROVE  FALSE
    <3>1. c \in Admins
      BY DEF Admins
    <3>2. x \in {Entry(c, id[i], NoRow, RowFor(asked[c][i])) : i \in DOMAIN id}
      BY <1>2, <2>1, <3>1 DEF ThenLog
    <3> QED
      BY <3>2, AdminAssumption DEF Entry
  <2> QED
    BY <1>3, <1>4, <2>1 DEF Create, CreateFails
<1>5. ASSUME NEW u \in Updates, WriteUpdate(u)
      PROVE  Writes(u) /\ x = Entry(u, EventOf(u), old[u], event'[EventOf(u)])
  <2>1. u \in Admins
    BY DEF Admins
  <2> QED
    BY <1>2, <1>3, <1>5, <2>1 DEF WriteUpdate, ThenLog
<1>6. ASSUME NEW d \in Deletes, WriteDelete(d) PROVE FALSE
  <2>1. d \in Admins /\ d \notin Updates
    BY AdminAssumption DEF Admins
  <2>2. CASE ThenLog(d, {Entry(d, EventOf(d), old[d], NoRow)})
    <3>1. x = Entry(d, EventOf(d), old[d], NoRow)
      BY <1>2, <1>6, <2>1, <2>2 DEF WriteDelete, ThenLog
    <3> QED
      BY <2>1, <3>1 DEF Entry
  <2>3. CASE UNCHANGED todo
    BY <1>3, <1>6, <2>3 DEF WriteDelete
  <2> QED
    BY <1>6, <2>2, <2>3 DEF WriteDelete
<1>7. ASSUME NEW r \in Admins, AuditLog(r) PROVE FALSE
  BY <1>1, <1>7 DEF AuditLog, Logged, TypeOK
<1>8. ASSUME \/ \E u \in Updates : ClientGets(u) \/ WriteUpdateFails(u)
             \/ \E d \in Deletes : WriteDeleteFails(d)
             \/ \E r \in Updates \cup Deletes : ReadOld(r) \/ ReadFails(r)
             \/ \E r \in Admins : Crash(r)
             \/ \E b \in Bookings, u \in Users, e \in Events, n \in 1..MaxTickets : Book(b, u, e, n)
             \/ \E b \in Bookings : Cancel(b)
             \/ UNCHANGED vars
      PROVE  FALSE
  BY <1>3, <1>8 DEF ClientGets, WriteUpdateFails, WriteDeleteFails, ReadOld, ReadFails,
     Crash, Book, Cancel, vars
<1> QED
  BY <1>4, <1>5, <1>6, <1>7, <1>8 DEF Next

(* What a step leaves alone: the inputs, and a row once read.              *)
LEMMA ReadsStay ==
  ASSUME TypeOK, [Next]_vars
  PROVE  /\ edit' = edit /\ victim' = victim
         /\ \A u \in Updates :
              \/ old'[u] = old[u]
              \/ ReadOld(u) /\ Exists(EventOf(u)) /\ old'[u] = event[EventOf(u)]
<1>1. edit' = edit /\ victim' = victim
  BY DEF Next, vars, inputs, Create, CreateFails, ClientGets, WriteUpdate, WriteUpdateFails,
     WriteDelete, WriteDeleteFails, ReadOld, ReadFails, AuditLog, Crash, Book, Cancel
<1>3. ASSUME NEW u \in Updates
      PROVE  old'[u] = old[u] \/ (ReadOld(u) /\ Exists(EventOf(u)) /\ old'[u] = event[EventOf(u)])
  <2>1. ASSUME NEW r \in Updates \cup Deletes, ReadOld(r)
        PROVE  old'[u] = old[u] \/ (ReadOld(u) /\ Exists(EventOf(u)) /\ old'[u] = event[EventOf(u)])
    BY <2>1 DEF ReadOld, TypeOK
  <2>2. CASE ~ \E r \in Updates \cup Deletes : ReadOld(r)
    BY <2>2 DEF Next, vars, Create, CreateFails, ClientGets, WriteUpdate, WriteUpdateFails,
       WriteDelete, WriteDeleteFails, ReadFails, AuditLog, Crash, Book, Cancel
  <2> QED
    BY <2>1, <2>2
<1> QED
  BY <1>1, <1>3

(* Entries stay faithful.                                                  *)
LEMMA NextFaithful == IInv /\ Faithful /\ [Next]_vars => Faithful'
<1> SUFFICES ASSUME IInv, Faithful, [Next]_vars PROVE Faithful'
  OBVIOUS
<1>1. TypeOK /\ edit' = edit /\ victim' = victim
  BY ReadsStay DEF IInv
<1>2. ASSUME NEW x \in Entries, EntryOK(x) PROVE EntryOK(x)'
  BY <1>1, <1>2 DEF EntryOK, EventOf
<1>3. ASSUME NEW x \in Entries, Logged(x)', x.by \in Updates PROVE EntryOK(x)'
  <2>1. CASE Logged(x)
    BY <1>2, <1>3, <2>1 DEF Faithful
  <2>2. CASE ~ Logged(x)
    <3>1. PICK u \in Updates : /\ WriteUpdate(u) /\ Writes(u)
                               /\ x = Entry(u, EventOf(u), old[u], event'[EventOf(u)])
      BY <1>3, <2>2, NewEntry
    <3> QED
      BY <1>2, <3>1, WrittenEntry
  <2> QED
    BY <2>1, <2>2
<1>4. ASSUME NEW u \in Updates, old'[u] # NoRow PROVE ~ old'[u].deleted
  BY <1>1, <1>4, ReadsStay DEF Faithful, Exists
<1> QED
  BY <1>3, <1>4 DEF Faithful

(* The fields of a row.                                                    *)
LEMMA RowDomain ==
  ASSUME NEW row \in EventRows
  PROVE  /\ Fields(row) = {"total", "remaining", "status", "deleted", "version"}
         /\ row = [total |-> row.total, remaining |-> row.remaining, status |-> row.status,
                   deleted |-> row.deleted, version |-> row.version]
<1>1. row # NoRow
  BY AdminAssumption
<1> QED
  BY <1>1 DEF EventRows, Fields

(* The diff of a row and the same row as an update leaves it.              *)
LEMMA DiffOfUpdate ==
  ASSUME NEW row \in EventRows, NEW after \in EventRows,
         after.remaining = row.remaining, after.deleted = row.deleted,
         after.version = row.version + 1
  PROVE  LET diff == ComputeDiff(row, after) IN
         /\ DOMAIN diff = {"version"} \cup {f \in {"total", "status"} : row[f] # after[f]}
         /\ \A f \in DOMAIN diff : diff[f] = [old |-> row[f], new |-> after[f]]
<1> DEFINE F == {"total", "remaining", "status", "deleted", "version"}
           D == {f \in F : row[f] # after[f]}
<1>1. Fields(row) = F /\ Fields(after) = F
  BY RowDomain
<1>2. ComputeDiff(row, after) = [f \in D |-> [old |-> row[f], new |-> after[f]]]
  BY <1>1 DEF ComputeDiff
<1>3. D = {"version"} \cup {f \in {"total", "status"} : row[f] # after[f]}
  <2>1. row.version # after.version
    BY DEF EventRows
  <2>2. /\ row["version"] # after["version"]
        /\ row["remaining"] = after["remaining"] /\ row["deleted"] = after["deleted"]
    BY <2>1
  <2> QED
    BY <2>2
<1> QED
  BY <1>2, <1>3

(* The diff in an update's audit entry is what its author did, if it sent  *)
(* the version it saw, and nothing that came between the client's GET and  *)
(* the service's read.                                                     *)
THEOREM DiffsAreAlwaysTrue == Spec => []DiffsAreTrue
<1>1. Init => Faithful
  BY DEF Init, Faithful, Logged
<1>2. Spec => [](IInv /\ Faithful)
  BY <1>1, InitIInv, NextIInv, NextFaithful, PTL DEF Spec
<1>3. ASSUME IInv, Faithful, NEW x \in trail, x.by \in Updates, base[x.by] # NoRow
      PROVE  LET diff == ComputeDiff(x.old, x.new)
                 saw == base[x.by]
                 asks == edit[x.by].spec
             IN
             /\ DOMAIN diff = {"version"} \cup {f \in {"total", "status"} : asks[f] # saw[f]}
             /\ \A f \in DOMAIN diff \ {"version"} : diff[f] = [old |-> saw[f], new |-> asks[f]]
  <2>1. TypeOK /\ x \in Entries /\ Logged(x) /\ EntryOK(x)
    BY <1>3 DEF IInv, TypeOK, Logged, Faithful
  <2>2. x.old \in EventRows /\ base[x.by] \in EventRows /\ x.event \in Events
    BY <1>3, <2>1 DEF TypeOK, Entries, EntryOK
  <2>3. x.new \in EventRows /\ Spans(x) /\ base[x.by].version = edit[x.by].version
    BY <1>3, <2>1 DEF IInv, Authored, Seen, Spans, Entries
  <2>4. Known(x.event, x.old) /\ Known(x.event, base[x.by])
    BY <2>1 DEF Known, EntryOK
  <2>5. x.old.total = base[x.by].total /\ x.old.status = base[x.by].status
    BY <1>3, <2>2, <2>3, <2>4 DEF IInv, Coherent, Spans
  <2>6. /\ x.new.remaining = x.old.remaining /\ x.new.deleted = x.old.deleted
        /\ x.new.version = x.old.version + 1
        /\ x.new.total = edit[x.by].spec.total /\ x.new.status = edit[x.by].spec.status
    BY <1>3, <2>1, <2>2, <2>3 DEF EntryOK, Spans, EventRows
  <2>7. /\ x.new["total"] = edit[x.by].spec["total"] /\ x.new["status"] = edit[x.by].spec["status"]
        /\ x.old["total"] = base[x.by]["total"] /\ x.old["status"] = base[x.by]["status"]
    BY <2>5, <2>6
  <2> DEFINE diff == ComputeDiff(x.old, x.new)
  <2>8. /\ DOMAIN diff = {"version"} \cup {f \in {"total", "status"} : x.old[f] # x.new[f]}
        /\ \A f \in DOMAIN diff : diff[f] = [old |-> x.old[f], new |-> x.new[f]]
    BY <2>2, <2>3, <2>6, DiffOfUpdate
  <2> HIDE DEF diff
  <2> QED
    BY <2>7, <2>8 DEF diff
<1>4. IInv /\ Faithful => DiffsAreTrue
  BY <1>3 DEF DiffsAreTrue
<1> QED
  BY <1>2, <1>4, PTL
=============================================================================
