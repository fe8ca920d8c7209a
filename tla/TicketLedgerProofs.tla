------------------------- MODULE TicketLedgerProofs -------------------------
(***************************************************************************)
(* TLAPS proofs that the atomic ledger conserves tickets and gives a user  *)
(* at most one active booking of an event, for any sets of users, events   *)
(* and bookings and any bound on tickets.                                  *)
(***************************************************************************)
EXTENDS TicketLedger, FiniteSetTheorems, TLAPS

(* The tickets of one booking of n tickets.                                *)
Taken(b, n) == {b} \X (1..n)

(* A booking of n tickets occupies n seats.                                *)
LEMMA TakenCardinality ==
  ASSUME NEW b, NEW n \in Nat
  PROVE  IsFiniteSet(Taken(b, n)) /\ Cardinality(Taken(b, n)) = n
<1>1. IsFiniteSet({b}) /\ Cardinality({b}) = 1
  BY FS_Singleton
<1>2. IsFiniteSet(1..n) /\ Cardinality(1..n) = n
  BY FS_Interval
<1>3. /\ IsFiniteSet({b} \X (1..n))
      /\ Cardinality({b} \X (1..n)) = Cardinality({b}) * Cardinality(1..n)
  BY <1>1, <1>2, FS_Product
<1> QED
  BY <1>1, <1>2, <1>3 DEF Taken

(* Any event's seats form a finite set.                                    *)
LEMMA SeatsFinite ==
  ASSUME LedgerAssumption, NEW e
  PROVE  IsFiniteSet(Seats(e)) /\ Cardinality(Seats(e)) \in Nat
<1>1. IsFiniteSet(1..MaxTickets)
  BY FS_Interval DEF LedgerAssumption
<1>2. IsFiniteSet(Bookings \X (1..MaxTickets))
  BY <1>1, FS_Product DEF LedgerAssumption
<1>3. Seats(e) \in SUBSET (Bookings \X (1..MaxTickets))
  BY DEF Seats
<1>4. IsFiniteSet(Seats(e))
  BY <1>2, <1>3, FS_Subset
<1> QED
  BY <1>4, FS_CardinalityType

(* Adding disjoint tickets to a finite set of seats adds their number.     *)
LEMMA AddTaken ==
  ASSUME NEW S, NEW T, NEW b, NEW n \in Nat,
         IsFiniteSet(S), T = S \cup Taken(b, n), S \cap Taken(b, n) = {}
  PROVE  Cardinality(T) = Cardinality(S) + n
<1>1. IsFiniteSet(Taken(b, n)) /\ Cardinality(Taken(b, n)) = n
  BY TakenCardinality
<1>2. Cardinality(T) = Cardinality(S) + Cardinality(Taken(b, n)) - Cardinality({})
  BY <1>1, FS_Union
<1>3. Cardinality({}) = 0 /\ Cardinality(S) \in Nat
  BY FS_EmptySet, FS_CardinalityType
<1> QED
  BY <1>1, <1>2, <1>3

-----------------------------------------------------------------------------
(* A booking moves its tickets from the stock to the seats of its event.   *)
LEMMA BookSeats ==
  ASSUME LedgerAssumption, booking \in [Bookings -> Rows \cup {NoRow}],
         NEW b \in Bookings, NEW u \in Users, NEW e \in Events,
         NEW n \in 1..MaxTickets, booking[b] = NoRow,
         booking' = [booking EXCEPT ![b] =
                       [user |-> u, event |-> e, count |-> n, status |-> "confirmed"]]
  PROVE  /\ Seats(e)' = Seats(e) \cup Taken(b, n)
         /\ Seats(e) \cap Taken(b, n) = {}
         /\ \A f \in Events \ {e} : Seats(f)' = Seats(f)
<1>2. booking[b] = NoRow
  OBVIOUS
<1>3. NoRow # booking'[b]
  BY DEF Rows, Statuses, LedgerAssumption
<1>4. /\ \A c \in Bookings \ {b} : booking'[c] = booking[c]
      /\ booking'[b].event = e /\ booking'[b].count = n
      /\ booking'[b].status = "confirmed"
  OBVIOUS
<1>5. \A i \in 1..MaxTickets : i <= n <=> i \in 1..n
  BY DEF LedgerAssumption
<1>6. 1..n \subseteq 1..MaxTickets
  BY DEF LedgerAssumption
<1>7. \A c \in Bookings \ {b} : Active(c)' <=> Active(c)
  BY <1>4 DEF Active
<1>8. Active(b)' /\ ~ Active(b)
  BY <1>2, <1>3, <1>4 DEF Active
<1>9. \A s \in Bookings \X (1..MaxTickets) :
        s \in Taken(b, n) <=> s[1] = b /\ s[2] <= n
  BY <1>5 DEF Taken
<1>10. Taken(b, n) \subseteq Bookings \X (1..MaxTickets)
  BY <1>6 DEF Taken
<1>11. Seats(e)' = Seats(e) \cup Taken(b, n)
  BY <1>4, <1>7, <1>8, <1>9, <1>10 DEF Seats
<1>12. Seats(e) \cap Taken(b, n) = {}
  BY <1>8, <1>9 DEF Seats
<1>13. \A f \in Events \ {e} : Seats(f)' = Seats(f)
  BY <1>4, <1>7, <1>8 DEF Seats
<1> QED
  BY <1>11, <1>12, <1>13

(* What a cancellation does to its row, one of n tickets of e.             *)
Withdraws(b, e, n) ==
  /\ booking' = [booking EXCEPT ![b].status = "cancelled"]
  /\ e = booking[b].event /\ n = booking[b].count

(* A cancellation takes the booking's tickets out of the seats.            *)
LEMMA CancelSeats ==
  ASSUME LedgerAssumption, booking \in [Bookings -> Rows \cup {NoRow}],
         NEW b \in Bookings, Active(b), NEW e, NEW n, Withdraws(b, e, n)
  PROVE  /\ Seats(e) = Seats(e)' \cup Taken(b, n)
         /\ Seats(e)' \cap Taken(b, n) = {}
         /\ \A f \in Events \ {e} : Seats(f)' = Seats(f)
<1>1. booking[b] # NoRow /\ booking[b].status = "confirmed"
  BY DEF Active
<1>2. booking[b] \in Rows
  BY <1>1
<1>3. /\ \A c \in Bookings \ {b} : booking'[c] = booking[c]
      /\ booking'[b].status = "cancelled"
      /\ e = booking[b].event /\ n = booking[b].count
  BY <1>1, <1>2 DEF Rows, Withdraws
<1>4. n \in 1..MaxTickets
  BY <1>2, <1>3 DEF Rows
<1>5. \A i \in 1..MaxTickets : i <= n <=> i \in 1..n
  BY <1>4 DEF LedgerAssumption
<1>6. 1..n \subseteq 1..MaxTickets
  BY <1>4 DEF LedgerAssumption
<1>7. \A c \in Bookings \ {b} : Active(c)' <=> Active(c)
  BY <1>3 DEF Active
<1>8. Active(b) /\ ~ Active(b)'
  BY <1>1, <1>3 DEF Active
<1>9. \A s \in Bookings \X (1..MaxTickets) :
        s \in Taken(b, n) <=> s[1] = b /\ s[2] <= n
  BY <1>5 DEF Taken
<1>10. Taken(b, n) \subseteq Bookings \X (1..MaxTickets)
  BY <1>6 DEF Taken
<1>11. Seats(e) = Seats(e)' \cup Taken(b, n)
  BY <1>3, <1>7, <1>8, <1>9, <1>10 DEF Seats
<1>12. Seats(e)' \cap Taken(b, n) = {}
  BY <1>8, <1>9 DEF Seats
<1>13. \A f \in Events \ {e} : Seats(f)' = Seats(f)
  BY <1>3, <1>7, <1>8 DEF Seats
<1> QED
  BY <1>11, <1>12, <1>13

(* A booking of n tickets adds n to the tickets sold for its event.        *)
LEMMA BookSold ==
  ASSUME LedgerAssumption, booking \in [Bookings -> Rows \cup {NoRow}],
         NEW b \in Bookings, NEW u \in Users, NEW e \in Events,
         NEW n \in 1..MaxTickets, booking[b] = NoRow,
         booking' = [booking EXCEPT ![b] =
                       [user |-> u, event |-> e, count |-> n, status |-> "confirmed"]]
  PROVE  /\ Sold(e) \in Nat
         /\ Sold(e)' = Sold(e) + n
         /\ \A f \in Events \ {e} : Sold(f)' = Sold(f)
<1>1. /\ Seats(e)' = Seats(e) \cup Taken(b, n)
      /\ Seats(e) \cap Taken(b, n) = {}
      /\ \A f \in Events \ {e} : Seats(f)' = Seats(f)
  BY BookSeats, Zenon
<1>2. Cardinality(Seats(e)') = Cardinality(Seats(e)) + n
  BY <1>1, AddTaken, SeatsFinite DEF LedgerAssumption
<1> QED
  BY <1>1, <1>2, SeatsFinite DEF Sold

(* A cancellation takes the booking's tickets off those sold.              *)
LEMMA CancelSold ==
  ASSUME LedgerAssumption, booking \in [Bookings -> Rows \cup {NoRow}],
         NEW b \in Bookings, Active(b), NEW e, NEW n, Withdraws(b, e, n)
  PROVE  /\ Sold(e)' \in Nat
         /\ Sold(e) = Sold(e)' + n
         /\ \A f \in Events \ {e} : Sold(f)' = Sold(f)
<1>1. n \in 1..MaxTickets
  BY DEF Active, Rows, Withdraws
<1>2. /\ Seats(e) = Seats(e)' \cup Taken(b, n)
      /\ Seats(e)' \cap Taken(b, n) = {}
      /\ \A f \in Events \ {e} : Seats(f)' = Seats(f)
  BY CancelSeats, Zenon
<1>3. IsFiniteSet(Seats(e)') /\ Cardinality(Seats(e)') \in Nat
  <2>1. Seats(e)' \in SUBSET Seats(e)
    BY <1>2
  <2> QED
    BY <2>1, SeatsFinite, FS_Subset, FS_CardinalityType
<1>4. Cardinality(Seats(e)) = Cardinality(Seats(e)') + n
  BY <1>1, <1>2, <1>3, AddTaken DEF LedgerAssumption
<1> QED
  BY <1>2, <1>3, <1>4 DEF Sold

-----------------------------------------------------------------------------
(* What holds in every state of the ledger; Conservation is needed for     *)
(* TypeOK, since it keeps a cancellation from overfilling the stock.       *)
Inv == TypeOK /\ Conservation /\ OneActivePerUser

(* An empty ledger balances.                                               *)
LEMMA InitInv == LedgerAssumption /\ Init => Inv
<1> SUFFICES ASSUME LedgerAssumption, Init PROVE Inv
  OBVIOUS
<1>1. TypeOK
  BY DEF Init, TypeOK
<1>2. \A b \in Bookings : ~ Active(b)
  BY DEF Init, Active
<1>3. ASSUME NEW e \in Events
      PROVE  stock[e].remaining + Sold(e) = stock[e].total
  <2>1. Seats(e) = {}
    BY <1>2 DEF Seats
  <2>2. Sold(e) = 0
    BY <2>1, FS_EmptySet DEF Sold
  <2>3. stock[e].remaining = stock[e].total /\ stock[e].total \in 1..MaxTickets
    BY DEF Init, Stock
  <2> QED
    BY <2>2, <2>3 DEF LedgerAssumption
<1> QED
  BY <1>1, <1>2, <1>3 DEF Inv, Conservation, OneActivePerUser

(* Book keeps the books.                                                   *)
LEMMA BookInv ==
  ASSUME LedgerAssumption, Inv, NEW b \in Bookings, NEW u \in Users, NEW e \in Events,
         NEW n \in 1..MaxTickets, Book(b, u, e, n)
  PROVE  Inv'
<1> USE DEF Inv
<1>1. /\ n <= stock[e].remaining
      /\ stock' = [stock EXCEPT ![e].remaining = @ - n]
      /\ booking' = [booking EXCEPT ![b] =
                       [user |-> u, event |-> e, count |-> n, status |-> "confirmed"]]
      /\ booking[b] = NoRow /\ ~ HasActive(u, e)
  BY DEF Book, HasStock, Barred
<1>2. stock[e] \in Stock
  BY DEF TypeOK
<1>3. /\ \A f \in Events \ {e} : stock'[f] = stock[f]
      /\ stock'[e].remaining = stock[e].remaining - n
      /\ stock'[e].total = stock[e].total
      /\ stock'[e].onSale = stock[e].onSale
  BY <1>1, <1>2 DEF TypeOK, Stock
<1>4. TypeOK'
  <2>1. stock[e].remaining - n \in 0..MaxTickets
    BY <1>1, <1>2 DEF Stock, LedgerAssumption
  <2>2. stock' \in [Events -> Stock]
    BY <1>1, <2>1 DEF TypeOK, Stock
  <2>3. booking' \in [Bookings -> Rows \cup {NoRow}]
    BY <1>1 DEF TypeOK, Rows, Statuses
  <2> QED
    BY <2>2, <2>3 DEF TypeOK
<1>5. Conservation'
  <2> SUFFICES ASSUME NEW f \in Events
               PROVE  stock'[f].remaining + Sold(f)' = stock'[f].total
    BY DEF Conservation
  <2>1. stock[f].remaining + Sold(f) = stock[f].total
    BY DEF Conservation
  <2>2. CASE f # e
    BY <2>1, <2>2, <1>1, <1>3, BookSold DEF TypeOK
  <2>3. CASE f = e
    <3>1. Sold(e) \in Nat /\ Sold(e)' = Sold(e) + n
      BY <1>1, BookSold DEF TypeOK
    <3> QED
      BY <2>1, <2>3, <3>1, <1>1, <1>2, <1>3 DEF Stock, LedgerAssumption
  <2> QED
    BY <2>2, <2>3
<1>6. OneActivePerUser'
  <2>1. \A c \in Bookings \ {b} : booking'[c] = booking[c]
    BY <1>1 DEF TypeOK
  <2>2. booking'[b].user = u /\ booking'[b].event = e
    BY <1>1 DEF TypeOK
  <2>3. \A c \in Bookings \ {b} :
          Active(c)' => Active(c) /\ ~ (booking[c].user = u /\ booking[c].event = e)
    BY <1>1, <2>1 DEF HasActive, Active
  <2> SUFFICES ASSUME NEW b1 \in Bookings, NEW b2 \in Bookings,
                      Active(b1)', Active(b2)',
                      booking'[b1].user = booking'[b2].user,
                      booking'[b1].event = booking'[b2].event
               PROVE  b1 = b2
    BY DEF OneActivePerUser
  <2>4. CASE b1 # b /\ b2 # b
    BY <2>1, <2>3, <2>4 DEF OneActivePerUser
  <2>5. CASE b1 = b \/ b2 = b
    BY <2>1, <2>2, <2>3, <2>5
  <2> QED
    BY <2>4, <2>5
<1> QED
  BY <1>4, <1>5, <1>6

(* Cancel keeps the books.                                                 *)
LEMMA CancelInv ==
  ASSUME LedgerAssumption, Inv, NEW b \in Bookings, Cancel(b)
  PROVE  Inv'
<1> USE DEF Inv
<1>0. PICK e, n : e = booking[b].event /\ n = booking[b].count
  OBVIOUS
<1>1. /\ booking[b] # NoRow /\ Active(b)
      /\ stock' = [stock EXCEPT ![e].remaining = @ + n]
      /\ booking' = [booking EXCEPT ![b].status = "cancelled"]
      /\ Withdraws(b, e, n)
  BY <1>0 DEF Cancel, Cancellable, Active, Withdraws
<1>2. booking[b] \in Rows /\ e \in Events /\ n \in 1..MaxTickets
  BY <1>0, <1>1 DEF TypeOK, Rows
<1>3. stock[e] \in Stock
  BY <1>2 DEF TypeOK
<1>4. /\ \A f \in Events \ {e} : stock'[f] = stock[f]
      /\ stock'[e].remaining = stock[e].remaining + n
      /\ stock'[e].total = stock[e].total
      /\ stock'[e].onSale = stock[e].onSale
  BY <1>1, <1>2, <1>3 DEF TypeOK, Stock
<1>5. Conservation'
  <2> SUFFICES ASSUME NEW f \in Events
               PROVE  stock'[f].remaining + Sold(f)' = stock'[f].total
    BY DEF Conservation
  <2>1. stock[f].remaining + Sold(f) = stock[f].total
    BY DEF Conservation
  <2>2. CASE f # e
    <3>1. Sold(f)' = Sold(f)
      BY <2>2, <1>0, <1>1, CancelSold, Zenon DEF TypeOK
    <3> QED
      BY <2>1, <2>2, <3>1, <1>4
  <2>3. CASE f = e
    <3>1. Sold(e)' \in Nat /\ Sold(e) = Sold(e)' + n
      BY <1>0, <1>1, CancelSold DEF TypeOK
    <3> QED
      BY <2>1, <2>3, <3>1, <1>2, <1>3, <1>4 DEF Stock, LedgerAssumption
  <2> QED
    BY <2>2, <2>3
<1>6. TypeOK'
  <2>1. stock[e].remaining + n \in 0..MaxTickets
    <3>1. stock'[e].remaining + Sold(e)' = stock'[e].total
      BY <1>2, <1>5 DEF Conservation
    <3>2. Sold(e)' \in Nat
      BY <1>0, <1>1, CancelSold DEF TypeOK
    <3> QED
      BY <3>1, <3>2, <1>2, <1>3, <1>4 DEF Stock, LedgerAssumption
  <2>2. stock' \in [Events -> Stock]
    BY <1>1, <2>1 DEF TypeOK, Stock
  <2>3. booking' \in [Bookings -> Rows \cup {NoRow}]
    BY <1>1, <1>2 DEF TypeOK, Rows, Statuses
  <2> QED
    BY <2>2, <2>3 DEF TypeOK
<1>7. OneActivePerUser'
  <2>1. \A c \in Bookings \ {b} : booking'[c] = booking[c]
    BY <1>1 DEF TypeOK
  <2>2. ~ Active(b)'
    BY <1>1, <1>2 DEF TypeOK, Active, Rows
  <2> QED
    BY <2>1, <2>2 DEF OneActivePerUser, Active
<1> QED
  BY <1>5, <1>6, <1>7

(* Every ledger step keeps the ledger's books: the inductive step.         *)
LEMMA NextInv == LedgerAssumption /\ Inv /\ [Next]_vars => Inv'
<1> SUFFICES ASSUME LedgerAssumption, Inv, [Next]_vars PROVE Inv'
  OBVIOUS
<1>1. CASE Next
  <2>1. PICK b \in Bookings :
          \/ \E u \in Users, e \in Events, n \in 1..MaxTickets : Book(b, u, e, n)
          \/ Cancel(b)
    BY <1>1 DEF Next
  <2> QED
    BY <2>1, BookInv, CancelInv
<1>2. CASE UNCHANGED vars
  BY <1>2 DEF vars, Inv, TypeOK, Conservation, OneActivePerUser, Sold, Seats, Active
<1> QED
  BY <1>1, <1>2

(* Tickets are conserved: what the stock lists as remaining and what the   *)
(* active bookings hold always add up to the event's total.                *)
THEOREM LedgerConservation ==
  ASSUME LedgerAssumption
  PROVE  Spec => []Conservation
<1>1. Inv => Conservation
  BY DEF Inv
<1> QED
  BY <1>1, InitInv, NextInv, PTL DEF Spec

(* No user ever holds two active bookings of one event.                    *)
THEOREM LedgerOneActive ==
  ASSUME LedgerAssumption
  PROVE  Spec => []OneActivePerUser
<1>1. Inv => OneActivePerUser
  BY DEF Inv
<1> QED
  BY <1>1, InitInv, NextInv, PTL DEF Spec

(* The stock never leaves 0..total, nor a row its type.                    *)
THEOREM LedgerTypeOK ==
  ASSUME LedgerAssumption
  PROVE  Spec => []TypeOK
<1>1. Inv => TypeOK
  BY DEF Inv
<1> QED
  BY <1>1, InitInv, NextInv, PTL DEF Spec
=============================================================================
