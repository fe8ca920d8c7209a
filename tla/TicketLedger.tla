---------------------------- MODULE TicketLedger ----------------------------
(***************************************************************************)
(* What the booking API promises about tickets, with every request an      *)
(* indivisible step: a booking takes tickets from an event that is on      *)
(* sale, and cancelling it gives the same tickets back, once.  There are   *)
(* no locks, transactions or failures here; BookingFlow shows that the     *)
(* code's interleaved statements implement these two steps.                *)
(***************************************************************************)
EXTENDS Naturals, FiniteSets

CONSTANTS
  Users,        \* the accounts that book
  Events,       \* the rows of table events
  Bookings,     \* the ids the rows of table bookings may get
  MaxTickets,   \* bound on an event's total and on a booking's ticket_count
  NoRow         \* the value of a booking id that has no row

Statuses == {"confirmed", "cancelled"}

Rows == [user : Users, event : Events, count : 1..MaxTickets, status : Statuses]

(* What the theorems about the ledger ask of the constants.                *)
LedgerAssumption ==
  /\ IsFiniteSet(Bookings)
  /\ MaxTickets \in Nat
  /\ NoRow \notin Rows

VARIABLES
  stock,        \* event -> its total, what remains of it, whether it is on sale
  booking       \* booking id -> its row, or NoRow

vars == <<stock, booking>>

Stock == [total : 1..MaxTickets, remaining : 0..MaxTickets, onSale : BOOLEAN]

TypeOK ==
  /\ stock \in [Events -> Stock]
  /\ booking \in [Bookings -> Rows \cup {NoRow}]

-----------------------------------------------------------------------------
(* The row counts against its event, and bars its user from a second one.  *)
Active(b) == booking[b] # NoRow /\ booking[b].status = "confirmed"

HasActive(u, e) ==
  \E b \in Bookings : Active(b) /\ booking[b].user = u /\ booking[b].event = e

(* The tickets sold for e, one element per ticket.                         *)
Seats(e) ==
  {s \in Bookings \X (1..MaxTickets) :
     /\ Active(s[1])
     /\ booking[s[1]].event = e
     /\ s[2] <= booking[s[1]].count}

Sold(e) == Cardinality(Seats(e))

-----------------------------------------------------------------------------
Init ==
  /\ stock \in {s \in [Events -> Stock] :
                  \A e \in Events : s[e].remaining = s[e].total}
  /\ booking = [b \in Bookings |-> NoRow]

HasStock(e, n) == n <= stock[e].remaining
Barred(u, e) == HasActive(u, e)
Cancellable(b) == Active(b)

(* User u books n tickets of e under the fresh id b.                       *)
Book(b, u, e, n) ==
  /\ booking[b] = NoRow
  /\ stock[e].onSale
  /\ HasStock(e, n)
  /\ ~ Barred(u, e)
  /\ stock' = [stock EXCEPT ![e].remaining = @ - n]
  /\ booking' = [booking EXCEPT ![b] =
                   [user |-> u, event |-> e, count |-> n, status |-> "confirmed"]]

(* The owner cancels booking b, whose tickets go back on sale.             *)
Cancel(b) ==
  /\ Cancellable(b)
  /\ stock' = [stock EXCEPT ![booking[b].event].remaining = @ + booking[b].count]
  /\ booking' = [booking EXCEPT ![b].status = "cancelled"]

Next ==
  \E b \in Bookings :
    \/ \E u \in Users, e \in Events, n \in 1..MaxTickets : Book(b, u, e, n)
    \/ Cancel(b)

Spec == Init /\ [][Next]_vars

-----------------------------------------------------------------------------
(* Every ticket of an event is either still for sale or in exactly one     *)
(* active booking: none is sold twice, lost, or returned twice.            *)
Conservation == \A e \in Events : stock[e].remaining + Sold(e) = stock[e].total

(* A user holds at most one active booking of an event.                    *)
OneActivePerUser ==
  \A b1, b2 \in Bookings :
    /\ Active(b1) /\ Active(b2)
    /\ booking[b1].user = booking[b2].user
    /\ booking[b1].event = booking[b2].event
    => b1 = b2
=============================================================================
