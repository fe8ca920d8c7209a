--------------------------- MODULE MCBookingFlow ---------------------------
(***************************************************************************)
(* Small instances of BookingFlow for TLC.                                 *)
(***************************************************************************)
EXTENDS BookingFlow, TLC

(* Every request asks for a positive number of tickets of a published      *)
(* event, and every cancellation comes from the booking's owner: the       *)
(* requests that reach the database.                                       *)
Serious ==
  /\ \A b \in Bookings : want[b].count > 0
  /\ \A e \in Events : event[e].status = "published" /\ ~ event[e].deleted
  /\ \A c \in Cancels : target[c].user = want[target[c].booking].user

SeriousInit == Init /\ Serious
SeriousSpec == SeriousInit /\ [][Next]_vars

(* A cancellation twice, in two requests, beside another user's booking of *)
(* the same event.                                                         *)
TwoCancelsOfOne ==
  /\ Serious
  /\ \A b \in Bookings : want[b].count = 1
  /\ \A c, d \in Cancels : target[c].booking = target[d].booking

(* Any input and any event; at most one booking asks for tickets at all,   *)
(* so that one and any two cancellations remain.                           *)
AnyInput ==
  \A a, b \in Bookings :
    a # b => /\ want[a].count = 0 \/ want[b].count = 0
             /\ want[a].user = want[b].user

CancelsInit == Init /\ (TwoCancelsOfOne \/ AnyInput)
CancelsSpec == CancelsInit /\ [][Next]_vars

Symmetry == Permutations(Users) \cup Permutations(Bookings) \cup Permutations(Cancels)
=============================================================================
