----------------------------- MODULE MCBatchFlow -----------------------------
(***************************************************************************)
(* Small instances of BatchFlow for TLC.                                   *)
(***************************************************************************)
EXTENDS BatchFlow, MCBookingFlow

(* The batch is empty and the bookings are made apart, or it makes all of  *)
(* them.                                                                   *)
AllOrNone == \A t \in BatchRequests : Len(batch[t]) \in {0, Cardinality(Bookings)}

RacesInit == BatchInit /\ Serious /\ AllOrNone
RacesSpec == RacesInit /\ [][BatchNext]_batchVars
LivenessSpec == RacesSpec /\ BatchFairness
=============================================================================
