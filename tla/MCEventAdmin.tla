---------------------------- MODULE MCEventAdmin ----------------------------
(***************************************************************************)
(* Small instances of EventAdmin for TLC.  The inputs of each come before  *)
(* Init, which TLC would otherwise enumerate in full.                      *)
(***************************************************************************)
EXTENDS EventAdmin, TLC

(* Bodies with status s and total n, and the version v.                    *)
Bodies(totals, statuses, versions) ==
  [event : Events, spec : [total : totals, status : statuses], version : versions]

(* A new event on sale, which well-formed updates edit, whatever version   *)
(* they send, while it is booked.                                          *)
OnSaleInit ==
  /\ asked = [c \in Creates |-> <<>>]
  /\ edit \in [Updates -> Bodies(1..MaxTickets, Statuses, 1..MaxVersion)]
  /\ victim \in [Deletes -> Events]
  /\ Init
  /\ \E e \in Events :
       /\ \A f \in Events : event[f] # NoRow <=> f = e
       /\ event[e].status = "published"
       /\ \A u \in Updates : edit[u].event = e
       /\ \A d \in Deletes : victim[d] = e

OnSaleSpec == OnSaleInit /\ [][Next]_vars

(* Nothing is there before the batch is created: one or two events, each   *)
(* good or bad, or too many.  One update is refused for what it sends, the *)
(* others meet the events, or one that is not there.                       *)
Wants(statuses) == [total : {1}, status : statuses] \cup [total : {0}, status : {"draft"}]

EmptyInit ==
  /\ asked \in [Creates -> [1..1 -> Wants(Statuses \cup {"", "bogus"})]
                           \cup [1..2 -> Wants(Statuses \cup {"bogus"})]
                           \cup {[i \in 1 .. MaxBatch + 1 |-> [total |-> 1, status |-> "draft"]]}]
  /\ \E u \in Updates :
       /\ edit \in [Updates -> Bodies({1}, Statuses \cup {"bogus"}, 1..2)
                               \cup Bodies({1}, {"draft"}, {0}) \cup Bodies({0}, {"draft"}, {1})]
       /\ edit[u].version = 0 \/ edit[u].spec.total = 0
       /\ \A v \in Updates : edit[v].event = edit[u].event
  /\ victim \in [Deletes -> Events]
  /\ event = [e \in Events |-> NoRow]
  /\ Init

AdminInit == OnSaleInit \/ EmptyInit
AdminSpec == AdminInit /\ [][Next]_vars

(* At most two administrators meet.                                        *)
FewRequests == Cardinality({r \in Admins : pc[r] # "idle"}) <= 2

Symmetry == Permutations(Users) \cup Permutations(Bookings) \cup Permutations(Updates)
            \cup Permutations(Deletes) \cup Permutations(Events)
=============================================================================
