--------------------------- MODULE MCRateLimiter ----------------------------
(***************************************************************************)
(* Small instances of RateLimiter for TLC.                                 *)
(***************************************************************************)
EXTENDS RateLimiter, TLC

(* POST /auth/login and PUT /events/abc: two groups.                       *)
Login == <<"auth", "login">>
TwoPaths == {Login, <<"events", "abc">>}

(* All requests are for one group, or all but one: one of the groups meets *)
(* its limit while the other is in use.                                    *)
GroupsInit ==
  /\ Init
  /\ Cardinality({r \in Requests : from[r].path # Login}) <= 1

GroupsSpec == GroupsInit /\ [][Next]_vars

Symmetry == Permutations(Requests)
=============================================================================
