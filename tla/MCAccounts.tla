------------------------------ MODULE MCAccounts -----------------------------
(***************************************************************************)
(* A small instance of Accounts for TLC.                                   *)
(***************************************************************************)
EXTENDS Accounts, TLC

(* An address spelled in two ways, and somebody else's.                    *)
Spellings == {"ada", "Ada", "bob"}
Lower == [e \in Spellings |-> IF e = "Ada" THEN "ada" ELSE e]
Secrets == {"apple", "berry"}

(* The inputs: Ada registers, and again, with another spelling and another *)
(* password; then she or somebody unknown logs in.                         *)
Ada ==
  /\ \E r \in Registers :
       \A s \in Registers : ask[s] = IF s = r THEN [email |-> "ada", password |-> "apple"]
                                            ELSE [email |-> "Ada", password |-> "berry"]
  /\ \A l \in Logins : ask[l].email # "Ada" /\ (ask[l].email = "bob" => ask[l].password = "apple")

(* The bound on the operator: a right that was lost is not given back.     *)
NotGivenBack == \A x \in Rights, u \in Registers : until[x][u] # 0 => ~ Has(u, x)
SetsRole(u) == SetRole(u) /\ NotGivenBack'
SetsActive(u) == SetActive(u) /\ NotGivenBack'

SmallInit == Init /\ Ada
SmallNext ==
  \/ RequestStep
  \/ \E u \in Registers : SetsRole(u) \/ SetsActive(u)
  \/ Tick

SmallSpec == SmallInit /\ [][SmallNext]_vars

Symmetry == Permutations(Registers)
=============================================================================
