--------------------------- MODULE AccountsProofs ---------------------------
(***************************************************************************)
(* TLAPS proofs about Accounts, for any number of accounts, requests,      *)
(* spellings and passwords, any life of a token and any bounds on skew and *)
(* delay: an address has one account, its credentials work, and a right    *)
(* outlives its withdrawal by no more than Outlives.                       *)
(***************************************************************************)
EXTENDS Accounts, TLAPS

Answers == {"none", "created", "ok", "served", "exists", "error",
            "badCredentials", "inactive", "unauthorized", "forbidden"}

(* An account is what its registration asked for.                          *)
AsAsked ==
  \A u \in Registers : Exists(u) =>
    /\ account[u].email = Stored(ask[u].email)
    /\ account[u].password = ask[u].password

(* A registration that has not begun has no account.                       *)
Newcomers == \A r \in Registers : pc[r] = "idle" => account[r] = None

(* A request in progress is never late.                                    *)
InTime ==
  \A r \in Requests : InProgress(r) => since[r] <= now /\ now <= since[r] + Delay

(* The rights that a token with a role stands for.                         *)
Earned(role) == IF role = "admin" THEN Rights ELSE {"active"}

(* u has the right, or lost it no earlier than slack before t.             *)
Good(u, x, t, slack) == Has(u, x) \/ (until[x][u] # 0 /\ t <= until[x][u] + slack)

Life == Delay + Skew + Expiry

(* What was read was true when it was read.                                *)
Issuing ==
  \A r \in Issuers : pc[r] = "issue" =>
    \A x \in Earned(claims[r].role) : Good(claims[r].user, x, since[r], 0)

(* A token that stands for a lost right expires within Life of the loss.   *)
Issued ==
  \A r \in Issuers : token[r] # None =>
    /\ token[r].exp <= now + Skew + Expiry
    /\ \A x \in Earned(token[r].role) : Good(token[r].user, x, token[r].exp, Life)

(* A call was let in while its token had not expired.                      *)
Serving ==
  \A c \in Calls : pc[c] = "serve" =>
    /\ Skew + Expiry >= 1
    /\ route[c] = "admin" => claims[c].role = "admin"
    /\ \A x \in Earned(claims[c].role) : Good(claims[c].user, x, since[c] + 1, Life)

IInv ==
  TypeOK /\ AsAsked /\ Newcomers /\ OneAccountPerAddress /\ InTime /\ Issuing /\ Issued /\ Serving

-----------------------------------------------------------------------------
(* No account is lost or changed by the step.                              *)
Grows == \A u \in Registers : account[u] # None => account'[u] = account[u]

(* Initially there is nobody.                                              *)
LEMMA InitIInv == Init => IInv
<1> SUFFICES ASSUME Init PROVE IInv
  OBVIOUS
<1>1. TypeOK
  BY AccountAssumption DEF Init, TypeOK, NoClaims, Roles, Requests
<1>2. AsAsked /\ Newcomers /\ OneAccountPerAddress
  BY DEF Init, AsAsked, Newcomers, OneAccountPerAddress, Exists
<1>3. InTime /\ Issuing /\ Issued /\ Serving
  BY DEF Init, InTime, InProgress, Issuing, Issued, Serving, Requests
<1> QED
  BY <1>1, <1>2, <1>3 DEF IInv

(* An INSERT adds the account of an address that had none.                 *)
LEMMA Inserted ==
  ASSUME IInv, NEW r \in Registers, Inserts(r) \/ UNCHANGED account, UNCHANGED ask,
         account[r] = None
  PROVE  /\ account' \in [Registers -> Accounts \cup {None}]
         /\ Grows /\ AsAsked' /\ OneAccountPerAddress'
         /\ \A q \in Registers : q # r => account'[q] = account[q]
<1> USE AccountAssumption DEF IInv
<1>1. CASE UNCHANGED account
  BY <1>1 DEF TypeOK, Grows, AsAsked, OneAccountPerAddress, Exists
<1>2. CASE Inserts(r)
  <2> DEFINE row == [email |-> Stored(ask[r].email), password |-> ask[r].password,
                     role |-> "user", active |-> TRUE]
  <2>1. account' = [account EXCEPT ![r] = row] /\ row \in Accounts
    BY <1>2 DEF Inserts, TypeOK, Accounts, Stored, Issuers, Roles
  <2>2. row # None
    BY <2>1
  <2>3. /\ account' \in [Registers -> Accounts \cup {None}] /\ Grows
        /\ \A q \in Registers : q # r => account'[q] = account[q]
    BY <2>1 DEF TypeOK, Grows
  <2>4. AsAsked'
    BY <2>1 DEF TypeOK, AsAsked, Exists, Stored
  <2>5. OneAccountPerAddress'
    BY <1>2, <2>1 DEF TypeOK, AsAsked, OneAccountPerAddress, Inserts, Taken, Exists, Stored
  <2> QED
    BY <2>3, <2>4, <2>5
<1> QED
  BY <1>1, <1>2

(* Rights that were good stay good while no account is changed.            *)
LEMMA StaysGood ==
  ASSUME NEW u \in Registers, NEW x \in Rights, NEW t, NEW slack,
         Grows, UNCHANGED until, Good(u, x, t, slack)
  PROVE  Has(u, x)' \/ (until'[x][u] # 0 /\ t <= until'[x][u] + slack)
BY DEF Grows, Good, Has, Exists

(* A request is answered.                                                  *)
LEMMA Finishing ==
  ASSUME IInv, NEW r \in Requests, NEW a \in Answers, Finish(r, a),
         UNCHANGED <<now, inputs, token, until>>,
         account' \in [Registers -> Accounts \cup {None}],
         Grows, AsAsked', OneAccountPerAddress',
         \A q \in Registers : q # r => account'[q] = account[q]
  PROVE  IInv'
<1> USE AccountAssumption DEF IInv
<1>1. /\ pc' = [pc EXCEPT ![r] = "done"]
      /\ resp' = [resp EXCEPT ![r] = a]
      /\ claims' = [claims EXCEPT ![r] = NoClaims]
      /\ since' = [since EXCEPT ![r] = 0]
      /\ ask' = ask /\ route' = route
  BY DEF Finish, inputs
<1>2. \A q \in Requests : pc'[q] \in {"issue", "serve"} =>
        pc'[q] = pc[q] /\ claims'[q] = claims[q] /\ since'[q] = since[q]
  BY <1>1 DEF TypeOK
<1>3. TypeOK'
  BY <1>1, <1>2 DEF TypeOK, Grows, NoClaims, Roles, Answers, Issuers, Tokens
<1>15. Newcomers'
  BY <1>1 DEF Newcomers, TypeOK, Requests, Issuers
<1>4. InTime'
  BY <1>2 DEF InTime, InProgress
<1>5. Issuing'
  <2> SUFFICES ASSUME NEW q \in Issuers, pc'[q] = "issue",
                      NEW x \in Earned(claims'[q].role)
               PROVE  Good(claims[q].user, x, since[q], 0)'
    BY DEF Issuing
  <2>1. pc[q] = "issue" /\ claims'[q] = claims[q] /\ since'[q] = since[q] /\ q \in Requests
    BY <1>2 DEF Requests
  <2>2. Good(claims[q].user, x, since[q], 0) /\ claims[q].user \in Registers /\ x \in Rights
    BY <2>1 DEF Issuing, TypeOK, Earned, Rights
  <2> QED
    BY <2>1, <2>2, StaysGood DEF Good, Has, Exists
<1>6. Issued'
  <2> SUFFICES ASSUME NEW q \in Issuers, token[q] # None
               PROVE  /\ token[q].exp <= now + Skew + Expiry
                      /\ \A x \in Earned(token[q].role) : Good(token[q].user, x, token[q].exp, Life)'
    BY DEF Issued
  <2>1. token[q].user \in Registers
    BY DEF TypeOK, Tokens
  <2> QED
    BY <2>1, StaysGood DEF Issued, Earned, Rights, Good, Has, Exists
<1>7. Serving'
  <2> SUFFICES ASSUME NEW q \in Calls, pc'[q] = "serve"
               PROVE  /\ Skew + Expiry >= 1
                      /\ route[q] = "admin" => claims'[q].role = "admin"
                      /\ \A x \in Earned(claims'[q].role) : Good(claims[q].user, x, since[q] + 1, Life)'
    BY <1>1 DEF Serving
  <2>1. pc[q] = "serve" /\ claims'[q] = claims[q] /\ since'[q] = since[q] /\ q \in Requests
    BY <1>2 DEF Requests
  <2>2. claims[q].user \in Registers
    BY <2>1 DEF TypeOK
  <2> QED
    BY <2>1, <2>2, StaysGood DEF Serving, Earned, Rights, Good, Has, Exists
<1> QED
  BY <1>3, <1>15, <1>4, <1>5, <1>6, <1>7

(* A request goes on with a role that was read, or from a valid token.     *)
LEMMA GoingOn ==
  ASSUME IInv, NEW r \in Requests, NEW u \in Registers, NEW role \in Roles, NEW step,
         GoesBy(r, u, role, step), account'[u] # None,
         \/ /\ step = "issue" /\ r \in Issuers
            /\ \A x \in Earned(role) : Has(u, x)'
         \/ /\ step = "serve" /\ r \in Calls /\ Skew + Expiry >= 1
            /\ route[r] = "admin" => role = "admin"
            /\ \A x \in Earned(role) : Good(u, x, now + 1, Life),
         UNCHANGED <<now, inputs, token, until>>,
         account' \in [Registers -> Accounts \cup {None}],
         Grows, AsAsked', OneAccountPerAddress',
         \A q \in Registers : q # r => account'[q] = account[q]
  PROVE  IInv'
<1> USE AccountAssumption DEF IInv
<1>1. /\ pc' = [pc EXCEPT ![r] = step]
      /\ claims' = [claims EXCEPT ![r] = [user |-> u, role |-> role]]
      /\ since' = [since EXCEPT ![r] = now]
      /\ ask' = ask /\ route' = route /\ resp' = resp
  BY DEF GoesBy, inputs
<1>2. \A q \in Requests : q # r =>
        pc'[q] = pc[q] /\ claims'[q] = claims[q] /\ since'[q] = since[q]
  BY <1>1 DEF TypeOK
<1>3. /\ pc'[r] = step /\ claims'[r] = [user |-> u, role |-> role] /\ since'[r] = now
  BY <1>1 DEF TypeOK
<1>4. TypeOK'
  <2>1. /\ pc' \in [Requests -> {"idle", "issue", "serve", "done"}]
        /\ claims' \in [Requests -> [user : Registers \cup {None}, role : Roles]]
        /\ since' \in [Requests -> Nat]
    BY <1>1 DEF TypeOK
  <2>2. \A q \in Issuers : token[q] # None => account'[token[q].user] # None
    BY DEF TypeOK, Grows, Tokens
  <2>3. \A q \in Requests : pc'[q] \in {"issue", "serve"} =>
          claims'[q].user \in Registers /\ account'[claims'[q].user] # None
    BY <1>2, <1>3 DEF TypeOK, Grows
  <2> QED
    BY <1>1, <2>1, <2>2, <2>3 DEF TypeOK
<1>15. Newcomers'
  BY <1>2, <1>3 DEF Newcomers, TypeOK, Requests, Issuers
<1>5. InTime'
  BY <1>2, <1>3 DEF InTime, InProgress, TypeOK
<1>6. Issuing'
  <2> SUFFICES ASSUME NEW q \in Issuers, pc'[q] = "issue",
                      NEW x \in Earned(claims'[q].role)
               PROVE  Good(claims[q].user, x, since[q], 0)'
    BY DEF Issuing
  <2>1. CASE q = r
    BY <1>3, <2>1 DEF Requests, Good, Has, Exists
  <2>2. CASE q # r
    <3>1. pc[q] = "issue" /\ claims'[q] = claims[q] /\ since'[q] = since[q] /\ q \in Requests
      BY <1>2, <2>2 DEF Requests
    <3>2. Good(claims[q].user, x, since[q], 0) /\ claims[q].user \in Registers /\ x \in Rights
      BY <3>1 DEF Issuing, TypeOK, Earned, Rights
    <3> QED
      BY <3>1, <3>2, StaysGood DEF Good, Has, Exists
  <2> QED
    BY <2>1, <2>2
<1>7. Issued'
  <2> SUFFICES ASSUME NEW q \in Issuers, token[q] # None
               PROVE  /\ token[q].exp <= now + Skew + Expiry
                      /\ \A x \in Earned(token[q].role) : Good(token[q].user, x, token[q].exp, Life)'
    BY DEF Issued
  <2>1. token[q].user \in Registers
    BY DEF TypeOK, Tokens
  <2> QED
    BY <2>1, StaysGood DEF Issued, Earned, Rights, Good, Has, Exists
<1>8. Serving'
  <2> SUFFICES ASSUME NEW q \in Calls, pc'[q] = "serve"
               PROVE  /\ Skew + Expiry >= 1
                      /\ route[q] = "admin" => claims'[q].role = "admin"
                      /\ \A x \in Earned(claims'[q].role) : Good(claims[q].user, x, since[q] + 1, Life)'
    BY <1>1 DEF Serving
  <2>1. CASE q = r
    <3>1. /\ Skew + Expiry >= 1
          /\ route[r] = "admin" => role = "admin"
          /\ \A x \in Earned(role) : Good(u, x, now + 1, Life)
      BY <1>3, <2>1
    <3>2. \A x \in Earned(role) : x \in Rights
      BY DEF Earned, Rights
    <3> QED
      BY <1>3, <2>1, <3>1, <3>2, StaysGood DEF Good, Has, Exists
  <2>2. CASE q # r
    <3>1. pc[q] = "serve" /\ claims'[q] = claims[q] /\ since'[q] = since[q] /\ q \in Requests
      BY <1>2, <2>2 DEF Requests
    <3>2. claims[q].user \in Registers
      BY <3>1 DEF TypeOK
    <3>3. /\ Skew + Expiry >= 1
          /\ route[q] = "admin" => claims[q].role = "admin"
          /\ \A x \in Earned(claims[q].role) : Good(claims[q].user, x, since[q] + 1, Life)
      BY <3>1 DEF Serving
    <3>4. \A x \in Earned(claims[q].role) : x \in Rights
      BY DEF Earned, Rights
    <3> QED
      BY <3>1, <3>2, <3>3, <3>4, StaysGood DEF Good, Has, Exists
  <2> QED
    BY <2>1, <2>2
<1> QED
  BY <1>4, <1>15, <1>5, <1>6, <1>7, <1>8

(* The token is made after the role was read, within Delay.                *)
LEMMA IssueIInv ==
  ASSUME IInv, NEW r \in Issuers, IssueToken(r)
  PROVE  IInv'
<1> USE AccountAssumption DEF IInv
<1>1. PICK clock \in Clocks :
        token' = [token EXCEPT ![r] = [user |-> claims[r].user, role |-> claims[r].role,
                                       exp |-> clock + Expiry]]
  BY DEF IssueToken
<1>2. PICK a \in Answers : Finish(r, a)
  BY DEF IssueToken, Answers
<1>3. /\ pc[r] = "issue" /\ r \in Requests
      /\ UNCHANGED <<now, ask, route, account, until>>
  BY DEF IssueToken, inputs, Requests
<1>4. /\ pc' = [pc EXCEPT ![r] = "done"]
      /\ resp' = [resp EXCEPT ![r] = a]
      /\ claims' = [claims EXCEPT ![r] = NoClaims]
      /\ since' = [since EXCEPT ![r] = 0]
  BY <1>2 DEF Finish
<1>5. \A q \in Requests : pc'[q] \in {"issue", "serve"} =>
        q # r /\ pc'[q] = pc[q] /\ claims'[q] = claims[q] /\ since'[q] = since[q]
  BY <1>3, <1>4 DEF TypeOK
<1>6. /\ clock \in Nat /\ clock <= now + Skew
      /\ claims[r].user \in Registers /\ claims[r].role \in Roles
      /\ account[claims[r].user] # None
      /\ since[r] \in Nat /\ now <= since[r] + Delay /\ now \in Nat
  BY <1>1, <1>3 DEF TypeOK, Clocks, InTime, InProgress
<1>7. \A q \in Issuers : q # r => token'[q] = token[q]
  BY <1>1 DEF TypeOK
<1>8. token'[r] = [user |-> claims[r].user, role |-> claims[r].role, exp |-> clock + Expiry]
  BY <1>1 DEF TypeOK
<1>9. TypeOK'
  <2>1. token' \in [Issuers -> Tokens \cup {None}]
    BY <1>1, <1>6 DEF TypeOK, Tokens
  <2>2. \A q \in Issuers : token'[q] # None => account[token'[q].user] # None
    BY <1>6, <1>7, <1>8 DEF TypeOK
  <2>3. claims' \in [Requests -> [user : Registers \cup {None}, role : Roles]]
    BY <1>4 DEF TypeOK, NoClaims, Roles
  <2> QED
    BY <1>3, <1>4, <1>5, <2>1, <2>2, <2>3 DEF TypeOK, Answers
<1>15. Newcomers'
  BY <1>3, <1>4 DEF Newcomers, TypeOK, Requests, Issuers
<1>10. AsAsked' /\ OneAccountPerAddress'
  BY <1>3 DEF AsAsked, OneAccountPerAddress, Exists, Stored
<1>11. InTime'
  BY <1>3, <1>5 DEF InTime, InProgress
<1>12. Issuing'
  BY <1>3, <1>5 DEF Issuing, Good, Has, Exists, Requests
<1>13. Issued'
  <2> SUFFICES ASSUME NEW q \in Issuers, token'[q] # None
               PROVE  /\ token'[q].exp <= now + Skew + Expiry
                      /\ \A x \in Earned(token'[q].role) : Good(token'[q].user, x, token'[q].exp, Life)
    BY <1>3 DEF Issued, Good, Has, Exists
  <2>1. CASE q # r
    BY <1>7, <2>1 DEF Issued
  <2>2. CASE q = r
    <3>1. token'[r].exp = clock + Expiry /\ token'[r].user = claims[r].user
          /\ token'[r].role = claims[r].role
      BY <1>8
    <3>2. token'[r].exp <= now + Skew + Expiry
      BY <1>6, <3>1
    <3>3. ASSUME NEW x \in Earned(claims[r].role)
          PROVE  Good(claims[r].user, x, clock + Expiry, Life)
      <4>1. Good(claims[r].user, x, since[r], 0) /\ x \in Rights
        BY <1>3 DEF Issuing, Earned, Rights
      <4>2. until[x][claims[r].user] \in Nat
        BY <1>6, <4>1 DEF TypeOK
      <4> QED
        BY <1>6, <4>1, <4>2 DEF Good, Life
    <3> QED
      BY <2>2, <3>1, <3>2, <3>3
  <2> QED
    BY <2>1, <2>2
<1>14. Serving'
  BY <1>3, <1>5 DEF Serving, Good, Has, Exists, Requests
<1> QED
  BY <1>9, <1>15, <1>10, <1>11, <1>12, <1>13, <1>14

(* The operator takes a right away now: nothing in progress and no token   *)
(* is older than that.                                                     *)
LEMMA UpdateIInv ==
  ASSUME IInv, NEW u \in Registers, NEW row \in Accounts,
         Exists(u) => row.email = account[u].email /\ row.password = account[u].password,
         Updates(u, row)
  PROVE  IInv'
<1> USE AccountAssumption DEF IInv
<1>1. /\ Exists(u)
      /\ account' = [account EXCEPT ![u] = row]
      /\ until' = [x \in Rights |-> [until[x] EXCEPT ![u] = IF Has(u, x) /\ ~ Has(u, x)' THEN now ELSE @]]
      /\ UNCHANGED <<now, ask, route, token, claims, since, pc, resp>>
  BY DEF Updates, inputs
<1>2. /\ row # None /\ account'[u] = row /\ now \in Nat \ {0} /\ now <= MaxTime
      /\ \A v \in Registers : v # u => account'[v] = account[v]
      /\ \A v \in Registers : Exists(v)' <=> Exists(v)
  BY <1>1 DEF TypeOK, Exists
<1>3. TypeOK'
  <2>1. account' \in [Registers -> Accounts \cup {None}]
    BY <1>1 DEF TypeOK
  <2>2. until' \in [Rights -> [Registers -> 0..MaxTime]]
    BY <1>1, <1>2 DEF TypeOK
  <2> QED
    BY <1>1, <1>2, <2>1, <2>2 DEF TypeOK, Exists, Tokens
<1>4. AsAsked'
  BY <1>1, <1>2 DEF AsAsked, Exists, Stored
<1>15. Newcomers'
  BY <1>1, <1>2 DEF Newcomers, Exists
<1>5. OneAccountPerAddress'
  BY <1>1, <1>2 DEF OneAccountPerAddress, Exists
<1>6. InTime'
  BY <1>1 DEF InTime, InProgress
<1>7. ASSUME NEW v \in Registers, NEW x \in Rights, NEW t \in Nat, NEW slack \in Nat,
             t <= now + slack, Good(v, x, t, slack)
      PROVE  Has(v, x)' \/ (until'[x][v] # 0 /\ t <= until'[x][v] + slack)
  <2>1. until'[x][v] = IF v = u /\ Has(u, x) /\ ~ Has(u, x)' THEN now ELSE until[x][v]
    BY <1>1 DEF TypeOK
  <2>2. v # u => (Has(v, x)' <=> Has(v, x))
    BY <1>2 DEF Has, Exists
  <2> QED
    BY <1>2, <1>7, <2>1, <2>2 DEF Good
<1>8. Issuing'
  <2> SUFFICES ASSUME NEW q \in Issuers, pc[q] = "issue", NEW x \in Earned(claims[q].role)
               PROVE  Good(claims[q].user, x, since[q], 0)'
    BY <1>1 DEF Issuing
  <2>1. /\ q \in Requests /\ Good(claims[q].user, x, since[q], 0)
        /\ claims[q].user \in Registers /\ x \in Rights
        /\ since[q] \in Nat /\ since[q] <= now + 0
    BY DEF Issuing, InTime, InProgress, TypeOK, Requests, Earned, Rights
  <2> QED
    BY <1>1, <1>7, <2>1 DEF Good
<1>9. Issued'
  <2> SUFFICES ASSUME NEW q \in Issuers, token[q] # None
               PROVE  /\ token[q].exp <= now + Skew + Expiry
                      /\ \A x \in Earned(token[q].role) : Good(token[q].user, x, token[q].exp, Life)'
    BY <1>1 DEF Issued
  <2>1. /\ token[q].user \in Registers /\ token[q].exp \in Nat
        /\ token[q].exp <= now + Skew + Expiry
        /\ token[q].exp <= now + Life /\ Life \in Nat
    BY <1>2 DEF TypeOK, Tokens, Issued, Life
  <2>2. ASSUME NEW x \in Earned(token[q].role)
        PROVE  Good(token[q].user, x, token[q].exp, Life)'
    <3>1. Good(token[q].user, x, token[q].exp, Life) /\ x \in Rights
      BY DEF Issued, Earned, Rights
    <3> QED
      BY <1>1, <1>7, <2>1, <3>1 DEF Good
  <2> QED
    BY <2>1, <2>2
<1>10. Serving'
  <2> SUFFICES ASSUME NEW q \in Calls, pc[q] = "serve"
               PROVE  /\ Skew + Expiry >= 1
                      /\ route[q] = "admin" => claims[q].role = "admin"
                      /\ \A x \in Earned(claims[q].role) : Good(claims[q].user, x, since[q] + 1, Life)'
    BY <1>1 DEF Serving
  <2>1. /\ q \in Requests /\ claims[q].user \in Registers
        /\ since[q] \in Nat /\ since[q] <= now
        /\ Skew + Expiry >= 1
        /\ route[q] = "admin" => claims[q].role = "admin"
    BY DEF TypeOK, Requests, InTime, InProgress, Serving
  <2>2. since[q] + 1 <= now + Life /\ since[q] + 1 \in Nat /\ Life \in Nat
    BY <1>2, <2>1 DEF Life
  <2>3. ASSUME NEW x \in Earned(claims[q].role)
        PROVE  Good(claims[q].user, x, since[q] + 1, Life)'
    <3>1. Good(claims[q].user, x, since[q] + 1, Life) /\ x \in Rights
      BY DEF Serving, Earned, Rights
    <3> QED
      BY <1>1, <1>7, <2>1, <2>2, <3>1 DEF Good
  <2> QED
    BY <2>1, <2>3
<1> QED
  BY <1>3, <1>4, <1>15, <1>5, <1>6, <1>8, <1>9, <1>10

(* Time passes while nobody is late.                                       *)
LEMMA TickIInv ==
  ASSUME IInv, Tick
  PROVE  IInv'
<1> USE AccountAssumption DEF IInv
<1>1. /\ now < MaxTime /\ now' = now + 1 /\ now \in Nat
      /\ \A r \in Requests : InProgress(r) => now < since[r] + Delay
      /\ UNCHANGED <<ask, route, account, token, claims, since, pc, resp, until>>
  BY DEF Tick, inputs, TypeOK
<1>2. TypeOK'
  BY <1>1 DEF TypeOK
<1>3. AsAsked' /\ Newcomers' /\ OneAccountPerAddress'
  BY <1>1 DEF Newcomers, AsAsked, OneAccountPerAddress, Exists
<1>4. InTime'
  BY <1>1 DEF InTime, InProgress, TypeOK
<1>5. Issuing'
  BY <1>1 DEF Issuing, Good, Has, Exists
<1>6. Issued'
  <2> SUFFICES ASSUME NEW q \in Issuers, token[q] # None
               PROVE  /\ token[q].exp <= now' + Skew + Expiry
                      /\ \A x \in Earned(token[q].role) : Good(token[q].user, x, token[q].exp, Life)
    BY <1>1 DEF Issued, Good, Has, Exists
  <2>1. token[q].exp \in Nat
    BY DEF TypeOK, Tokens
  <2> QED
    BY <1>1, <2>1 DEF Issued
<1>7. Serving'
  BY <1>1 DEF Serving, Good, Has, Exists
<1> QED
  BY <1>2, <1>3, <1>4, <1>5, <1>6, <1>7

(* Registering.                                                            *)
LEMMA RegisterIInv ==
  ASSUME IInv, NEW r \in Registers, CreateUser(r) \/ RegisterFails(r)
  PROVE  IInv'
<1>1. /\ account[r] = None /\ r \in Requests /\ r \in Issuers
      /\ Inserts(r) \/ UNCHANGED account
      /\ UNCHANGED <<now, inputs, token, until>>
      /\ ask' = ask
  BY DEF IInv, Newcomers, CreateUser, RegisterFails, inputs, Requests, Issuers
<1>2. /\ account' \in [Registers -> Accounts \cup {None}]
      /\ Grows /\ AsAsked' /\ OneAccountPerAddress'
      /\ \A q \in Registers : q # r => account'[q] = account[q]
  BY <1>1, Inserted
<1>3. CASE \E a \in Answers : Finish(r, a)
  BY <1>1, <1>2, <1>3, Finishing
<1>4. CASE Inserts(r) /\ GoesBy(r, r, "user", "issue")
  <2>1. account'[r] # None /\ account'[r].active
    <3> DEFINE row == [email |-> Stored(ask[r].email), password |-> ask[r].password,
                       role |-> "user", active |-> TRUE]
    <3>1. row \in Accounts
      BY <1>1, AccountAssumption DEF IInv, TypeOK, Accounts, Stored, Issuers, Roles
    <3>2. account'[r] = row
      BY <1>4 DEF Inserts, IInv, TypeOK
    <3>3. row # None
      BY <3>1, AccountAssumption
    <3> QED
      BY <3>2, <3>3
  <2>2. \A x \in Earned("user") : Has(r, x)'
    BY <2>1 DEF Earned, Has, Exists
  <2> QED
    BY <1>1, <1>2, <1>4, <2>1, <2>2, GoingOn DEF Roles
<1> QED
  BY <1>1, <1>3, <1>4 DEF CreateUser, RegisterFails, Refused, Answers

(* What any request but an INSERT leaves of the accounts.                  *)
LEMMA Unchanged ==
  ASSUME IInv, UNCHANGED <<account, inputs>>
  PROVE  /\ account' \in [Registers -> Accounts \cup {None}]
         /\ Grows /\ AsAsked' /\ OneAccountPerAddress'
         /\ \A q \in Registers : account'[q] = account[q]
BY DEF IInv, inputs, TypeOK, Grows, AsAsked, OneAccountPerAddress, Exists, Stored

(* Logging in.                                                             *)
LEMMA LoginIInv ==
  ASSUME IInv, NEW l \in Logins, GetByEmail(l) \/ LoginFails(l)
  PROVE  IInv'
<1>1. l \in Requests /\ l \in Issuers /\ UNCHANGED <<now, inputs, account, token, until>>
  BY DEF GetByEmail, LoginFails, Requests, Issuers
<1>2. /\ account' \in [Registers -> Accounts \cup {None}]
      /\ Grows /\ AsAsked' /\ OneAccountPerAddress'
      /\ \A q \in Registers : account'[q] = account[q]
  BY <1>1, Unchanged
<1>3. CASE \E a \in Answers : Finish(l, a)
  BY <1>1, <1>2, <1>3, Finishing
<1>4. ASSUME NEW u \in Registers, Exists(u), MayLogin(u),
             GoesBy(l, u, account[u].role, "issue")
      PROVE  IInv'
  <2>1. account'[u] # None /\ account'[u] = account[u] /\ account[u].role \in Roles
    BY <1>1, <1>4 DEF Exists, IInv, TypeOK, Accounts
  <2>2. \A x \in Earned(account[u].role) : Has(u, x)'
    BY <1>4, <2>1 DEF Earned, Rights, Has, Exists, MayLogin
  <2> QED
    BY <1>1, <1>2, <1>4, <2>1, <2>2, GoingOn
<1> QED
  BY <1>3, <1>4 DEF GetByEmail, Selects, LoginFails, Answers

(* Calling with a token.                                                   *)
LEMMA CallIInv ==
  ASSUME IInv, NEW c \in Calls, Authenticate(c) \/ Serve(c)
  PROVE  IInv'
<1>1. c \in Requests /\ UNCHANGED <<now, inputs, account, token, until>>
  BY DEF Authenticate, Serve, Requests
<1>2. /\ account' \in [Registers -> Accounts \cup {None}]
      /\ Grows /\ AsAsked' /\ OneAccountPerAddress'
      /\ \A q \in Registers : account'[q] = account[q]
  BY <1>1, Unchanged
<1>3. CASE \E a \in Answers : Finish(c, a)
  BY <1>1, <1>2, <1>3, Finishing
<1>4. ASSUME NEW r \in Issuers, NEW clock \in Clocks, token[r] # None,
             Unexpired(token[r], clock), Permits(c, token[r]),
             GoesBy(c, token[r].user, token[r].role, "serve")
      PROVE  IInv'
  <2>1. /\ token[r].user \in Registers /\ token[r].role \in Roles /\ token[r].exp \in Nat
        /\ account'[token[r].user] # None
    BY <1>1, <1>4 DEF IInv, TypeOK, Tokens
  <2>2. /\ clock \in Nat /\ now <= clock /\ now \in Nat
        /\ now + 1 <= token[r].exp /\ token[r].exp <= now + Skew + Expiry
    BY <1>4, <2>1, AccountAssumption DEF IInv, TypeOK, Clocks, Unexpired, Issued
  <2>3. Skew + Expiry >= 1
    BY <2>1, <2>2, AccountAssumption
  <2>4. route[c] = "admin" => token[r].role = "admin"
    BY <1>4 DEF Permits
  <2>5. ASSUME NEW x \in Earned(token[r].role)
        PROVE  Good(token[r].user, x, now + 1, Life)
    <3>1. Good(token[r].user, x, token[r].exp, Life) /\ x \in Rights
      BY <1>4 DEF IInv, Issued, Earned, Rights
    <3>2. until[x][token[r].user] \in Nat /\ Life \in Nat
      BY <2>1, <3>1, AccountAssumption DEF IInv, TypeOK, Life
    <3> QED
      BY <2>1, <2>2, <3>1, <3>2 DEF Good
  <2> QED
    BY <1>1, <1>2, <1>4, <2>1, <2>3, <2>4, <2>5, GoingOn
<1> QED
  BY <1>3, <1>4 DEF Authenticate, Serve, Answers

(* The operator's two statements.                                          *)
LEMMA OperatorIInv ==
  ASSUME IInv, NEW u \in Registers, SetRole(u) \/ SetActive(u)
  PROVE  IInv'
<1>1. Exists(u) /\ account[u] \in Accounts
  BY DEF SetRole, SetActive, Updates, Exists, IInv, TypeOK
<1>2. ASSUME NEW role \in Roles, Updates(u, [account[u] EXCEPT !.role = role])
      PROVE  IInv'
  <2>1. /\ [account[u] EXCEPT !.role = role] \in Accounts
        /\ [account[u] EXCEPT !.role = role].email = account[u].email
        /\ [account[u] EXCEPT !.role = role].password = account[u].password
    BY <1>1 DEF Accounts
  <2> QED
    BY <1>2, <2>1, UpdateIInv
<1>3. ASSUME NEW active \in BOOLEAN, Updates(u, [account[u] EXCEPT !.active = active])
      PROVE  IInv'
  <2>1. /\ [account[u] EXCEPT !.active = active] \in Accounts
        /\ [account[u] EXCEPT !.active = active].email = account[u].email
        /\ [account[u] EXCEPT !.active = active].password = account[u].password
    BY <1>1 DEF Accounts
  <2> QED
    BY <1>3, <2>1, UpdateIInv
<1> QED
  BY <1>2, <1>3 DEF SetRole, SetActive

(* The invariant is inductive.                                             *)
LEMMA NextIInv == IInv /\ [Next]_vars => IInv'
<1> SUFFICES ASSUME IInv, [Next]_vars PROVE IInv'
  OBVIOUS
<1>1. ASSUME NEW r \in Registers, CreateUser(r) \/ RegisterFails(r) PROVE IInv'
  BY <1>1, RegisterIInv
<1>2. ASSUME NEW l \in Logins, GetByEmail(l) \/ LoginFails(l) PROVE IInv'
  BY <1>2, LoginIInv
<1>3. ASSUME NEW r \in Issuers, IssueToken(r) PROVE IInv'
  BY <1>3, IssueIInv
<1>4. ASSUME NEW c \in Calls, Authenticate(c) \/ Serve(c) PROVE IInv'
  BY <1>4, CallIInv
<1>5. ASSUME NEW u \in Registers, SetRole(u) \/ SetActive(u) PROVE IInv'
  BY <1>5, OperatorIInv
<1>6. CASE Tick
  BY <1>6, TickIInv
<1>7. CASE UNCHANGED vars
  BY <1>7 DEF vars, inputs, IInv, TypeOK, AsAsked, Newcomers, OneAccountPerAddress, InTime,
     InProgress, Issuing, Issued, Serving, Good, Has, Exists, Stored
<1> QED
  BY <1>1, <1>2, <1>3, <1>4, <1>5, <1>6, <1>7 DEF Next, RequestStep

LEMMA Invariance == Spec => []IInv
BY InitIInv, NextIInv, PTL DEF Spec

-----------------------------------------------------------------------------
(* Every reachable state is well typed, and whatever goes by an account    *)
(* goes by one that exists (Register returns on the error of Create).      *)
THEOREM AccountsType == Spec => []TypeOK
BY Invariance, PTL DEF IInv

(* Registrations that race, fail and are repeated make no second account   *)
(* of an address (ToLower, TrimSpace and users_email_unique).              *)
THEOREM AddressHasOneAccount == Spec => []OneAccountPerAddress
BY Invariance, PTL DEF IInv

(* Who has an account is never told that its credentials are wrong.        *)
THEOREM CredentialsAlwaysWork == Spec => CredentialsWork
<1> DEFINE A == \A l \in Logins : resp[l] # "badCredentials" /\ resp'[l] = "badCredentials" =>
                  ~ \E u \in Registers : /\ Exists(u)
                                         /\ Canon[ask[u].email] = Canon[ask[l].email]
                                         /\ ask[u].password = ask[l].password
<1>1. ASSUME IInv, [Next]_vars PROVE [A]_vars
  <2> SUFFICES ASSUME NEW l \in Logins, resp[l] # "badCredentials", resp'[l] = "badCredentials",
                      NEW u \in Registers, Exists(u),
                      Canon[ask[u].email] = Canon[ask[l].email],
                      ask[u].password = ask[l].password
               PROVE  FALSE
    OBVIOUS
  <2>1. l \in Requests /\ l \in Issuers /\ l \notin Registers /\ l \notin Calls
    BY AccountAssumption DEF Requests, Issuers
  <2>2. \A q, a : Finish(q, a) /\ q # l => resp'[l] = resp[l]
    BY <2>1, <1>1 DEF Finish, IInv, TypeOK
  <2>3. GetByEmail(l)
    <3>1. \A a : Finish(l, a) => resp'[l] = a
      BY <2>1, <1>1 DEF Finish, IInv, TypeOK
    <3>2. ~ UNCHANGED resp
      BY <2>1
    <3>3. ASSUME NEW r \in Registers, CreateUser(r) \/ RegisterFails(r) PROVE FALSE
      BY <2>1, <2>2, <3>2, <3>3 DEF CreateUser, RegisterFails, Refused, GoesBy
    <3>4. ASSUME NEW k \in Logins, GetByEmail(k) \/ LoginFails(k) PROVE GetByEmail(l)
      BY <2>1, <2>2, <3>1, <3>2, <3>4 DEF GetByEmail, LoginFails, GoesBy
    <3>5. ASSUME NEW r \in Issuers, IssueToken(r) PROVE FALSE
      BY <2>1, <2>2, <3>1, <3>5 DEF IssueToken
    <3>6. ASSUME NEW c \in Calls, Authenticate(c) \/ Serve(c) PROVE FALSE
      BY <2>1, <2>2, <3>2, <3>6 DEF Authenticate, Serve, GoesBy
    <3>7. ~ \E v \in Registers : SetRole(v) \/ SetActive(v)
      BY <3>2 DEF SetRole, SetActive, Updates
    <3>8. ~ Tick
      BY <3>2 DEF Tick
    <3> QED
      BY <1>1, <3>2, <3>3, <3>4, <3>5, <3>6, <3>7, <3>8 DEF Next, RequestStep, vars
  <2>4. /\ account[u].email = Stored(ask[l].email) /\ account[u].password = ask[l].password
    BY <1>1 DEF IInv, AsAsked, Stored
  <2>5. \A v \in Registers : Exists(v) /\ account[v].email = Stored(ask[l].email) => v = u
    BY <1>1, <2>4 DEF IInv, OneAccountPerAddress, AsAsked, Stored
  <2>6. Finish(l, "inactive") => resp'[l] = "inactive"
    BY <2>1, <1>1 DEF Finish, IInv, TypeOK
  <2> QED
    BY <2>3, <2>4, <2>5, <2>6 DEF GetByEmail, Selects, GoesBy
<1> QED
  BY <1>1, Invariance, PTL DEF Spec, CredentialsWork

(* A call that is served goes by a right that its account has, or lost     *)
(* less than Outlives ago.                                                 *)
LEMMA ServedIsFresh ==
  ASSUME IInv, NEW c \in Calls, pc[c] = "serve", NEW x \in Earned(claims[c].role)
  PROVE  Fresh(claims[c].user, x)
<1>1. /\ c \in Requests /\ claims[c].user \in Registers
      /\ now <= since[c] + Delay /\ since[c] \in Nat /\ now \in Nat
  BY DEF IInv, TypeOK, InTime, InProgress, Requests
<1>2. Good(claims[c].user, x, since[c] + 1, Life) /\ x \in Rights
  BY DEF IInv, Serving, Earned, Rights
<1>3. until[x][claims[c].user] \in Nat
  BY <1>1, <1>2 DEF IInv, TypeOK
<1> QED
  BY <1>1, <1>2, <1>3, AccountAssumption DEF Good, Fresh, Life, Outlives

(* Administrators' routes do nothing for an account that was never         *)
(* promoted, nor longer than Outlives after it was demoted.                *)
THEOREM AdminIsAlwaysFresh == Spec => AdminIsFresh
<1>1. IInv /\ [Next]_vars =>
        [\A c \in Calls : route[c] = "admin" /\ pc[c] = "serve" /\ resp'[c] = "served" =>
           Fresh(claims[c].user, "admin")]_vars
  BY ServedIsFresh DEF IInv, Serving, Earned, Rights
<1> QED
  BY <1>1, Invariance, PTL DEF Spec, AdminIsFresh

(* No route does anything for an account longer than Outlives after it was *)
(* deactivated.                                                            *)
THEOREM ActiveIsAlwaysFresh == Spec => ActiveIsFresh
<1>1. IInv /\ [Next]_vars =>
        [\A c \in Calls : pc[c] = "serve" /\ resp'[c] = "served" =>
           Fresh(claims[c].user, "active")]_vars
  BY ServedIsFresh DEF IInv, Earned, Rights
<1> QED
  BY <1>1, Invariance, PTL DEF Spec, ActiveIsFresh
=============================================================================
