------------------------------- MODULE Accounts ------------------------------
(***************************************************************************)
(* Accounts and tokens: registering, logging in, and calling the API with  *)
(* a token that says who the caller was and what role it had when it was   *)
(* issued, while an operator promotes, demotes and deactivates accounts    *)
(* with SQL.                                                               *)
(*                                                                         *)
(* Nothing about a token is stored: until it expires it is worth what it   *)
(* says.  Time matters, so requests take some of it: at most Delay from    *)
(* the read or check they rely on to their effect.                         *)
(***************************************************************************)
EXTENDS Naturals

CONSTANTS
  Registers,    \* requests: POST /auth/register; each is the id of its account
  Logins,       \* requests: POST /auth/login
  Calls,        \* requests to a route behind the auth middleware
  Emails,       \* e-mail addresses as people type them
  Canon,        \* address -> the address without spaces and capitals
  Passwords,
  Expiry,       \* the life of a token (JWT_EXPIRATION)
  Skew,         \* how far the clocks of two instances may differ
  Delay,        \* the longest a request runs after its read or check
  MaxTime,      \* bound on the time
  None          \* no account, no token

Issuers == Registers \cup Logins
Requests == Issuers \cup Calls
Rights == {"active", "admin"}
Roles == {"admin", "user"}

Accounts == [email : Emails, password : Passwords, role : Roles, active : BOOLEAN]
Tokens == [user : Registers, role : Roles, exp : Nat]

ASSUME AccountAssumption ==
  /\ Canon \in [Emails -> Emails]
  /\ Registers \cap Logins = {} /\ Issuers \cap Calls = {}
  /\ Expiry \in Nat /\ Skew \in Nat /\ Delay \in Nat /\ MaxTime \in Nat \ {0}
  /\ None \notin Accounts /\ None \notin Tokens /\ None \notin Registers

VARIABLES
  now,          \* the time, on the slowest clock
  ask,          \* register or login request -> address and password
  route,        \* call -> whether it is to a route for administrators
  account,      \* table users
  token,        \* register or login request -> the token it was answered with
  claims,       \* request in progress -> the account and role it goes by
  since,        \* request in progress -> when it read or checked them
  pc,           \* request -> the call it makes next
  resp,         \* request -> its answer
  until         \* history: right, account -> when it last lost the right; 0: never

inputs == <<ask, route>>
vars == <<now, inputs, account, token, claims, since, pc, resp, until>>

NoClaims == [user |-> None, role |-> "user"]

(* Types, and: a token and a request in progress go by an account that     *)
(* exists.                                                                 *)
TypeOK ==
  /\ now \in 1..MaxTime
  /\ ask \in [Issuers -> [email : Emails, password : Passwords]]
  /\ route \in [Calls -> Roles]
  /\ account \in [Registers -> Accounts \cup {None}]
  /\ token \in [Issuers -> Tokens \cup {None}]
  /\ claims \in [Requests -> [user : Registers \cup {None}, role : Roles]]
  /\ since \in [Requests -> Nat]
  /\ pc \in [Requests -> {"idle", "issue", "serve", "done"}]
  /\ resp \in [Requests -> {"none", "created", "ok", "served", "exists", "error",
                            "badCredentials", "inactive", "unauthorized", "forbidden"}]
  /\ until \in [Rights -> [Registers -> 0..MaxTime]]
  /\ \A r \in Issuers : token[r] # None => account[token[r].user] # None
  /\ \A r \in Requests : pc[r] \in {"issue", "serve"} =>
       claims[r].user \in Registers /\ account[claims[r].user] # None

Init ==
  /\ now = 1
  /\ ask \in [Issuers -> [email : Emails, password : Passwords]]
  /\ route \in [Calls -> Roles]
  /\ account = [u \in Registers |-> None]
  /\ token = [r \in Issuers |-> None]
  /\ claims = [r \in Requests |-> NoClaims]
  /\ since = [r \in Requests |-> 0]
  /\ pc = [r \in Requests |-> "idle"]
  /\ resp = [r \in Requests |-> "none"]
  /\ until = [x \in Rights |-> [u \in Registers |-> 0]]
-----------------------------------------------------------------------------
(* r is answered; what it went by goes with its context.                   *)
Finish(r, a) ==
  /\ pc' = [pc EXCEPT ![r] = "done"]
  /\ resp' = [resp EXCEPT ![r] = a]
  /\ claims' = [claims EXCEPT ![r] = NoClaims]
  /\ since' = [since EXCEPT ![r] = 0]

Exists(u) == account[u] # None
Has(u, x) == Exists(u) /\ IF x = "active" THEN account[u].active ELSE account[u].role = "admin"

(* r goes on to the given step as user u with the role it has just read.   *)
GoesBy(r, u, role, step) ==
  /\ claims' = [claims EXCEPT ![r] = [user |-> u, role |-> role]]
  /\ since' = [since EXCEPT ![r] = now]
  /\ pc' = [pc EXCEPT ![r] = step]
  /\ UNCHANGED resp

(* The clock of the instance that serves a request.                        *)
Clocks == now .. now + Skew
-----------------------------------------------------------------------------
(* POST /auth/register                                                     *)

AsTyped(e) == e                           \* a mutant: neither ToLower nor TrimSpace
Stored(e) == Canon[e]

NoIndex(e) == FALSE                       \* a mutant: users.email is not unique
Taken(e) == \E u \in Registers : Exists(u) /\ account[u].email = e

(* INSERT INTO users: everyone starts as an active user.                   *)
Inserts(r) ==
  /\ ~ Taken(Stored(ask[r].email))
  /\ account' = [account EXCEPT ![r] = [email |-> Stored(ask[r].email),
                                        password |-> ask[r].password,
                                        role |-> "user", active |-> TRUE]]

Unchecked(r) == GoesBy(r, r, "user", "issue")      \* a mutant: Create's error is dropped
Refused(r) == Finish(r, "exists")

CreateUser(r) ==
  /\ pc[r] = "idle"
  /\ \/ Inserts(r) /\ GoesBy(r, r, "user", "issue")
     \/ Taken(Stored(ask[r].email)) /\ Refused(r) /\ UNCHANGED account
  /\ UNCHANGED <<now, inputs, token, until>>

(* The body, the address, the password or a name is refused - by the       *)
(* service, by bcrypt or by the table's checks: 400.  So is a connection   *)
(* that breaks before the INSERT, or that only loses its reply.            *)
RegisterFails(r) ==
  /\ pc[r] = "idle"
  /\ Inserts(r) \/ UNCHANGED account
  /\ Finish(r, "error")
  /\ UNCHANGED <<now, inputs, token, until>>

-----------------------------------------------------------------------------
(* POST /auth/login                                                        *)

EvenInactive(u) == TRUE                   \* a mutant: no check of is_active
MayLogin(u) == account[u].active

(* SELECT ... WHERE email = $1                                             *)
Selects(l, u) == Exists(u) /\ account[u].email = Stored(ask[l].email)

(* The row it returns, or none; then is_active, then the password.         *)
GetByEmail(l) ==
  /\ pc[l] = "idle"
  /\ \/ /\ ~ \E u \in Registers : Selects(l, u)
        /\ Finish(l, "badCredentials")
     \/ \E u \in Registers :
          /\ Selects(l, u)
          /\ \/ ~ MayLogin(u) /\ Finish(l, "inactive")
             \/ /\ MayLogin(u) /\ account[u].password # ask[l].password
                /\ Finish(l, "badCredentials")
             \/ /\ MayLogin(u) /\ account[u].password = ask[l].password
                /\ GoesBy(l, u, account[u].role, "issue")
  /\ UNCHANGED <<now, inputs, account, token, until>>

(* A body that is not JSON, or a query that fails.                         *)
LoginFails(l) ==
  /\ pc[l] = "idle"
  /\ Finish(l, "error")
  /\ UNCHANGED <<now, inputs, account, token, until>>

(* issueToken, for both: with the role that was read, not the one the      *)
(* account has by now.                                                     *)
IssueToken(r) ==
  /\ pc[r] = "issue"
  /\ \E clock \in Clocks :
       token' = [token EXCEPT ![r] = [user |-> claims[r].user, role |-> claims[r].role,
                                      exp |-> clock + Expiry]]
  /\ Finish(r, IF r \in Registers THEN "created" ELSE "ok")
  /\ UNCHANGED <<now, inputs, account, until>>

-----------------------------------------------------------------------------
(* Any call with a token, or without.                                      *)

NoExpiry(t, clock) == TRUE                \* a mutant: exp is not checked
Unexpired(t, clock) == clock < t.exp

AnyRole(c, t) == TRUE                     \* a mutant: the route is not behind RequireAdmin
Permits(c, t) == route[c] = "admin" => t.role = "admin"

(* Authenticate, then RequireAdmin on the routes that have it.             *)
Authenticate(c) ==
  /\ pc[c] = "idle"
  /\ \/ Finish(c, "unauthorized")          \* no token
     \/ \E r \in Issuers, clock \in Clocks :
          LET t == token[r] IN
          /\ t # None
          /\ \/ ~ Unexpired(t, clock) /\ Finish(c, "unauthorized")
             \/ Unexpired(t, clock) /\ ~ Permits(c, t) /\ Finish(c, "forbidden")
             \/ /\ Unexpired(t, clock) /\ Permits(c, t)
                /\ GoesBy(c, t.user, t.role, "serve")
  /\ UNCHANGED <<now, inputs, account, token, until>>

(* The handler has its effect, under the claims it was given.              *)
Serve(c) ==
  /\ pc[c] = "serve"
  /\ Finish(c, "served")
  /\ UNCHANGED <<now, inputs, account, token, until>>

-----------------------------------------------------------------------------
(* The operator, with SQL: no endpoint changes a role or deactivates.      *)
Updates(u, row) ==
  /\ Exists(u)
  /\ account' = [account EXCEPT ![u] = row]
  /\ until' = [x \in Rights |-> [until[x] EXCEPT ![u] = IF Has(u, x) /\ ~ Has(u, x)' THEN now ELSE @]]
  /\ UNCHANGED <<now, inputs, token, claims, since, pc, resp>>

SetRole(u) == \E role \in Roles : Updates(u, [account[u] EXCEPT !.role = role])
SetActive(u) == \E active \in BOOLEAN : Updates(u, [account[u] EXCEPT !.active = active])

(* Requests that have read or checked end in time.                         *)
InProgress(r) == pc[r] \in {"issue", "serve"}

Tick ==
  /\ now < MaxTime
  /\ \A r \in Requests : InProgress(r) => now < since[r] + Delay
  /\ now' = now + 1
  /\ UNCHANGED <<inputs, account, token, claims, since, pc, resp, until>>

RequestStep ==
  \/ \E r \in Registers : CreateUser(r) \/ RegisterFails(r)
  \/ \E l \in Logins : GetByEmail(l) \/ LoginFails(l)
  \/ \E r \in Issuers : IssueToken(r)
  \/ \E c \in Calls : Authenticate(c) \/ Serve(c)

Next ==
  \/ RequestStep
  \/ \E u \in Registers : SetRole(u) \/ SetActive(u)
  \/ Tick

Spec == Init /\ [][Next]_vars
-----------------------------------------------------------------------------
(* However an address is spelled, and however registrations race, fail and *)
(* are repeated, it has one account.                                       *)
OneAccountPerAddress ==
  \A u, v \in Registers :
    Exists(u) /\ Exists(v) /\ Canon[ask[u].email] = Canon[ask[v].email] => u = v

(* Who has an account - even one whose registration was answered with an   *)
(* error - is never told that its e-mail or password is wrong.             *)
CredentialsWork ==
  [][\A l \in Logins : resp[l] # "badCredentials" /\ resp'[l] = "badCredentials" =>
       ~ \E u \in Registers : /\ Exists(u)
                              /\ Canon[ask[u].email] = Canon[ask[l].email]
                              /\ ask[u].password = ask[l].password]_vars

(* The longest a right outlives its withdrawal: a login that has read it   *)
(* ends, its token expires on the slowest clock, and a call that was let   *)
(* in just before ends.                                                    *)
Outlives == Delay + Skew + Expiry + Delay

Fresh(u, x) == Has(u, x) \/ (until[x][u] # 0 /\ now < until[x][u] + Outlives)

(* Nothing is done on an administrator's route for an account that was     *)
(* never promoted, nor longer than Outlives after it was demoted.          *)
AdminIsFresh ==
  [][\A c \in Calls : route[c] = "admin" /\ pc[c] = "serve" /\ resp'[c] = "served" =>
       Fresh(claims[c].user, "admin")]_vars

(* Nothing is done for an account longer than Outlives after it was        *)
(* deactivated, although no call checks is_active.                         *)
ActiveIsFresh ==
  [][\A c \in Calls : pc[c] = "serve" /\ resp'[c] = "served" =>
       Fresh(claims[c].user, "active")]_vars
=============================================================================
