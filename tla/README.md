# TicketFlow: TLA+ models and proofs

TicketFlow (`src/`) is a Go REST API that sells event tickets. Its state is in
PostgreSQL (users, events, bookings, audit log) and Redis (a lock per event and
a sliding-window rate limiter). API instances keep nothing between requests.
This directory models the concurrent booking and cancelling of tickets, singly and
in batches, the administrators' edits of the events that are being booked, the
audit log, accounts and tokens, the rate limiter, and the API's start and stop. It
checks them with TLC and proves results about them with TLAPS.

## Inventory

| Component (source) | State | Operations | What makes it correct |
|---|---|---|---|
| Booking flow (`service/booking_service.go`, `postgres/booking_repo.go`, `handler/booking_handler.go`) | `bookings`, `events.remaining_tickets/version`; one transaction per request | `BookTicket`, `CancelBooking`, `BatchBook` | tickets are conserved; one active booking per user and event; answers are true, for batches too; every request ends |
| Redis lock (`cache/redis_repo.go`) | `lock:event:<id>` -> token, TTL 5 s | `AcquireLock`, `ReleaseLock` | only the holder's token releases it; it is always given up in the end |
| Event administration (`service/event_service.go`, `postgres/event_repo.go`) | `events` | `Create`, `Update` (optimistic version), `Delete` (soft), `BatchCreate`, reads | no update overwrites another; tickets stay conserved |
| Audit log (`service/audit_service.go`, `postgres/audit_repo.go`) | `audit_logs` | `Log`, `LogInTx`, `GetHistory`, `ComputeDiff` | an entry for every change, none for what did not happen, in the order of the changes |
| Rate limiter (`middleware/rate_limiter.go`, `Allow`) | `rl:<ip>:<group>` sorted sets | `Allow` | at most 100 requests of a client to a path group in any window (the docs say of a client); fails open |
| Accounts and tokens (`service/auth_service.go`, `middleware/auth.go`, `rbac.go`, `postgres/user_repo.go`) | `users`; a role inside each token | `Register`, `Login`, `ValidateToken` | one account per e-mail, whose credentials work; no right outlives its withdrawal by more than a bound |
| Schema (`migrations/`) | constraints | CHECKs, unique indexes | the last line of defence for the above |
| Availability cache (`cache/redis_repo.go`) | none: nothing ever writes it | `InvalidateEvent` deletes a key that is never set | - |
| Startup and shutdown (`cmd/api/main.go`, `postgres/db.go`) | connection pool, `schema_migrations`, the requests in progress | load, connect, migrate, serve, drain for 30 s, close | who serves has the whole schema; an orderly exit comes, and cuts no request that could still be answered |

How they interact: a handler calls a service; the services call repositories
(SQL over a pool of `DB_MAX_CONNS` connections) and Redis. Requests share state
only through Postgres rows, row locks, the unique index, Redis keys and the
pool. Hard behaviours: interleaved statements of concurrent transactions; the
opposite lock orders of booking and cancelling; a commit whose answer is lost;
a Redis lock that expires under its holder; deferred clean-up that fails or
never runs; audit entries written outside the transaction; stale reads written
back by event updates, under a version that the client chooses. `PROJECT.json` lists them by line, with the properties
that cover them.

## Modules

* `TicketLedger` - the abstract specification. `stock` and `booking` are the
  committed tables; `Book` and `Cancel` are indivisible. It is what a client
  could be told the API does.
* `TicketLedgerProofs` - its theorems.
* `BookingFlow` - `BookTicket`, `CancelBooking` and everything they call, one
  action per database or Redis call.
* `MCBookingFlow` - restrictions of the initial states and symmetry for TLC.
* `BatchFlow` - `BatchBook`: which of `BookingFlow`'s requests are a batch's, and
  when it makes them. `MCBatchFlow` its instances, `BatchFlowProofs` its theorems.
* `BookingFlowProofs` - `BookingFlow`'s inductive invariant and its refinement of
  the ledger; `BookingRequestProofs` extends it with the theorems about answers, the
  audit log, locks, deadlocks and progress.
* `EventAdmin` - creating, updating and deleting events, with their audit
  entries, while users book and cancel; `MCEventAdmin` its instances,
  `EventAdminProofs` its theorems.
* `RateLimiter` - the sliding window in Redis; `MCRateLimiter` its instances,
  `RateLimiterProofs` its theorems.
* `Accounts` - registering, logging in and calling with a token, beside the
  operator's SQL; `MCAccounts` its instance, `AccountsProofs` its theorems.
* `Lifecycle` - `main` on several instances, with the migrations and the requests
  that are in progress; `MCLifecycle` its instance, `LifecycleProofs` its theorems.

`BookingFlow` implements `TicketLedger` (`RefinesLedger`), and `EventAdmin` uses
what that shows: its `Book` and `Cancel` are the ledger's, indivisible, on rows
that administrators write too. `BatchFlow` extends `BookingFlow` with one
variable and implements it (`BatchesAreRequests`), so that what holds of requests
holds of a batch's. `RateLimiter` and `Accounts` decide only whether, and for whom, a
handler is called; `Lifecycle` when, and when it is cut off: a `Dies` there is a
`Crash` or `ConnectionLost` of every request of the instance here.

### BookingFlow and the code

Each request is an element of `Bookings` (POST /bookings; the element is also
the id of the row it would insert) or `Cancels` (DELETE /bookings/{id}). `want`
and `target` hold the requests' inputs and never change.

| Action | Code |
|---|---|
| `ArriveBook`, `AcquireLock`, `AcquireLockFails` | `BookTicket` 45-58, `RedisRepo.AcquireLock` |
| `Begin` | `BeginTx`, `pool.Begin` in `Cancel` |
| `SelectForUpdate` | `GetByIDForUpdate` and the checks 74-79 |
| `CreateInTx`, `UpdateTicketsInTx`, `LogInTx`, `CommitBooking` | the statements of the same names |
| `Rollback`, `ReleaseLock`, `ReleaseLockFails` | the deferred calls, in the order Go runs them |
| `ArriveCancel`, `Fetch` | `CancelBooking` 124-130 |
| `LockBooking`, `CancelRow`, `RestoreTickets`, `CommitCancel` | the four statements of `BookingRepo.Cancel` |
| `AuditLog` | `audit.Log` after the commit, its error ignored |
| `CallFails`, `ConnectionLost`, `Crash` | a failed call, a broken connection or the 30 s timeout, a killed process |
| `ServerRollsBack`, `ServerCommits`, `DeadlockAbort`, `LockExpires` | Postgres and Redis |

Postgres is modelled by what the code relies on. A statement's effects stay in
`writes[r]` until `Commits`, which applies exactly those; row locks
(`eventRow`, `bookingRow`) last until the transaction ends; an INSERT into the
partial unique index waits for a transaction that holds a conflicting entry; a
failed statement aborts the transaction and frees its locks at once, and a
COMMIT after it is a rollback and an error. A closed connection (`tx` = `lost`)
keeps its locks until the server notices; if COMMIT was under way (`inDoubt`)
it may still commit. pgx closes a connection when the request's context ends,
so a timeout and a broken network look alike. go-redis repeats a `SET NX` whose reply was
lost and may find its own key: `AcquireLockFails` answers an error or "busy". Validation that follows a SELECT
without another call is part of the SELECT's action.

Abstractions: `draft` stands for the three statuses other than `published`;
prices, names, dates, IP addresses and timestamps are left out (a bad IP is one
way for the audit INSERT to fail); `audit` is the set of requests that have an
entry; each request has a process of its own, so a crash of an instance that
serves several is several `Crash` steps; the availability cache has no state.
`InvalidateEvent` is therefore no step.

### BatchFlow and the code

`batch[t]` is the sequence of booking requests that the entries of batch request `t`
become. `Turn(b)` is the loop of `BatchBook`: an entry's `BookTicket` is called when
the one before has returned without an error, and not at all if the batch is
empty or has more than `MaxItems` entries (10 in the code). Everything else is
`BookingFlow`'s. The answer is a function of the entries' answers: 201 if all were
created, otherwise 400 with the index of the one that failed.

### EventAdmin and the code

An administrator's request is an element of `Creates`, `Updates` or `Deletes`.
It uses no transaction, so each statement is an action and anything may come
between two.

| Action | Code |
|---|---|
| `Create`, `CreateFails` | `Create` and `BatchCreate` of the service: validation, then the INSERTs. pgx sends a batch's INSERTs as one implicit transaction, so they are one action: all rows or none |
| `ClientGets` | GET /events/{id}: the page the administrator edits, whose version the PUT sends back; optional |
| `ReadOld`, `ReadFails` | `GetByID` in `Update` and `Delete`, and `validateUpdateEvent` |
| `WriteUpdate`, `WriteUpdateFails` | `EventRepo.Update`: the UPDATE with `version` and `deleted_at` in its WHERE, conflict or not |
| `WriteDelete`, `WriteDeleteFails` | `EventRepo.SoftDelete` |
| `AuditLog` | `audit.Log` for each entry, errors ignored |
| `Crash` | the process dies between two statements |
| `Book`, `Cancel` | a user's request, as `BookingFlow` shows it to work, with the version it bumps or does not |

`Specs` is what a client may ask for: a total of 0 stands for every input that
validation refuses, `bogus` for a status that only the enum refuses, `draft` for
the three statuses that do not sell. `ComputeDiff` is applied to the states that the
entries in the log carry; `DiffsAreTrue` judges it by what the administrator had seen
and asked for. Titles, prices and dates are left out; they
are written by the same statement as total and status and protected by the same
version. Statements that fail leave no trace or, when only the answer is lost, all of
it.

The version in a PUT is an input like any other: `edit[u].version` is any number up to
`MaxVersion`, and 0 stands for what `validateUpdateEvent` refuses. `base[u]` is the row
its client saw, if it took the version from a GET as API_GUIDE.md describes, and
`NoRow` if it made the version up. `Ahead(u)` says that the service's read had not
reached the version sent. Properties about what an update's author saw
speak of the former clients; all others speak of both.

### RateLimiter and the code

| Action | Code |
|---|---|
| `Arrive` | the middleware up to the call of `Allow`: the key and the time, on this instance's clock |
| `Allow` | the script, atomic on Redis, with its reply; without one go-redis runs it again with the same id, or `Allow` returns an error and the request is served |
| `FailOpen` | the call of `Allow` fails without running the script |
| `RedisRestarts`, `Tick` | Redis loses its data; time passes |

`now` is the time on the slowest clock and a request's timestamp at most `Skew`
ahead of it. `Delay` bounds the time from reading the clock to the script's last
run; the 30 s timeout, which the router puts before the limiter, ends the
client library's retries. `admitted` is history: when the script last admitted a
request, forgotten when Redis forgets. A key lives while `now <= expires`, as in
Redis. `PathGroup` keeps a path's first two segments, as `pathGroup` does; the
client's address is an input. The limit is each group's own: no property of the passing
run speaks of a client's requests as a whole, for which the code has no limit
(`limit_per_ip`). A request that is served open, because Redis did not answer, counts
for `WithinLimit` only if the script ran for it.

### Accounts and the code

| Action | Code |
|---|---|
| `CreateUser`, `RegisterFails` | `Register` up to the answer of the INSERT: `users_email_unique` decides; a failure may leave the account behind |
| `GetByEmail`, `LoginFails` | `Login`: the SELECT, `is_active`, the password |
| `IssueToken` | `issueToken`, for both, later: bcrypt lies between |
| `Authenticate`, `Serve` | `Authenticate` and `RequireAdmin`; the handler's effect |
| `SetRole`, `SetActive` | the operator's UPDATE, the only way in the repository's docs to change a role (README.md:296); nothing changes `is_active` but SQL |

A password stands for its hash and a token for its claims; what is not a valid
signature is a call without a token. `Taken` is the unique index
and `Selects` the login's SELECT. `Canon` is `ToLower(TrimSpace(...))`. `now` is
the time on the slowest clock; another instance's is at most `Skew` ahead. A
request ends within `Delay` of the read or check it relies on: the 30 s timeout
ends its calls, and what else it does is computation. `until` is history: when an
account last lost a right. `claims` is a request's context and ends with it.
`exp` is a whole number of seconds, rounded down, which only shortens a token.

### Lifecycle and the code

`phase[i]` is where `main` is on instance `i`; `Start` to `NewRedisRepo` are its calls in
order, `Shutdown`, `Close` and `Exit` the end of it: `Shutdown` returns when no
request is left or after `ShutdownTime`; the deferred calls close Redis and then the
pool, and `pool.Close` waits for every connection. `Dies` is a kill or a `log.Fatal`,
which runs no deferred call. A signal makes `NewPool` fail and is otherwise noticed
only when the server runs: neither the migrations nor the ping of Redis take
the signal's context.

`Lock`, `Check`, `Mark`, `Run` and `Clear` are `RunMigrations`: golang-migrate takes an
advisory lock that ends with its connection, reads the version once, refuses if it
is dirty, and for each migration writes the version as dirty, runs the file and
writes it as clean, in three transactions. A migration that was run cannot be run
again: no file says `IF NOT EXISTS` for its tables. What an operator does about a
dirty schema is left out, so that a spoiled one stays so and every later start fails.

The calls of the startup are taken to return: the migrations (`migrate.New`, `Up`) have
no timeout, so that with a database that never answers `main` hangs, which the fairness
of `main`'s steps assumes away. A request whose timeout ends a call is taken to give its
connection back at once; pgx closes such a connection in the background, with a limit of
some seconds, and `pool.Close` waits for that too, so that the time in `StopsInTime` may
be exceeded by as much.

A request is running, perhaps with a connection (`inTx`); `age` counts its ticks and
`drain` those of an instance that stops, from the call of `Shutdown` until the pool is
closed. It may come while its instance is draining if its connection had been
accepted: `Shutdown` spares such a connection for 5 s (`NewConn`). What happens at
once when it is due - a context's end, the end of `Shutdown`, the next step of a
`main` that was waiting for it - precedes the next tick.

## Runs

All safety runs explore every fault at every step.

| Run | Instance | Question |
|---|---|---|
| `races` | 2 users, 1 event, 2 bookings, made apart or by one batch, 1 cancellation, totals and counts 1..2, 3 connections | do the interleaved statements implement the ledger, keep snapshots fresh, a user to one active booking and the audit log true; does a batch's answer tell what was booked, and is one of its transactions over before the next begins |
| `cancels` | 2 users, 2 bookings, 2 cancellations, 3 connections: either both bookings are in earnest and both cancellations are of one of them, or one is and the inputs are any: no tickets, draft and deleted events, missing and others' bookings | are tickets conserved, returned once and is one client told so; are all answers true, and is the ledger still implemented, when requests are refused; is whoever is stuck, for a row or a connection, stuck by one user's own two requests |
| `liveness` | 1 user, 2 bookings, made apart or by one batch, 1 cancellation, 2 connections | does everything end |
| `unaudited_cancel` | 1 booking, 1 cancellation | violated: README.md:14 of the repository promises an audit entry |
| `event_edits` | two kinds of start. A new event with a total of 1 or 2 on sale, 2 updates with any well-formed total and status and any version 1..3, 1 deletion; or no event and 1 create request: one or two events, each well-formed or with a total or status that is refused, or more than `MaxBatch` 2, then 1 update with version 0 or total 0 and one with version 1 or 2 and perhaps a bad status, 1 deletion, each of either event or of none. 1 booking; at most two administrators' requests come (`FewRequests`) | does an update take effect only at its version, on the state its author saw and never on a deleted event; can the stale count that an update writes back oversell; is the audit trail a possible history and each diff its author's; which updates make the count wrong |
| `undetected_race` | 1 update with any version 1..3, 1 booking | violated: README.md:213 of the repository promises that concurrent updates are detected |
| `lost_tickets` | 1 update, 1 booking | violated: README.md:12 of the repository promises that cancelling restores tickets |
| `refused_cancel` | 1 update, 1 booking | violated: API_GUIDE.md:489 of the repository promises it without the administrator |
| `limiter_window` | 3 requests of one client to one path, or one of them to a path of another group, `Limit` 2, `Window` 4, `Skew` 1, `Delay` 1, time up to 7 | does the window of a path group admit no more than it may, and refuse nobody it should not |
| `limit_per_ip` | the same with perfect clocks and no delay | violated: README.md:15 of the repository promises the limit for a client's requests to all endpoints |
| `accounts` | 2 registrations of one address in two spellings with 2 passwords, 1 login with either password or an unknown address, 1 call; `Expiry`, `Skew` and `Delay` 1, time up to 7; a right that was lost is not given back | is there one account, do its credentials work, and how long do rights last |
| `lifecycle` | 2 instances that start, stop and die without limit, 2 migrations, 2 requests; `Timeout` and `ShutdownTime` 3, `WriteTimeout` 2, `NewConn` 1 | is the schema whole where requests are served, what does an exit cut, does it come, and how soon |

The bounds: one event is enough because no transaction touches two and the
Redis keys of two events are unrelated. Two bookings and one cancellation are
the least that show overselling (two buyers of the last ticket), a rebooking
that races a cancellation, and the deadlock of the two lock orders. Double
cancelling needs a second user's booking besides, or the CHECK on the remaining
count would hide a double refund. Totals of 2 tell apart selling out,
overselling and refunding too much. `cancels` has one connection less than requests:
the pool runs dry while three transactions may wait for one another in a circle.
The ledger has no run of its own: that `BookingFlow` implements it is checked by
`races` and `cancels`, and so are `OneActivePerUser` and `Conservation`, the ledger's two
invariants, on the tables of `BookingFlow`. `BookingFlow` has an explicit
`Quiescent` step, so TLC checks it for deadlock.

Fairness of `liveness`: a handler that can take its next step does, since
goroutines are scheduled and database calls return; Postgres resolves deadlocks
and closed sessions; Redis expires keys. A batch's first entry comes when its client
calls, its later ones by themselves. Nothing forces a client to call or a
fault to happen. `MaxConns` = 2 for three requests makes the pool run dry and
still lets two transactions deadlock.

`EventAdmin`: one event is enough, except for a batch, since no statement
touches two that exist. Two requests are the least that can lose an update or race
an update and a deletion; versions in the tables reach 3 with a booking and an edit, and
`MaxVersion` 3 lets a PUT send every one of these that it can
meet. A fresh event with a total of 2, two
updates in flight, a booking of one or two tickets and its cancellation are every
way in which a stale count can differ from the true one; that several users'
bookings and more requests make no difference is what `NeverOversoldAlways` and
`MiscountsAreStaleUpdates` prove. `RateLimiter`: three requests are one
more than the limit; time goes to nearly twice the window, so that keys expire, buckets
are evicted and a refused client comes back; `Skew` and `Delay` of one each put
two timestamps out of order in both ways, and `Window` is more than their sum,
or `WithinLimit` would speak of nothing. The `EventAdmin` and `RateLimiter` runs
switch the deadlock check off because their requests run out; nothing in either
waits for anything, so they have no deadlock to find, and no liveness beyond a
handler going on to its end.

`accounts`: time goes past `Outlives` (4) after the latest loss that a token can
follow, and with `Outlives` less by one both freshness properties would be violated:
the bound is exact. Two accounts never interfere but through an address, which is
why both registrations have the same; the theorems speak of any number. `lifecycle`:
a tick is 10 s or 5, and the constants keep the order of the code's 5, 15, 30 and 30
seconds, with the default `SERVER_WRITE_TIMEOUT`; two migrations are the
least of which one can be there and the other not. Its fairness: `main` goes on;
a request whose context is done returns, since every call it makes takes that context;
time passes even if instances restart again and again (strong fairness of `Tick`,
which a start and stop in no time would otherwise starve). A handler need not
return before its timeout, and no instance needs to be started or told to stop. Both
runs switch the deadlock check off: requests run out, and a down instance
may stay down.

## Proofs

`TicketLedgerProofs` (any users, events, bookings and `MaxTickets`, the bookings
finite, as `LedgerAssumption` says): `LedgerTypeOK`, `LedgerConservation`, `LedgerOneActive`. `Sold(e)` is
the cardinality of a set with one element per ticket, so that no recursion is
needed: a booking adds `{b} \X 1..n` to it and a cancellation removes it. The
three invariants are proved together: conservation is what keeps a cancellation
within the stock's type.

`BookingFlowProofs` (any sets of users, events and requests, the requests finite
and of two disjoint kinds, any bound on tickets and connections) proves
`FlowTypeOK`, `SnapshotAlwaysHolds`, `FlowRefinesLedger`, `FlowConservation` and
`FlowOneActive`. None of these is inductive. The inductive invariant `IInv` says
of each request how its transaction's state (`BookControl`, `CancelControl`) and
its uncommitted writes (`BookWrites`, `CancelWrites`) belong to the call it makes
next, and what its row locks keep true of the tables (`BookHolds`,
`CancelHolds`): a booking past its SELECT holds the event row, so that the event
still has the version and the tickets it saw; past its INSERT nobody else has an
active booking of that user and event; a cancellation past its SELECT holds the
booking row, so that the booking is still active. All of it also holds of a
COMMIT in doubt, whose client is gone.

The argument has two parts. A step that changes no table (`Frame`) leaves the
other requests' part alone, and there is one lemma per action for its own part. A
COMMIT changes one event and one booking, whose rows it has locked; whoever else
relies on a row has locked it too, hence relies on another (`CommitOthers`).
`BookCommitEffect` and `CancelCommitEffect` then give the COMMIT's effect, which
is the ledger's `Book` or `Cancel`, and every other step is a stutter
(`StepIsLedgerStep`). Conservation and one active booking per user follow from
the ledger's theorems, instantiated with `stock <- Stock`.

`BookingRequestProofs` adds three invariants, inductive on top of `IInv`. `Told`, for
`AnswersAlwaysTrue` and `AuditAlwaysTrue`: a request that has been refused can have no
COMMIT on its way, and a cancellation that commits finds its booking active, so that
nobody has been told of its cancellation. `Holders` and `Written`, for
`DeadlocksAreAlwaysSelfInflicted`: row locks and uncommitted writes are those of
transactions that have not ended, and of these only an INSERT waits with an event row locked, and only
a cancellation's UPDATE of the event waits with its booking locked or anything
written. `IInv` adds that nobody asks for a connection while it has one. So whoever
is stuck for the pool is stuck behind requests that hold its connections, one of
these waits for a row or an index entry, and a circle of such waits contains an INSERT;
the request it waits for is a cancellation of the same user, which waits for the event
row of this INSERT's transaction. `OnlyTheHolderReleases` follows from the types alone.

`EveryStepLeadsOn` is the half of `EveryRequestEnds` and `RedisLocksAreFreed` that needs
no fairness: each step takes one request further along the at most 21 places of its
code (`Place`), or frees a Redis lock, of which such a step takes one at most. So with
finitely many requests no run goes on for ever; that it cannot stop early but in a
deadlock that Postgres resolves is what the theorem before it is about.

`EventAdminProofs` proves `AdminTypeOK`, `NeverOversoldAlways`, `MiscountsAreStaleUpdates`,
`AdminAuditIsTrue`, `UpdatesAreAlwaysSeen`, `DiffsAreAlwaysTrue` and `DeletedStaysFinal` for any
finite set of bookings, any other constants and any versions in the PUTs. The reason all
of them hold is that a version identifies what a row's edited fields are: every change of
them, and every sale, makes a new version (`Evolves`; cancellations and deletions make
none). So (`Coherent`) a row that a request read, or its client got, agrees
with the event if their versions do; and (`Pending`) while the version that a service
read stands, the remaining count can only have grown, since only cancellations
change it. An update that matches at the version it read therefore writes back a count
that is at most the true one: it may lose tickets (a finding) but cannot sell one twice.
If it matches at a later version, it is `Ahead`, and the count it writes may be too high
(another finding). `NeverOversold` is thus conditional: of an event to which no PUT has been
`Ahead` (`Honest`, in `Balanced`, on the ledger's `Sold`, by the ledger's lemmas). What is
not conditional is `MiscountsAreStaleUpdates`: tickets for sale and sold part from their
sum only by a PUT of one of these two kinds, and the second kind's version cannot
come from a GET, because a client that has seen a version saw it before the service
read (`Seen`). `Authored`, with `Spans` for the versions of an update's entry, `OwnEntries`
and `Distinct` say the same of entries not yet written as `AuditIsTrue` says of the
audit log, because an entry is decided when the event changes and written later.
Each is preserved by any step along which the rows evolve, so each action has
one lemma about what it does to the tables and one that puts the parts together.

`RateLimiterProofs` proves `LimiterTypeOK`, `AlwaysWithinLimit`,
`RefusalsAreAlwaysEarned` and `RetryAfterIsAlwaysEnough` for any finite set of
requests and any window, limit, skew and delay. `Remembered` is the key: a
request admitted less than `Window - Disorder` ago is still in its bucket,
since neither another request's timestamp nor the key's expiry can be so far
ahead. What counts for `WithinLimit` is thus among the at most `Limit` members.
`Bucketed` gives the other two: members were admitted, and the key lives one
window from its last admission and no longer.

`BatchFlowProofs` proves first that `BatchFlow` implements `BookingFlow`
(`BatchesAreRequests`: its steps are steps of `Next`, the loop's order only removes
some), so that every theorem about requests holds of it (`BatchesKeepPromises`), and from them
`BatchAnswerTells`, `BatchOneTransaction` and `BatchNoEventTwice` for batches of any
length. The invariant it adds says that an entry begins only after the one before
has been created, and that a request answered "created" has no transaction left.

`AccountsProofs` proves `AccountsType`, `AddressHasOneAccount`, `CredentialsAlwaysWork`,
`AdminIsAlwaysFresh` and `ActiveIsAlwaysFresh` for any number of requests, spellings
and passwords and any `Expiry`, `Skew` and `Delay`. The freshness properties need an
invariant with one bound for each stage: what a login has read was true when it
read it (`Issuing`); a token that stands for a lost right expires within
`Life` = `Delay + Skew + Expiry` of the loss (`Issued`); a call that goes by such a token was
let in before that (`Serving`) and is not late (`InTime`). Each stage's bound is the
one before plus what the stage may take.

`LifecycleProofs` proves `LifecycleTypeOK`, `OnlyWhole`, `Spoilers`, `ShutdownBounded` and
`CutsOnlySlow` for any instances, requests, migrations and times, from an invariant of
three parts. `OneMigrator`: the advisory lock. `Schema`: what each step of the startup
knows - a clean table holds exactly the migrations up to its version, a dirty one
belongs to an instance that is in the middle of a migration or died there, and whoever
has got past the migrations finds the last version, clean, which nobody changes any
more. `Timely`: an instance that stops has done so for at most `NewConn` longer than any
of its requests has run, since no other may come; `Shutdown` therefore gives up only
on requests that have run `ShutdownTime - NewConn`, which the defaults make
longer than the `WriteTimeout`, and what `pool.Close` then waits for is
over by `NewConn + Timeout`.

Only model-checked: liveness, since TLAPS has no `ENABLED`: `EveryRequestEnds`,
`EveryBatchEnds`, `RowLocksAreFreed`, `RedisLocksAreFreed` and `SignalsStop`. Every
invariant and action property of the passing runs is a theorem. The assumptions are, on the
constants, `FlowAssumption`, `BatchAssumption`, `AdminAssumption`,
`LimiterAssumption`, `AccountAssumption`, `LifecycleAssumption` and `DefaultsAssumption`.
The last says that the write timeout and the grace for new connections fit in the
time of `Shutdown`, as the defaults' 15 s and 5 s do in 30 s; only `CutsOnlySlow` needs it,
and a deployment that sets `SERVER_WRITE_TIMEOUT` above 25 s gives it up. That clocks
differ by at most `Skew` and that scripts and requests run within `Delay` is an assumption
about the deployment, built into `RateLimiter`'s and `Accounts`' actions.

## Findings

* A cancellation answered with 200 may have no audit entry: it is written after
  the commit and its error ignored (`unaudited_cancel`).
* A cancellation that comes between an update's read and its write is undone in
  the count of remaining tickets: the update writes back what it read, and a
  cancellation does not change the version (`lost_tickets`).
* A booking that comes between an update's read and its write is undone in that
  count too if the PUT sent the version the booking makes. The UPDATE compares the
  version sent, any above 0, not the one that was read; the sold tickets are for sale
  again (`undetected_race`). A client that sends a version it got from a GET, as
  API_GUIDE.md tells it to, cannot do this: nobody can have read a version that
  the service's later read had not reached. The count goes wrong in no third way
  (`MiscountsAreStaleUpdates`).
* An update may set the total below what is sold and remaining together; the
  bookings' cancellations then fail the CHECK (`refused_cancel`).
* Each path group has a rate limit of its own, so that a client is served more than the
  100 requests per minute "across all endpoints" (`limit_per_ip`).

Seen in reading, and not run: each event's path has a rate-limit group of its own
(`rate_limiter.go:65` keeps two segments), contrary to the comment at
`rate_limiter.go:60`, so that a client that asks for many events is not limited at all. A batch that fails answers with the error alone
(`booking_handler.go:108`), where API_GUIDE.md:520 says that the response contains the
completed bookings. `JWT_EXPIRATION=7d`, README.md:283's example, is not a Go duration:
`getDuration` falls back to 24 h without a word. With the defaults a handler slower
than 15 s is past the server's write timeout, so that the router's 504 at 30 s does not reach
its client.

## Plan and what is left out

The booking flow came first, since everything else bears on it; then the event
administration, the rate limiter, batches, accounts and the lifecycle. What could
still be added: that `EventAdmin` without administrators implements the ledger.

Not modelled: environment parsing, logging, JSON, routing and the HTTP statuses that
handlers render for the answers, password hashing and JWT signing, which hold no state;
the reads that change nothing (lists, the audit history); the availability cache, which
is never written.
