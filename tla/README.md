# CellarKeep server: specifications

TLA+ modules for the Go server in `src/`: its concurrent requests on one
PostgreSQL database, the in-memory login limiter, the contracts they implement,
and machine-checked proofs. `PROJECT.json` maps every definition that models
code to the lines it models and lists the runs, mutants, hazards, findings and
theorems this text refers to.

## The system

One process serves HTTP over a pgx pool on one database. A request passes the
middleware (request deadline of 30 s, body limit), `auth.Middleware` (who is
calling: a bearer token or a session cookie), `gate` (may this caller use this
operation) and a handler, which calls a type of `internal/domain`; that runs
sqlc queries, alone or in `Store.WithTx`. Requests share nothing in memory but
the login limiter; everything else they share is rows, and what orders them is
READ COMMITTED with row locks, unique indexes, one advisory lock and the pool.

| Component | State it keeps | Operations | Meets |
|---|---|---|---|
| Accounts (`domain/users.go`, `handler_auth.go`, `handler_invites.go`) | `users`, `invites` | first-run setup, create and revoke an invite, preview, register | opens a session after setup and register |
| Sessions (`domain/users.go`, `auth/session.go`, cookie branch of `auth/middleware.go`) | `sessions`, the password hash in `users` | login, look-up with touch, logout, change password | called on every request with a cookie |
| Login limiter (`auth/ratelimit.go`, `AuthLogin`) | a map under a mutex, per process | `Allow` for the host, then for the account | stands in front of login |
| Route gate (`auth/middleware.go`, `api/router.go`, cookies of `auth/session.go`) | three constant tables, the contract; each browser its cookie | origin rule, user / admin / device rules, renewal of the cookie | wraps every handler |
| Inventory (`domain/inventory.go`) | `ingredients`, `inventory_items` | create, adjust, deduct, list | the deduction is meant for the additions of a batch |
| Vessels (`domain/vessels.go`, `handler_vessels.go`) | `vessels`, and which batch is in them | create, update, delete, list with occupants | reads `batches`, which refer to vessels |
| Schedule (`domain/schedule.go`, `dates.go`) | none | stamp steps with dates, reflow after a completion, scale quantities | no caller yet |
| Event payloads (`domain/eventdata.go`) | none | clean and validate by type, read a bottling | no caller yet |
| Process life (`cmd/cellarkeep/main.go`, `config`, `migrations`, `store/db.go`) | the schema and goose's table of versions; per process its stage | boot, migrate, listen, stop on a signal, close the pool | ends every request it had |
| Metrics, calculations (`metrics.go`, `calc.go`) | a constant registry | range check, alcohol by volume | listing of metrics |
| Devices (`domain/devices.go`) | `devices` table only | placeholder: refuses every token | bearer branch of the middleware |
| Recipes, batches, readings | tables only | none written yet | |
| Store, generated queries, HTTP plumbing | pool, contexts | `WithTx`, scans, JSON, problems | everything |

What is hard in it:

- *Interleavings of statements.* Find-then-claim, count-then-insert and
  read-then-write sequences of several requests on the same rows (setup,
  registration against registration or revocation, corrections of stock,
  touches against logouts and password changes, the delete of a vessel against
  batches that are racked).
- *Processes.* Two processes may boot on one database and migrate at once, and a
  stop meets requests at any point.
- *Values that go stale.* The clock of a registration is read before its
  transaction waits; a touch is decided from an expiry somebody else may
  rewrite; a password is verified outside the transaction that replaces it.
- *Partial failure.* An account is committed before its session is opened; a
  failed touch is dropped, a failed logout logged; look-ups take any error for
  "not there".
- *Deadlines and crashes.* Every statement may be the last one of its request.
- *Waiting.* A transaction keeps a connection while it waits for a lock, so
  locks and a small pool could starve each other.
- *Arithmetic.* Rounding to thousandths in doubles, storing in a `real`;
  windows and expiries compared with `<` or `After`; a float64 taken for an
  int64, strict and inclusive bounds.

What makes each component correct: accounts, one admin, members by invite
only, one account per address, settled invites stay; sessions, whatever ends a
session ends it for good and whoever uses one keeps it; limiter, bounded guesses
and nobody refused without cause; inventory, no lost update, never negative,
answers that belong to the change made; gate, each operation exactly at its
level and a cookie that lives as long as its session; vessels, none is deleted
under a batch and every answer was true at one moment; schedule, reflowing
agrees with stamping; payloads, accepted exactly when every field is as its
rule says; processes, nothing is served before the tables are there, of those that migrate
at once one gets through, and a stop ends.

## Modules

    Admission  <--implements--  Accounts       MCAccounts, AccountsProofs
                                Sessions       MCSessions, SessionsProofs
    Stock      <--implements--  Inventory      MCInventory, InventoryProofs
        both extend             Amounts
    Limiter    <--extended by-- LoginThrottle  MCLoginThrottle, LimiterProofs
    Shelf      <--implements--  Vessels        MCVessels, VesselsProofs
                                Gate           MCGate, GateProofs
                                Schedule    \
                                EventData   /  MCJournal, JournalProofs
            both extend         Optional
                                Lifecycle      MCLifecycle, LifecycleProofs

All transactional modules share one form. `Req` is a set of request slots;
`pc[r]` is the statement request `r` runs next and `arg[r]` what it was sent,
has read and is answered. A step is one SQL statement or one commit, the Go
code between two statements belongs to the step before it. Only committed rows
are state: what a transaction wrote and has not committed is read off `pc` and
`arg`, as are the locks it holds, so a rollback is leaving the transaction's
steps. (A commit may also be applied and its acknowledgement lost, and the
answer is then the 500 of any failure: `Unconfirmed` in `Inventory`,
`MigrationFails` in `Lifecycle`. `Accounts`, `Sessions` and `Vessels` leave that
answer out: for everybody else it is the change with an answer that nobody
reads, and an account or an invite whose session or look-up fails after the commit
is answered 500 there too.) A statement sees what is committed at its moment, and
waits for the row, index or advisory lock of another transaction. `Fail` lets any
statement fail and answers what that handler answers; `Crash` kills the process and with it
every open transaction; `Return` frees a slot. Definitions named after another
with a suffix (`ClaimableUnused` beside `Claimable`) are regressions: a mutant
puts one in the place of the real definition, and the property it belongs to
must fail.

### Accounts, Admission

`Accounts` has setup (begin, advisory lock, count, insert, commit), register
(begin, find, insert, claim, commit), the session both open afterwards on a
connection of its own, invite creation and revocation with the name look-up
that follows. Addresses are model values; `Norm` is what trimming and lower
case make of them, any idempotent function. `HasConn` counts the connections in
use. `BoundTo` is the rule that a blank address binds nobody, and the type of
the rows (`Bound`) has no invite bound to it. An admin is whoever has the role when
an invite request starts: the gate is not part of it.

`Admission` says what accounts promise with every operation atomic: a cellar is
founded once, an invite is issued, admits its holder once while it is open, or
is revoked. `ImplementsAdmission` maps committed rows to its variables.

### Sessions

Login, session creation, the cookie look-up with its touch, logout and password
change. A password stands for its hash. `Gone` marks a row that was deleted, to
tell it from one never inserted. A statement succeeds only within `Timeout` of
the request's start, as `middleware.Timeout` cancels the context; code between
statements is not stopped, which is why `CheckExpiry` is a step of its own
without a deadline. `before`, `lost` and `start` in `arg` are history. Me stands
for every request that just needs a user. A sign-up is one step here, with
`Accounts` for the detail. The copy of the expiry the client's cookie holds is
in `Gate`.

### Amounts, Stock, Inventory

Amounts are counted in half thousandths, the finest grain at which `round3` has
a decision to make: its ties. `float32` models what a `real` column keeps: all
thousandths up to `Exact` (16384 units) and every second one above. Stored
levels are therefore even, and above `Exact` multiples of four. Not modelled:
the next doublings of the gap, and the binary noise that may tip a tie in
floating point either way. A statement that fails rolls back; a commit that is
not acknowledged stands, and the caller is told 500 (`Unconfirmed`). `Inventory` has the upsert that locks the row, or
the place of a row not inserted yet, the update and the commit; `Stock` has
corrections and deductions as atomic steps with their answers, of which any may
be lost while the change stands (`Told`). Nothing calls
`DeductForAddition` yet; it is modelled as the only business of its transaction.

### Limiter, LoginThrottle

`Allow` holds the mutex throughout, so it is one step: an entry is opened,
counted up, or full. `log` is history. `LoginThrottle` puts the two charges of
`AuthLogin` around any interleaving of requests: the host first, then the
account under its normalised and truncated address. `Cut` is the truncation,
any function; host and account keys are disjoint by the `email:` prefix. A try is
entered in `tries` when the account is charged, which is what the limiter bounds;
the password is looked at in a later step, `Login`, and what becomes of the try
there is left open (200, 403 or 500). It extends
`Limiter`, so one run checks the invariants of both over the same states.

### Gate

A request of a browser or of nobody passes `Resolve` (bearer token, or the
look-up of the cookie's row), `Touch` (the row near its expiry) and `Admit` (the
origin rule, the renewed cookie, then `Wrapper`, the generated code that reads the
path parameter before the gate is asked), and its answer is read by the browser in `Receive` or never
(`Lose`). The row and the cookie are renewed by two decisions, from one expiry
read before either, at different points of the request: `jar` is what the
browser holds, `row` what the database does. `known` are the operations of
`api/openapi.yaml`; the tables name some the contract does not declare yet, and
those are refused. A path that is no id is answered 400 after the middleware and
before the gate: with a bearer token it is a 401, from a wrong origin a 403, and
the row may have been touched; but nobody is asked whether he may use the
operation. `AccessRule` says of every answer when it is given, with the contract's
own list of operations that need no session (`Unsecured`). The login that set the cookie, and the statements of a touch,
are in `Sessions`.

### Shelf, Vessels

`Vessels` runs the handlers of vessels statement by statement while batches move.
A delete is two statements in no transaction: active batches are counted, the
row is deleted. Nothing in `src/` writes `batches` or `batch_events` yet;
`StartBatch`, `Rack` and `Progress` do what the tables and the enum allow, with
foreign keys checked by every statement, and are marked external. `entered` and
`held` are history: the day a batch came where it is, and the batches that were
active in the vessel ever since a delete of it came in. A racking is entered on
the day it happens: the columns would allow one without a date or dated back. A name with its kind,
capacity and notes is one `Form`.

`Shelf` has the same operations as single steps: a vessel comes onto the shelf
once and goes for good, never while a batch names it, and what a caller is told
was so at the moment of its step. The mapping takes the answer a request is
given (`Word`) for what it was told.

### Schedule

`StampSchedule` and `ShiftAfterCompletion` are recursive functions on sets of
places: what the loop has come to once it has passed the places in the set, the
last of them by the order of a stable sort. A batch is stamped, one of its steps may have lost its date
(the column allows it), freeform events may stand between, and then its steps are
done on any day, in any order, or skipped. That a caller marks the event done and
writes the changes back is taken from `schedule_test.go`, as nothing in `src/`
calls the functions yet. Days are integers.

### EventData

`eventRules` is the table of the source; `Checked` is one turn of the loop, and
`Passed` what the loop has come to once it has passed a set of keys, the last of
them by the order of `sort.Strings`. `VerdictAsDeclared` compares it with what the rules say without any order. A
value is tagged with its JSON type. Numbers are hundredths, and `Wide` stands for
2^63: `Int64` is the conversion of Go, whose result beyond the range depends on
the machine, which is chosen once (`saturates`). A payload that was accepted is
submitted once more in its cleaned form.

### Lifecycle

A process is a stage: goose's steps (`ensure`, `create`, `read`, `apply`), ready,
listening, returned, closing, down. goose is external and modelled by what it
does: its table of versions and the migration are each created in a transaction
that fails if they are there, and no lock is taken. A signal cancels the context
`serve` migrates and listens under; `migrate` catches none. `Shutdown` runs in a
goroutine and nobody waits for it: `serve` returns as soon as `ListenAndServe`
does, closes the pool, which waits for connections in use, and exits. A request
is in a handler between statements, in the database, or answered; one that waits
for a lock that never comes free is `stuck` and ends by the request deadline. What
an answer says is left out: a handler that is refused a connection makes of it
what it makes of any error, 500 mostly, 503 for the health check, 401 for an
unknown session, 403 for a login and 204 for a logout.

`MCLifecycle` also holds an instance of `Accounts` for its liveness: a behaviour
of the run is one of `Lifecycle` or one of `Accounts`, and the other half stays as
it began.

## Runs

| Run | Module, cfg | Shows |
|---|---|---|
| `accounts_safety` | MCAccounts, MCAccounts | all safety of accounts, `Accounts` implements `Admission`, settled invites stay, and the invariant of the proofs, with failures and crashes |
| `register_refusal` | MCAccounts, MCAccountsRefusal | finding: registration answered 500 |
| `sessions` | MCSessions, MCSessions | password changes, logouts and touches race over two sessions; then rolling expiry over almost two lifetimes of one |
| `password_change_drops_sessions` | MCSessions, MCSessionsDropped | finding: a session survives the change |
| `inventory_contract` | MCInventory, MCInventory | `Inventory` implements `Stock`; levels, deductions, invariant |
| `stock_shortfall` | MCInventory, MCInventoryShort | finding: negative shortfall |
| `login_throttle` | MCLoginThrottle, MCLoginThrottle | bursts, justified refusals, attempts on an account over all hosts, growth of the map, invariant |
| `gate` | MCGate, MCGate | who is served and who refused, and how; the cookie keeps up with its session; invariant |
| `origin_on_every_change` | MCGate, MCGateOrigin | finding: the origin of a login is not looked at |
| `vessels` | MCVessels, MCVessels | `Vessels` implements `Shelf`; nothing dangles, a held vessel is refused, occupants are dated by their last racking; invariant |
| `journal` | MCJournal, MCJournal | repeated shifting agrees with stamping anew; payloads are accepted as declared and, cleaned, once more, a bottling reads what was sent |
| `lifecycle` | MCLifecycle, MCLifecycle | two processes boot, migrate, serve, stop and are killed, and a stop ends; of `Accounts`: every accepted request is answered |

The inductive invariants (`IInv`, and `LoginInv` of `LoginThrottle`) are checked
by TLC too. They contain the module's `TypeOK`, which is therefore no invariant of
its own in the runs. To `AsIfStampedAnew` the `IInv` of `Schedule`
adds types and `StepsFit`: a step of the recipe has its offset, one that is done
its day, and what was skipped is remembered. `PayloadInv` in `JournalProofs` repeats what `Validate` and
`Parse` write; these two are proved and not run.

Bounds, and why they are enough:

- *Two requests at once* (`Req`). Every conflict in this code is between two
  transactions; slots are reused, so runs are any number of requests long. The
  proofs are for any number.
- *Accounts*: three user ids (one admin, and two registrations that race), one
  invite, addresses with two spellings of one, another one and the blank one,
  `InviteTTL` and `MaxTime` 1 so that an invite expires between the start of a
  registration and its claim. No statement relates two invites, and the proofs
  of `AdmissionByInvite` and `Implements` are for any number of them. The pool
  has two connections, as many as requests: with one, each request simply waits
  for the other. For liveness the clock stands, nothing fails and addresses are
  taken as typed: there it matters only who waits for whom.
- *Sessions*: `SessionTTL` 4 and `Timeout` 1 is the tightest ratio the
  assumption `2 * Timeout + SessionTTL / 2 <= SessionTTL` allows, where the
  real one is 30 seconds to 30 days. Up to `Soon` = 1, when a request that came in
  at 0 runs into its deadline, there are two sessions and two passwords, one of
  them too short to change to; from there to `MaxTime` 7 the constraint `Focus`
  goes on with one session and no refused password, past the age of 2 at which
  touches begin and past the expiry at 4. It cuts off states and adds none; what
  lies beyond it is covered by the proofs.
- *Inventory*: `Exact` 8 with levels up to 12 and above lets both precisions,
  ties up and down, empty stock, partial and full deductions happen. `MaxLevel`
  stops corrections upwards, nothing else.
- *LoginThrottle*: two hosts; an account typed in two ways, one with an address
  cut to its key, and two more with keys of their own, so that there are three
  keys where a host is allowed two attempts: a blocked host could invent one
  more. Two attempts in a window of 1, clock to 2: a burst of four and the one
  attempt that would be the fifth. By the constraint `Focus` the two further
  accounts are named while the clock stands at 0 only. `log` and `tries` grow.
- *Gate*: one browser with two requests that overlap and overtake, beside
  requests of nobody: browsers share nothing. One operation of each kind: public,
  admin, any user with GET and with POST, and one no table and no contract knows.
  `SessionTTL` 4, `Timeout` 1 and clock to 5: past the age of 2 a session is
  touched, at 4 the first cookie is gone and the renewed one is not. A request
  without a cookie or with a bearer token reads and writes no row; the constraint
  `Focus` follows it only while no other is under way. For the finding one request
  is enough.
- *Vessels*: two vessels, so that a batch can leave and come back, one batch
  racked up to three times on two days (`MaxMoves`, `MaxDay`), one form the enum
  takes and one it does not. The contract relates a vessel to each batch by
  itself; the proofs are for any number.
- *Journal*, schedule: three steps whose sort indexes come in any order and may
  be equal, two anchors, offsets that differ, no or one freeform event with or
  without a date, and days 0, 2, 3 and 6: before, on and after stamped dates.
  Every chain link is between neighbours, so three steps have a middle.
- *Journal*, payloads: the proofs are for any payload; here every combination of each type's fields missing, null, of
  another type, on and on both sides of their bounds, and whole numbers at and
  beyond `Wide`. A behaviour is about a batch or about a payload; the other half
  stays empty.
- *Lifecycle*: two processes with two starts each (`MaxStarts`), so that a
  process that lost a race boots again over what the other one left, and two
  requests on either.
- Symmetry is used for sets of interchangeable model values, in safety runs
  only. `MaxTime`, `MaxLevel`, `MaxDay`, `MaxMoves`, `MaxStarts` and `Faults`
  guard actions and are constants of the modules. Deadlock is checked everywhere
  but in `journal`, where a batch whose steps are all settled, and a payload that
  was decided about, is finished, and in `lifecycle`, where starts are used up
  (that no request of `Accounts` is stuck is checked there as liveness, in
  `accounts_safety` as absence of deadlock).

Fairness is stated in two places, both part of `ProgressSpec` in `MCLifecycle`.
`Accounts!Fairness` asks strong fairness of `Serve(r)` for each accepted request. A
statement of a request may be blocked and released any number of times by others;
PostgreSQL's lock queues and pgx's pool are first come, first served, so a request
whose turn keeps coming up gets it. Nothing is asked of clients (`Start`,
`Return`), of failures or of the clock, and this half of the run excludes
failures, which would only answer sooner.
`Lifecycle!Fairness` asks weak fairness of `Step(p)`, a process going on with its
own work, and of `TimeOut(r)`: `router.go:148` gives every request a deadline,
which cancels its statement even while it waits for a lock. Nothing is asked of
statements that come back, of signals or of clients. `SignalEnds` needs the
second: without the deadline a stop waits in `Pool.Close` for good, and a mutant
shows it.

## Proofs

For every value of the constants under the named assumptions of the modules:

- `AccountsProofs`: `IInv` is inductive; `TypeOK`, `OneAdmin`,
  `AdmissionByInvite`, `EmailsDistinct`, `SettledForGood`, `RepliesTruthful`. `OneAdmin` is not
  inductive: it needs that the holder of the advisory lock is alone and that
  the zero it counted still holds (`SetupSerial`); `EmailsDistinct` needs the
  index lock of pending rows (`PendingDistinct`); `AdmissionByInvite` needs
  that a claimed row stays claimable by its claimer up to the commit
  (`ClaimSound`) and that ids are drawn once (`IdsReserved`). Steps that write
  rows are proved one by one; all others are shown to keep the rows. That answers
  are truthful needs that the promise is kept before it is given: what a request
  wrote stands from its commit on, through the session or the look-up of a name
  that come before the answer, and until the client has read it (`AnswersStand`).
  It is kept because user rows never change, settled invites stay, the binding of
  an invite is fixed, and a refused account's id goes to nobody else.
  Also here, `Implements`: `Spec => ImplementsAdmission`. The commits of setup and
  registration, the insert of an invite and the revocation map to the four
  operations of `Admission`, the clock to its clock, everything else stutters.
  And `NoDeadlock`, the safety half of `RequestsAnswered`: pool, setup lock, e-mail
  index and invite rows are waited for in that order (`Rank`), by holders of the
  ones before, so behind every request that is `Blocked` there is one that is not.
  It needs a pool of at least one connection (`PoolAssumption`) and that
  `startSession` runs after the commit, holding none. `Blocked` negates guards: the
  theorem shows that no such request is served, while that the others can be is
  ENABLED, and left to TLC (`RequestsAnswered`).
- `SessionsProofs`: the invariant is `TypeOK`, `IdsReserved` and, per request,
  `ArgFits`, `ChangeCovers` (what a change found it deletes or finds deleted)
  and `ExpiryCovers` (an expiry that was read may be overwritten before it is
  looked at, but by at most a timeout's worth). That last part and
  `TimeoutAssumption` give `UseKeepsAlive`: without the deadline it is false,
  and a mutant shows it.
- `InventoryProofs`, on lemmas about rounding: a transaction
  keeps its row alone (`RowExclusive`) and what it read is still the committed
  level (`ReadStillHolds`); from these every commit, acknowledged or not, is an
  atomic step of `Stock` (`Implements`), levels are never negative (`TypeCorrect`), and a
  deduction adds up (`DeductionsAddUp`).
- `LimiterProofs`: an entry counts exactly the last attempts of its key, windows
  of one key lie more than a window apart, so `2 * MaxHits + 1` attempts take
  longer than one window (`BurstsBounded`) and a refusal has its cause
  (`RefusalsJustified`). `LoginsLimited` shows that `LoginThrottle` takes no step on
  the counters that `Limiter` does not, so these hold of it too. `GuessesBounded`
  rests on an order-preserving map from the tries on an account into the allowed
  attempts of its key (`TriesLogged`). A try is an attempt let through to the
  password check, and dated when it is charged. Several addresses may be cut to one
  key, so between two tries of one there may be more attempts, never fewer.
  `AccountsArePaidFor` counts: accounts in the map, and requests between their two
  charges, are together no more than what hosts were allowed (`ChargesPaid`).
- `GateProofs`: a cookie under way was dated after its request came in, so it
  covers its row even if another request touched the row later (`CookieCovers`,
  by at most `Timeout`); and whoever touched a row still carries a new cookie, or
  the news that its origin is refused, until the browser has read it
  (`RowCarried`). `CookiesKeepUp` follows for any number of overlapping requests
  and any order of answers. `AccessRuled` is an equivalence for each answer, so it
  needs both directions: that `Gate` lets through exactly whom the contract and
  the table of admin operations allow (`GateServesCallers`), and what a request
  carries at each point, down to who its caller is (`ArgFits`).
- `VesselsProofs`: the invariant says that what a delete watches is still in the
  vessel, that it goes on only when there is nothing to watch, and that a batch
  is dated by the latest of its rackings into the vessel it is in (`DatesFit`).
  `NothingDangles` is inductive beside it, because a delete looks at every
  reference in its own statement. Requests change no batch and batches no
  vessel, so the proof is one lemma for each (`RequestStep`, `ChangedStep`).
  Then `HeldRefused`, `OccupantsDated`, and `Implements`: every answer is a step
  of `Shelf` taken by the statement it comes from, a move of a batch is its
  `Live`, and reading an answer, or losing it in a crash, is `Forget`.
- `LifecycleProofs`: for any number of processes, starts and requests. Who is past
  a step of the migration relies on what it leaves (`MigratedSoFar`), which gives
  `ServedWhenMigrated`; `TablesCreatedOnce` is inductive beside it.
  `OneOutlivesTheRace` is not: it needs that, as soon as there is anything to lose
  a race for, the process that made it neither lost one nor stands at a step that
  still can (`MakerUnbeaten`); it is running by `RunningNow`, unless something
  else ended it.
- `JournalProofs`, for recipes, events and payloads of any size. The loops are
  recursive functions on finite sets, and induction over those is a least set for
  which a claim would fail (`LeastSet`, from the well-foundedness of the strict
  subsets); so each loop equals what its lemma says it computes.
  For `Schedule` that is: the day the loop has come to at a place is the one the
  last link before it gives (`ThroughLinks`, `CompleteReflows`), from which
  `ReflowFollowsChain` follows. `AsIfStampedAnew` is inductive beside `StepsFit`
  (`MovedAsStamped`); initially it holds because every place is taken, in the order
  of the sort, by a step dated from the one next to it (`PlacesTaken`,
  `StampedInOrder`).
  `OnTimeStays` looks at the first step that would move: the one before it did
  not, so it is dated as it was.
  For `EventData`: the loop yields the first bad field, or the fields kept
  (`LoopComputes`); off 2^63 a field is bad for the code just when it does not fit
  its rule (`KeyVerdict`, whose core is the conversion to an int64 and back,
  `BackAndForth`); and what is kept is accepted again as it is (`KeptAgain`).
  `AcceptedAsDeclared` and `BottlingsAreRead` follow by an invariant that says
  verdicts are of the payload at hand, and that one submitted again is settled.

Only model-checked: liveness (`RequestsAnswered`, `SignalEnds`), which is out of
the prover's reach. The findings are counterexamples of TLC.
Assumed and not proved: what PostgreSQL's locks and rollback do, that random
ids are fresh, that a password check is exact.

## Findings

1. A registration may be answered 500: the address has an account, or the
   invite was lost between find and claim (`RegisterRefusalIs422`).
2. A login overlapping a password change can leave a session of the old
   password (`PasswordChangeDropsSessions`). What does hold, and is proved, is
   that every session open when the change was let in is over
   (`ChangeEndsEarlierSessions`).
3. Setup, login and registration are carried out for any origin, or none, although
   the design asks every request that changes something for the client's
   (`OriginOnEveryChange`). What does hold, and is proved, is the rule for requests
   with a live session (`AccessRule`).
4. On a rounding tie a deduction takes more than asked and reports a negative
   shortfall (`ShortfallReported`).

More was seen while modelling: from 16384 units upwards `AdjustStock` answers the
double it computed while the `real` column keeps a neighbour of it
(`inventory.go:66-69`). A browser refused for its origin, or that misses an
answer, has its row renewed and not its cookie, so a cookie may run out before
its session (`slipped` in `Gate`); `CookieKeepsUp` excepts exactly these. Events
that share a sort index with a completed one are not downstream of it, so a step
done on its day may move later ones (`SortsApart` in `Schedule`). Setup and
registration take passwords shorter than the ten characters `api/openapi.yaml:49` asks for (only
`ChangePassword` looks; `users.go:42`), and `AuthLogout` answers 204, "Logged out", when its
delete failed (`Sessions!Failed`; `LogoutEndsSession` is stated for deletes that
went through). `ChangePassword` verifies the current password outside its
transaction, so of two changes that overlap the second goes through with a
password that is no longer the current one (`users.go:118`). A restart opens
every window of the limiter anew (`Restart` in `Limiter`; the bounds are per life
of a process).

A vessel that a bottled batch or an old racking still names cannot be deleted,
and the answer is 500; `api/openapi.yaml:269-273` declares 204 and 409 only, and
a vessel that is not there is answered 204. `UpdateVessel` answers 404 for a
missing vessel, which `openapi.yaml:262-268` does not declare, and its answer
leaves out the occupant. A kind the enum does not have is answered 500. Two
active batches in one vessel list it twice. A path that is no id is answered 400
to everybody the middleware lets through, whether he may use the operation or not
(`Wrapper`). A bottle count of 2^63 is
accepted on machines whose conversion saturates and read as 2^63 - 1 (`Int64` in
`EventData`).
The ten seconds `Shutdown` is given to drain have no effect, as `serve` returns
without waiting for it: requests between two statements are refused their next
connection or cut off (`Acquire` and `Exit` in `Lifecycle`, `main.go:75`). No
document promises otherwise, so no property says that they are answered; that a
cut leaves all of a change or nothing is checked where the changes are, by the
crashes of `Accounts`, `Inventory` and `Vessels`. The usage text names `seed`, and the
program answers "unknown command".

## Not modelled, and the plan

Not modelled: wording, JSON, problem documents, generated scans, argon2id, cookie
attributes, which settings are missing at boot; the metric registry, the alcohol
formula and `ScaleQty`, which are a table and expressions over floating-point
numbers; recipes, batches and readings, which have tables and no code (batches
are external to `Vessels`). `AuthStatus`, previews and the listings of accounts
and inventory only read.

Planned, in this order:

1. `Gate` over the look-up of `Sessions`: one composed module for a request's
   whole way, with login and logout setting and clearing the cookie.
2. Batches, once there is code: their handlers in the place of the external
   actions of `Vessels`, with `DeductForAddition`, `ShiftAfterCompletion` and
   `ValidateEventData` called where they will be.
