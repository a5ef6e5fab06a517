# A verification of the volunteer platform

TLA+ models of the NestJS backend (`backend/src`) and of the React client
(`frontend/src`), the TLC runs that check them and the theorems TLAPS proves
about them. Paths below are relative to the repository; `S` stands for
`backend/src/modules/event-scheduling/scheduling.service.ts`, `P` for
`.../participation-ledger/participation-ledger.service.ts`, `A` for
`.../attendance/attendance.service.ts`, `I` for `.../identity/auth.service.ts`,
`O` for `.../onboarding/onboarding.service.ts`, `R` for
`.../recruitment/recruitment.service.ts`.

## The system

A single Node process (or several) answers HTTP requests. Every handler is an
`async` function that talks to one PostgreSQL database through Prisma, so
handlers interleave at every `await`, and all state that lasts is in tables.
There are no queues, timers, caches or retries in the backend; what has time
limits is Prisma's connection pool and its transactions. The web client is a
single-page application whose pages keep state only while they are mounted and
never abort a request.

| component | state | operations | talks to |
|---|---|---|---|
| registration and waitlist (`S` 270-702) | `registration`, `assignment`, `shift.status` | `registerForShift` (serializable transaction), `cancelRegistration`, `promoteWaitlist` | credentials (read), audit |
| participation ledger (`P`) | `participation`, `participation_adjustment` | `approveParticipation`, `adjustParticipation` | audit |
| attendance (`A`) | `attendance`, `qr_token`; writes `assignment`, `registration`, `participation` | `issueQrToken`, `checkIn`, walk-in, `checkOut` | scheduling's tables, ledger's table |
| catalogue (`S` 38-267) | `event`, `opportunity`, `role`, `shift` | create and update | - |
| eligibility (`S` 513-590) | rules on `role` and `shift`, `credential` | `assertEligibility` | registration |
| onboarding | `credential` | `submitCredential`, `reviewCredential` | eligibility |
| recruitment | `application` | `apply`, `reviewApplication` | - |
| identity | `volunteer` (lockout, MFA, refresh hash), tokens | `register`, `login`, MFA, refresh, `logout`, two guards | everything, through the JWT |
| volunteer profile | `volunteer` | update, soft delete | identity |
| audit | `audit_log`, the connection pool | insert on a connection of its own, errors swallowed except in the reviews and the profile | called by every service |
| web client | user and token in localStorage, the mounted page, toasts | navigation, role switch, three forms, queries | the API |

What is hard here: handlers that read, decide and write in separate statements
(promotion, approval, cancellation); transactions at different isolation levels
on the same tables; decisions taken from counts; rows updated by id whatever
they have become; requests that stop half-way. What makes each component right:

* registration: seats taken never exceed capacity; nobody is double-booked;
  registration and assignment agree; a cancellation is final; a freed seat is
  offered; promotion respects eligibility.
* ledger: final records stay final; hours of a final record change through
  adjustment entries only; only coordinators finalize; a draft has the hours of
  its check-out.
* attendance: one attendance and one record per assignment, agreeing with
  registration and assignment; a token is used once; walk-ins respect capacity;
  an active assignment is a confirmed registration.
* identity: guessing locks the account; a refresh token is exchanged once; an
  enabled second factor ends sessions without it, and its secret stays; a
  deactivated account is left without sessions.
* onboarding, recruitment: one live credential per type, one application per
  opportunity - or as many as requests were past the check together.
* audit: rows tell of what has happened; waiting for a connection for one, or for
  a row somebody holds while waiting for it, never stalls the pool for good.
* web client: it never reports a success that is none, shows invented data only
  under the banner that says so, and its spinners stop.

## Modules

| module | contents |
|---|---|
| `Scheduling.tla` | registration, cancellation, promotion, credential review, and their properties |
| `MCScheduling.tla`, `Sched*.cfg` | its instances |
| `SchedulingProofs.tla` | its theorems |
| `SeatBook.tla` | abstract specification of registration: joining a shift is one step |
| `SeatBookProofs.tla` | that `Scheduling`, with registrations only, implements it, and what follows for its tables |
| `Attendance.tla` | extends `Scheduling` by arrivals: QR tokens, check-in, walk-in, check-out; the composition of both on the tables they share, and its properties |
| `MCAttendance.tla`, `Att*.cfg` | its instances |
| `AttendanceProofs.tla` | its theorems, on top of those lemmas of `SchedulingProofs` that speak of a step of `Scheduling` |
| `Ledger.tla` | one participation record: check-out, approval, adjustment, and their properties |
| `HoursBook.tla` | abstract specification of the ledger: every check-out, decision and correction is one step |
| `MCLedger.tla`, `Ledger*.cfg` | its instances |
| `LedgerProofs.tla` | its theorems, and that with one request at a time it implements `HoursBook` |
| `Session.tla` | one account: registration, login and lockout, MFA, refresh, logout, deactivation |
| `MCSession.tla`, `SessionRace.cfg`; `SessionProofs.tla` | its instance; its theorems |
| `Intake.tla`, `IntakeProofs.tla` | applications, credentials, new events and queries as the server handles them, for any client; its theorems |
| `Portal.tla` | extends `Intake` by a browser tab: the composition of client and server |
| `MCPortal.tla`, `Portal.cfg`; `PortalProofs.tla` | its instance; its theorems, and that it implements `Intake` |
| `AuditPool.tla` | the audit rows of every service and the connections they take |
| `MCAuditPool.tla`, `AuditPool.cfg`; `AuditPoolProofs.tla` | its instance; its theorems |

In all of them an element of `Requests` is a handler that can run, and
`req[r]` is what handler `r` has read and is about to do; one TLA+ action is one
database statement (or one transaction that others see all at once) with the
code between it and the next. Definitions marked *variant* are plausible
mistakes; they are used nowhere in the specifications, and each property has one
that breaks it.

### Scheduling

`reg`, `pos` and `asg` are the columns `registration.status`,
`registration.waitlist_position` and `assignment.status`, by
`<<volunteer, shift>>`; two unique keys allow one row each, and no code deletes
rows. `"NONE"` and `0` stand for a missing row and NULL.

*Registration.* `registerForShift` is one SERIALIZABLE transaction, so all its
reads come from the snapshot of its first statement. That makes its decision a
function of the state at `RegisterBegin`; `RegisterCommit` inserts the rows it
decided on. PostgreSQL's serializable isolation aborts one of two overlapping
transactions each of which reads what the other writes: both read the
registrations of a shift and insert one, or both read the assignments of a
volunteer and insert one in overlapping shifts. `Conflicts` says when that is
so, and the one that commits second is `doomed`. `SELECT ... FOR UPDATE`
(`S` 309) fails in the same way if the shift row was updated after the snapshot:
`SetShiftStatus` dooms those. A transaction may also be aborted for no reason of
its own (`RegisterAbort` has no guard), as the database allows itself false
positives. Refused requests leave nothing behind and are no steps, so the
permission check is not visible: whoever may not register somebody is refused,
and a volunteer may always register itself.

*Cancellation and promotion.* `CancelRead` / `CancelWrite`, then `PromoteCount`,
`PromotePick`, `PromoteOverlap`, `PromoteWrite`: each one statement or one batch
transaction at READ COMMITTED. Equal waitlist positions are ordered arbitrarily.
If the assignment cannot be inserted the whole batch is rolled back. `Lost` ends
a cancellation or a promotion between any two statements.

*Environment.* No endpoint changes `shift.status`, so `SetShiftStatus` is an
update by an operator; `ReviewCredential` is onboarding's `reviewCredential`
reduced to whether the credential a shift demands is APPROVED.

*A reading of the source.* `S` 308 casts the id to `uuid` while the initial
migration declares the column TEXT, which PostgreSQL would refuse; the model
takes the statement to do what it is written for, as `concurrency_proof.ts`,
which has no cast, does.

### SeatBook

`SeatBook` is what the planning document asks of registration, without
transactions: per shift a set of `holders` and a `queue`; `TakeSeat` gives a free
seat to somebody without an overlapping one, `GetInLine` appends to the queue if
there is no free seat. `Scheduling` maps to it by `holders[s]` = those REGISTERED
and `queue[s]` = those WAITLISTED in the order of their positions (`Book` in
`Scheduling`, an `INSTANCE SeatBook WITH`); `JoinsAreAtomic` is its specification.
It holds as long as `"cancel"` is not among the `Events`, with or without the
exclusion constraint. Cancellations leave the refinement at once: promotion takes
the seat before the registration is changed, and overbooks.

### Attendance

`AttNext` has every step of `Scheduling` (which leaves `att` and `tokens` alone)
and those of attendance, on the same `reg`, `asg` and `req`. `Scheduling` knows
of the latter only that `OtherReq` are records with other `op`s, so its theorems
hold beside them as long as a step is one of its own. `att` is
`attendance.status` by assignment; `tokens` are `qr_token` rows: `live` means
unused and not expired.

Each of `checkIn`, `handleWalkIn` and `checkOut` is one READ COMMITTED
transaction, cut in two: the reads (`...Read`, `CheckInScanned`) and the writes
(`...Write`, `WalkInAttend`), which others see all at once at the commit. The
writes look at the tables as they are then, since a transaction that meets an
uncommitted row or key waits for it: the unique `assignment_id` of attendance and
unique `(volunteer_id, shift_id)` of registration make a second insert fail,
an update by id goes to the row whatever it has become, and the exclusion
constraint is evaluated when an update makes an assignment active
(`CanBeActive`) just as when one is inserted. A transaction whose constraint
fails leaves nothing behind. `ConsumeQrToken` is a conditional update outside the
transaction of the check-in that follows it, so a crash between the two
(`Lost`) spends the token.

Left out: the site scope of a supervisor, and that a walk-in's volunteer must
exist, which only refuse requests; the idempotency key, which two requests share
only if they are for the same assignment, whose unique key is met first;
`checked_in_at`, on which nothing but the draft's hours depends.

### Ledger

Records of different assignments never meet in a transaction, so one is
modelled: `checkedOut` is its attendance, `part` the newest of `rows`
participation rows, `adjustments` the append-only table. Hours are quarter
hours, so that rounding to two decimals is exact.

`checkOut` reads the attendance, updates it (and so holds its row until the
commit: `CheckOutLock` waits for that), looks for a record, and creates or
updates a draft. `approveParticipation` is `ApproveRead` and `ApproveWrite`, an
update by id that nothing conditions. `adjustParticipation` is a READ COMMITTED
transaction, `AdjustRead` and `AdjustWrite`; its two writes are seen at its
commit. `Lost` rolls back whatever a handler has not committed.

`Submit` is external: no code sets SUBMITTED. `resolveTargetStatus` (`P` 342)
has no action that yields it, and `STATE_TRANSITIONS` lets a DRAFT become nothing
else, so no sequence of requests ever gets a draft approved. The model assumes
that the step happens in the database, as `STATE_TRANSITIONS` and the unit tests
presuppose.

### HoursBook

`HoursBook` is one page of the ledger as the comment at its head describes it:
a `status`, the `hours` credited, the role that decided last (`signedBy`) and the
`corrections`. Each request turns the page in one step that decides on what the
page says then, and there are no handlers. As in the code, and against BR-05
(`LedgerLockHours`), a decision may bring hours of its own whatever it is. `Ledger`
maps to it by the columns of
its record (`Book` in `Ledger`, an `INSTANCE HoursBook WITH`), and
`DecisionsAreAtomic` is its specification. It holds with one request at a time,
which is the theorem `SerialDecisionsAreAtomic`, and with no more: a late decision
(`LedgerReopened`) is no step of the book. The discrepancy flag is not on the page.

### Session

One account, since handlers of different accounts never meet. The row is
`account` (status and `deleted_at`), `attempts`, `locked`, `enabled`, `secret`,
`hash`. No handler of `AuthService` has a transaction: each is cut where it
awaits, keeps in `req[r]` what it has read, and writes by id. `access` is the set
of kinds of unexpired access tokens, told apart by their claims (`plain`,
`pending`, `verified`); a client may hold all of them. Refresh tokens are numbers,
of which only the current one and those held by a handler matter, so a number is
given again once it is neither. `uses` is a history variable: how many pairs a
token was exchanged for.

`Accepted` is `JwtAuthGuard.handleRequest`; `Unproved` the expression
`mfaVerified ?? !mfaEnabled` of `issueTokenPair`. `Unlock` and `Expire` are the
passing of time. Out of the model: argon2, TOTP and signatures, which are taken
to work, and cookies.

### Intake and Portal

`Intake` is the server of one volunteer's applications and credentials, open to
any client: `Request` sends any call with any role at any time. `apply` (`R` 10)
and `submitCredential` (`O` 17) look for a row and insert one an await later
(`ApplyCheck`, `ApplyInsert`; `SubmitCheck`, `SubmitInsert`); reviews update by
id, whatever the row has become. Guards decide from the request alone, so a
request they refuse is answered when it is sent. `Refuse` covers the errors that
need no state: expired tokens, invalid bodies, opportunities that are not OPEN
(nothing changes that, so it is an input), and a database that fails.

`Portal` adds a tab: `user` and `page` (what `RoleGuard` mounts there), the state
`view` of the mounted component, `from` (whether the page that sent a request is
still there), the latest success `toast`. `Open` is what React does when address
or user change: a component whose type stays keeps its state (`Kept`), and its
effect runs again if what it depends on has changed (`Fetches`); otherwise state
starts afresh. An answer to a page that has gone changes no state but still shows
its toast, and a late answer to an application still navigates
(`DeliverApplied`). `NetFail` is a lost answer: the server goes on. The bound
`MaxPosts` is on forms sent in a behaviour.

### AuditPool

Every service writes its audit rows through its own client, so a row is a
statement on a connection of its own. `kind` says where a handler does it
(within an interactive transaction, after the change, or after the change with
errors passed on), and the header of the module lists the handlers of each kind.
`change` and `logged` say what has become of the change and its row. Time is left
out, so every limit (2 s to begin a transaction, 5 s for one, 10 s for another
connection) may strike whenever something is under way. `TxTimeout` rolls a
transaction back while its callback goes on unaware. `BodyReturns` are the early
returns that make no audit row: a second check-in (`A` 253) or check-out (`A`
514), a walk-in of somebody on the roster (`A` 380).

A change also locks rows. `todo` are the `Rows` it has yet to lock, any subset
chosen when it begins, and `held` those it has locked; it gives them back with its
connection when it ends (`Ends`). A statement whose row another change holds waits
with its connection (`Blocked`), and only a time limit of its own, or the end of
the other, moves it. So an `adjustParticipation` that waits for its audit row's
connection (`P` 322, 367) keeps an `approveParticipation` of the same record
waiting (`P` 235), and with it one more connection. The rows of one change are
taken in ascending order (`IsNext`), as the services do: shift, registration and
attendance before assignment, assignment before participation.

## Runs

Passing:

| run | instance | properties |
|---|---|---|
| `SchedSeats` | 4 volunteers, 1 shift with 1 seat, 3 handlers, crashes, status changes | types; `SeatBacked`; `OverbookingBounded`; `InsertsWhilePublished` |
| `SchedRegisterOnly` | 3 volunteers, 2 shifts, 3 handlers, registrations and credential reviews, one shift with a credential rule, no exclusion constraint | `CapacityRespected`, `NoDoubleBooking`, `WaitlistNumbered`; the refinement `JoinsAreAtomic` |
| `AttRace` | 3 volunteers, 1 shift with 1 seat, 2 handlers, 1 token, all methods of checking in, cancellations, crashes | types; `TablesAgree`, `TokenSingleUse`, `SeatsBounded`, `AttendanceMovesOn` |
| `LedgerRace` | 2 fair handlers checking out, approving with hours and breaks, adjusting; two check-out times, one adjustment or two that overlap, crashes | types; `OneRecord`, `DraftMatchesAttendance`, `FinalizedByCoordinator`; `FinalForGood`, `LockedHoursEntered`; `HandlersFinish` |
| `SessionRace` | 2 fair handlers, 4 refresh tokens, 2 secrets, lockout at 2 failures, a role that needs MFA, crashes | types; `RotationBounded`, `ClaimsHold`; `SessionsDrain`, `UnprovedDrain`, `SecretSettles`, `LockoutWorks` |
| `Portal` | a tab with 2 fair requests under way, 1 opportunity, 1 credential type, 2 roles, 3 forms sent | types; `ApplicationsBounded`, `SubmissionsBounded`, `NoFalseSuccess`, `ChecklistHonest`, `SpinnersAwaitAnswers`; `SpinnersStop` |
| `AuditPool` | 3 fair handlers of every kind, 2 connections, 2 rows to lock | `AuditTrail`, `HoldersGoOn`; `PoolRecovers`, `RequestsAnswered` |

Runs that find a disagreement between the code and what a document, a comment
or a schema note says (`PROJECT.json`, "findings", quotes them):

| run | what happens |
|---|---|
| `SchedOverbook` | promotion acts on an old count: one seat, two people |
| `SchedFreedSeat` | one seat, one holder, one waiting: the holder cancels, the count includes the one who waits, and the freed seat stays empty |
| `AttRevived` | check in, cancel, check out: the cancelled assignment is active again |
| `LedgerReopened` | a late decision reopens a FINALIZED or LOCKED record |
| `LedgerLockHours` | one request at a time: LOCK with `creditedHours` changes the hours of a FINALIZED record, and no adjustment is entered |

The models also contain the following, which no run of its own shows:

*Scheduling, attendance, ledger*

* Registering again after a cancellation always fails: the duplicate check (`S`
  326) lets a cancelled row pass, `@@unique([volunteerId, shiftId])`
  (`schema.prisma` 239) does not, whatever the comment at line 225 says of a
  partial index. A walk-in of somebody waitlisted or cancelled fails alike
  (`A` 410).
* Of two adjustments that overlap one is lost: both entries start from the same
  hours, and the record has those of the second (`P` 300). What is left is
  `LockedHoursEntered`: each change of hours has its entry.
* After a check-out has revived a cancelled assignment (`AttRevived`), walk-ins
  and the overlap checks count a seat that registration counts as free.
* `promoteWaitlist` does not call `assertEligibility`, so a credential withdrawn
  while its holder waits is not looked at again (`S` 639).
* A registration that is cancelled after `PromotePick` chose it becomes
  REGISTERED again (`S` 679).
* Without `custom-constraints.sql` (`ExclusionConstraint = FALSE`) a promotion
  and a registration can double-book somebody (`S` 661).
* A LOCK that was decided before an adjustment and is written after it replaces
  the adjusted hours by its own (`P` 209, 235). That is why `LockedHoursEntered`
  speaks of records of which no earlier decision is under way, and of locked ones,
  which no decision can change any more.
* Hours recomputed from `breakMinutes`, or adjusted, leave the discrepancy flag
  as it was (`P` 225, 300).
* The second of two simultaneous check-outs overwrites the first instead of
  returning it (`A` 527), and writes DRAFT over a record submitted between its
  `CheckOutFind` and its `CheckOutSave` (`A` 563).
* A QR token is spent before the check-in it is for (`A` 215); if that fails, or
  the process stops, another has to be issued.

*Identity*

* `RotationBounded` is tight: two refreshes with one token that overlap are both
  accepted (`I` 367, 387), and the pair of the first is replaced by the second.
  A mismatch found earlier ends a session begun since (`I` 370), and a pair being
  issued undoes a logout (`I` 394).
* A refresh never proves a second factor (`I` 387 passes no `mfaVerified`), so a
  verified session becomes a pending one after the first refresh.
* A set-up that overlaps a confirmation replaces the secret that was confirmed,
  and MFA is then enabled with a secret nobody has confirmed (`I` 262, 291).
  `SecretSettles` says that this ends with what was in progress.
* Failures that overlap count once (`I` 178), and one may overwrite the reset of
  a success. `LockoutWorks` says what is left of the lockout.
* `verifyMfa` asks neither for the status nor for `deletedAt` (`I` 319), and
  access tokens are not looked up at all: `SessionsDrain` is no more than that
  they expire and cannot be renewed.
* An address cannot be registered again after its account was deactivated: the
  check (`I` 72) looks past deleted rows, the unique index does not.

*Intake and web client*

* `ApplicationsBounded` and `SubmissionsBounded` are tight: two requests make two
  rows. A form that was left and opened again can be sent while its first request
  is under way.
* A lost answer shows an error although the row exists; sending the form again
  gives a 409.
* A REJECTED credential that is approved later may stand beside a live one, and
  only TRAINING can be uploaded in the checklist, never after a rejection.
* The checklist's banner is never taken away once set (`OnboardingChecklist.tsx`
  82), so it may stand over real items: `ChecklistHonest` is one-sided.
* The detail page keeps its state when only the opportunity changes, so answers
  that overtake each other show the wrong one until the next answer.
* A late answer to an application takes the user to the checklist from wherever
  they are by then.

*Audit*

* A row written inside a transaction survives its rollback (`S` 385): that is why
  `AuditTrail` speaks of the others.
* A review can be answered with an error though it is committed (`O` 58).
* With all connections in transactions that wait for their audit row, some of
  them must time out: 5 s for the transaction come before 10 s for the
  connection, so the audit row then fails the operation, although `I` 484 says
  it "must never crash the main operation".
* It does not take a pool full of such transactions: the others may be waiting for
  a row that one of them has locked (see AuditPool above; with two connections one
  `adjustParticipation` and one `approveParticipation` of the same record do). So
  fewer such transactions than connections are not enough; `HoldersGoOn` counts
  those that contend for a row with them, and says nobody is stuck if all of these
  are fewer than the connections.

*Bounds.* A promotion that races with one registration is enough for every
violation of scheduling, so two handlers would do; `SchedSeats` has three to let
two promotions and a registration overlap, and four volunteers to seat, overbook
and still have somebody waiting. Two overlapping shifts suffice for double
booking: the property relates two. Three volunteers at a shift with one seat make
a queue of two, whose order matters. Intervals of equal length suffice because
only whether shifts overlap matters. In `Ledger` two handlers let any two
requests overlap, two check-outs or two decisions among them; two check-out times
tell whose were stored; no adjustment begins once `MaxAdjustments` are entered, but
two that began before may be; `-9` quarter hours and a break of 9 are more
than a record has, so both cuts at zero are met; of 8 scheduled quarters 7 are
within 15%, 6 are not. Nothing in `Scheduling` is
unbounded: positions come from counts.

In `Attendance` two handlers let any two requests overlap, which every property
there is about; the third volunteer of `AttRace` waits while two more arrive than
there are seats, and one token is enough to be scanned twice. Nothing in
`Attendance` is
unbounded.

In `SessionRace` two handlers overlap any two operations; with two of them four
token numbers never run out (the current one, two held, one new); two secrets
tell whether one was replaced; the lockout needs a second failure to be told from
a first, so `MaxFailures` is 2 instead of 5. In `Portal` two requests are a form
and its double, or a form and a query that overtakes it; `MaxPosts` = 3 lets each
of the two be followed by another form; one role may open the volunteers' pages
and one the event builder; one verdict of each kind, since no check tells
APPROVED applications from others, and REJECTED is the one after which a
credential can be submitted again. In `AuditPool` two connections can both be
held by transactions while a third handler waits, and two rows can be taken in
either order by two of them.

*Symmetry* is used for volunteers, handlers and tokens in the runs that check
safety only and name none of them.

*Deadlock* is checked in every run but those of `Ledger` and `Attendance`: a
locked record whose adjustments are made, or a draft that nobody can submit, is
left alone for good, and everybody may have cancelled or gone home.

*Fairness.* `Ledger`'s `FairSpec` asks weak fairness of `Continue(r)`: the event
loop runs every continuation whose promise is settled, and the database answers
every statement, with an error if need be. `CheckOutLock` is strongly fair:
PostgreSQL queues the transactions that wait for a row, while under weak fairness
alone a check-out could wait for ever beside others that begin, lock and crash
again and again. `Session`, `Portal` (for the handlers, `Work`) and `AuditPool`
ask weak fairness of a handler's next step for the same reason; every wait
for a connection ends with an error after its time limit. In `AuditPool` it is
asked of handlers that are not `Blocked` only: a statement that waits for a row
need not fail. That it gets the row in the end is strong fairness of `TakeRow`, by
PostgreSQL's queues again, and `RequestsAnswered` would fail without the order the
rows are taken in. No time limit on a transaction is assumed to strike. `Session` adds that access tokens expire (`Expire`), which they do
15 minutes after they were signed, so the last of a kind does unless new ones are
signed. `Portal` adds that an answer that is there arrives (`Answered`): a fetch
settles. Nothing is assumed about requests being made, about users, reviewers or
operators, nor about crashes and failures being rare. That is why `LockoutWorks`
speaks of guessing that goes on and `SpinnersStop` excepts a user who leaves the
page again and again before it has loaded. `Scheduling` and `Attendance` make no
promise that needs fairness: no handler there waits for another in a way
the models show, and that freed seats are offered fails already as a safety
property (`SchedFreedSeat`).

## Proofs

For every set of volunteers and shifts, every number of handlers, every
capacity and every timetable (assumptions: `FiniteIds`, `CapacityIsNat`,
`ShiftTimes`, `Switches`), `SchedulingProofs` shows

* `TypeCorrect` - `TypeOK` is inductive by itself;
* `SeatsAreBacked` - with types, `SeatBacked` is inductive: every write of a
  registration's status has its counterpart on the assignment;
* `NobodyDoubleBooked` - if the exclusion constraint is deployed; without it
  the statement is false (see above);
* `InsertedWhilePublished` - by the invariant that a registration that is not
  doomed is for a PUBLISHED shift;
* `OverbookingIsBounded` - the property is not inductive. `SeatBound` is: seats
  taken, plus the promotions of that shift in progress, plus the registrations
  that will take a seat, stay within the capacity plus one less than the number
  of handlers. Undoomed registrations of one shift exclude each other, and a
  promotion only starts when its own count says there is room;
* `SerialCapacity` - the case of one handler;
* `RegistrationsRespectCapacity` - without cancellations capacity is respected
  for any number of handlers: while an undoomed registration may still take a
  seat, one is left (`SeatLeft`), and there are no promotions
  (`RegistersOnly`);
* `SeatsGivenUpForGood` - whoever cancels a seat never has it again, with any
  number of handlers, by `SeatBacked` and `GivenUp`: a late promotion would have
  to insert a second assignment. Only the cancellation of somebody who waits can
  be undone (`S` 679, above);
* `SerialTurns` - with one handler not that either: a registration that exists
  is cancelled while active, or promoted as the first in line to a seat that is
  free and overlaps nothing (`RowsMoveOn`). The invariant is `StillSo`: all that a
  promotion has read is true when it writes. The first in line is who has the
  lowest position, which after cancellations need not be who came first
  (positions come from counts, `S` 360).

`SeatBookProofs` adds, while nobody cancels,

* `RegistrationsAreAtomic` - the refinement. `BookInv` is the invariant: no
  cancelled or assignment-less rows (`OnlyJoined`), positions 1 to n on every
  shift (`Numbered`), nobody waits while a seat is free (`FullWhenWaiting`), and,
  the heart of it, what an undoomed registration has read of its shift and of its
  volunteer's seats is still so (`Current`). From it a commit that inserts a seat
  is `TakeSeat`, one that inserts a place is `GetInLine` (`LineStep` says that
  the queue, which is picked out of the rows by their positions, grows at its
  end), and every other step is a stutter;
* `WaitlistsAreNumbered` and `OnlyFullShiftsHaveALine` - from the same invariant;
  the latter is `FreedSeatOffered`, which cancellations refute (`SchedFreedSeat`);
* `JoinsNeverDoubleBook` - `NoDoubleBooking` without the exclusion constraint:
  by `Current`, an undoomed registration that takes a seat overlaps none that
  its volunteer has by then.

Under the same assumptions (and `OtherRequests`, `KnownMethods`,
`ArrivalRequests`), for every number of tokens and whatever methods of checking
in are in use, `AttendanceProofs` shows of the composition

* `AttTypeCorrect`;
* `TablesAlwaysAgree` - `TablesAgree` is inductive together with
  `KnownArrivals`: a handler about to write attendance and assignment by id
  found the assignment when it read, and assignments are never deleted. That is
  what keeps a late write from inventing an assignment nobody was given;
* `AttendancesMoveOn` - from it, as a walk-in only inserts where there is no
  assignment, and so no attendance;
* `TokensUsedOnce` - with types, `TokenSingleUse` is inductive;
* `ArrivalsNeverDoubleBook` - if the exclusion constraint is deployed;
* `SeatsAreBounded` - by `SeatBound` again: a walk-in that has read is one more
  `Takers`. It counts assignments, of which by `TablesAgree` there are at least
  as many as seats taken;
* `SerialArrivalsRespectCapacity` - the case of one handler;
* `AssignmentsAreConfirmed` - without cancellations an active assignment is a
  confirmed registration, so cancellations are all that `AttRevived` needs.

For every number of handlers and every choice of hours (assumptions:
`FiniteRequests`, `HoursAreNat`, `ChoicesAreHours`, `Bounds`), `LedgerProofs`
shows

* `LedgerTypeCorrect` - in particular hours never get negative;
* `OneRecordPerAssignment`, `DraftIsCurrent` - from `CheckOutInv`: one handler
  at a time holds the attendance row, what it found is still so when it saves,
  and approvals and adjustments work on a record that exists;
* `OnlyCoordinatorsFinalize` - from `RoleInv`, which adds that every approval in
  progress that leads to a final status is a coordinator's;
* `FinalIsKept` and `LockedHoursAreEntered` - for each step, from the types and the
  state machine: a final record accepts LOCK at most and a locked one nothing
  (`FinalTransitions`), a check-out that looks for the record then leaves it
  alone, and among what is left only an adjustment writes hours. `Settled` in their
  statements is the part nothing can replace: what was decided before;
* `SerialFinality` - with one handler nothing is decided before, by `SerialInv`:
  what a handler has read still holds when it writes. With two handlers it is
  false (`LedgerReopened`);
* `SerialDecisionsAreAtomic` - the refinement of `HoursBook`, with one handler.
  `SerialInv` says that a decision is still allowed when it is written and a
  correction starts from the hours that are there, `RoleInv` that whoever
  finalizes may. `PageInv` adds that a check-out under way comes before the
  record (it is why a draft is made once and never written over one that was
  submitted meanwhile) and that a correction adds what was asked for.
  `PageStep` takes each step of `Ledger` to one of `HoursBook`, or to a stutter.

For every number of handlers, and any tokens, secrets and failures that lock
(assumptions: `FiniteHandlers`, `Lockable`, `NoneIsNoSecret`,
`TokensAreNumbers`), `SessionProofs` shows `SessionTypeCorrect`;
`RotationIsBounded`, by `RotationInv`: the token that is current has not been
exchanged, so every use of it is one of the handlers that hold it; and
`ClaimsAlwaysHold`, by `ClaimsInv`: whoever is about to confirm has seen a secret,
and whoever is about to sign for a second factor has seen it enabled, and neither
is ever taken back. Of three of the liveness properties it shows the half that
needs no fairness, that what is reached stays: `DrainedForGood` (a deactivated
account without tokens, and with nobody about to sign one, never has a token
again), `ProvedForGood` (with MFA on, and no token without it left or coming, every
token let in has proved the factor) and `SecretFixedForGood` (with MFA on and no
set-up of before under way the secret stays).

For every number of handlers, opportunities, types, roles and verdicts
(assumptions: `FiniteHandlers`, `NoneIsNoRole`, `AppVerdictsListed`,
`CredVerdictsListed`), `IntakeProofs` shows `IntakeTypeCorrect`,
`ApplicationsAreBounded` and `SubmissionsAreBounded`. Each bound is inductive
with types: a check only lets a handler in while there is no row, and then at
most all handlers are in; an insert trades a handler for a row; a review makes no
row that counts.

`PortalProofs` first shows that the tab is one of the clients `Intake` is open to
(`PortalImplementsIntake`: every step of `Portal` is a step of `Intake` or leaves
its variables alone), which carries the two bounds over. Then `PortalTypeCorrect`
(also assuming `ClientTypes`), and, from `AnswersTrue` - what an answer says is in
the tables, which lose nothing - `SuccessIsTrue` and `ChecklistIsHonest`. Last,
`SpinnersHaveRequests`, the safety half of `SpinnersStop`: a spinner has a request
of the page on screen that is not settled, and one form at most is under way.

For every number of handlers, every pool and any rows to lock (assumptions:
`FiniteHandlers`, `SomeConnections`, `RowNumbers`), `AuditPoolProofs` shows
`PoolTypeCorrect`; `AuditTrailHolds`, by `PoolInv`; and `RoomyPoolGoesOn`, which
says what size of the pool is safe. A change that is open is in its body, about its
audit row, or at its end (`OpenShape`), and rows are locked by open changes in
ascending order (`InOrder`). So not every open change waits for a row: the one that
has the highest of all locked rows (`GreatestElement`) would wait for a higher one
(`SomebodyUnblocked`). Suppose that every holder of a full pool is stuck. Those that
are not blocked are at their audit row, inside their transactions, and there is
one; those that are blocked contend for a row (`BlockedContend`). Hence all holders
are among those the premise counts, which are fewer than the connections.

Model-checked only: the liveness properties `HandlersFinish`, `SessionsDrain`,
`UnprovedDrain`, `SecretSettles`, `LockoutWorks`, `SpinnersStop`,
`PoolRecovers` and `RequestsAnswered`, since the prover does not reason about fairness and `ENABLED`
(what can be said of them without fairness is proved above for all but
`HandlersFinish`, `LockoutWorks` and `RequestsAnswered`). Every invariant, action
property and refinement of a passing run is stated by a theorem. Runs found the
five violations; what is proved instead is what is left of those properties
(`OverbookingIsBounded`, `SerialCapacity`, `OnlyFullShiftsHaveALine`,
`AssignmentsAreConfirmed`, `FinalIsKept`, `SerialFinality`,
`LockedHoursAreEntered`). `SerialFinality`, `SerialDecisionsAreAtomic` and
`SerialTurns` are proved and not run. The converse, that `RowsMoveOn` fails
with two handlers, was found by TLC as well; it has no run of its own.

What "one request at a time" means in the theorems on serial behaviour is one
element of `Requests`: a single handler that begins, goes on and ends or is lost,
beside an operator and reviewers who act at any time.

## What is left

The plan so far has been carried out: `Scheduling`, `Ledger`, `Attendance`, then
`Session`, `Intake` with `Portal`, `SeatBook` and `AuditPool`, each with its
theorems, and the refinement of `HoursBook`. Worth adding next: `Eligibility`, the merge of role and shift rules
with ages and expiry dates, as a pure operator against a reference definition; an
abstract specification of registration with cancellations that `Scheduling` with
one handler implements (`SerialTurns` is most of it); a second tab that shares
localStorage with the first.

## Not modelled

* Catalogue: `updateEvent`, `createOpportunity`, `createRole` and `createShift`
  write rows by id that no concurrent handler decides by (a shift's times,
  capacity and rules cannot be changed once it is made; they are constants).
  `createEvent` is in `Intake`.
* Eligibility beyond whether a demanded credential is APPROVED.
* Volunteer profile beyond the soft delete: queries and single-row updates.
* HTTP layer: DTO validation, filters, interceptors, logging are stateless. The
  two guards are in `Intake` and `Session`. The dev bypass of `JwtAuthGuard` is
  what the client's tokens rely on; that it is off outside development is
  configuration.
* Cryptography (argon2, TOTP, signatures), passport, cookies, PostgreSQL and
  Prisma themselves: what is relied on of them is part of the actions.
* The wording of pages and toasts, a second tab, and effects doubled by React's
  StrictMode, which only development builds have.
* Notifications, certificates, recognition and reporting are in the planning
  document but not in the code.
