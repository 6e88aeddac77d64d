# A verification project for lakira-backend

TLA+ modules of the backend, TLC runs that check them on small instances, and
TLAPS proofs that hold for every instance. Sources are named relative to the
repository's `src/`; `auth/` stands for `features/shared/auth/`, `queue/` for
`shared/infrastructure/queue/`.

## 1. The system

An Express API and a worker process share one PostgreSQL database, a Redis
server and a RabbitMQ broker. The API is a multi-tenant metric tracker: users
belong to organizations, record metric logs and read charts of them. All state
is in PostgreSQL (READ COMMITTED, no serializable transactions), Redis (response
caches, login counters, rate limits) and RabbitMQ (jobs). Processes keep nothing
but requests in flight, so what can go wrong is between statements: two requests,
a request and a job, a release and the traffic, or a crash.

| Component | State | Operations | Talks to |
|---|---|---|---|
| Background jobs (`worker.ts`, `queue/`, the `Send*EmailHandler`s, `GenerateDummyMetricLogsHandler`) | four work queues with retry tiers and a parking queue; `processed_messages`; the email's token row | publish with confirm and timeout, in-process fallback, deliver, dedup, run, ack, retry, park | broker, database, email provider, Redis |
| Refresh sessions (`RotateRefreshToken`, `RevokeRefreshTokenFamily`, `SwitchOrganization`) | `refresh_tokens`; the connection pool | issue, rotate, detect reuse, revoke family | database |
| Members and invites (`ChangeMemberRole`, `RemoveMembership`, `InviteUserToOrganization`, `AcceptInvite`) | `memberships`, `organization_invites` | change role, remove, invite, accept | database, background jobs |
| Account and credential links (`UpdateProfile`, `ResetPassword`, `VerifyEmail`, `Request*`) | a `users` row, two token tables | update, reset, verify, issue a link | database, background jobs |
| Registration, login, lockout (`RegisterUser`, `LoginUser`, `loginLockout.ts`) | user, organization, membership and token rows; a Redis counter per address | register, log in, count failures, lock | database, Redis |
| Metrics, logs, settings, categories (`features/public/*`) | their rows | create, update, delete, achieve, dummy batches | database, caches |
| Response cache (`shared/middleware/cache.ts`, the `*CacheRedis`) | Redis entries with a TTL | fill on a miss, invalidate on a write | Redis |
| Analytics (`features/public/analytics`) | none of its own | resolve a date range, fall back, aggregate in SQL | database, Redis |
| HTTP pipeline and rate limiter (`app.ts`, `shared/middleware/*`, the routers) | Redis counters of eleven limiters | admit, refuse, hand to a handler, turn an error into a status | Redis, all handlers |
| API document (`lib/openapi/openapi-docs.ts`) | none | lists the statuses of each operation | |
| Process lifecycle (`server.ts`, `worker.ts`, `utils/shutdown.ts`, `utils/background-tasks.ts`) | whether a shutdown runs, tasks and messages in flight, open connections | start, stop once, drain, exit by a deadline | all |
| Migrations and the release (`migrations/`, `backend-ci.yml`) | the schema, `SequelizeMeta` | migrate, undo, deploy | database, process lifecycle |
| Configuration, logging, scrubbing | none | start-up | |

What makes each of them correct, and what is hard about it:

- **Jobs.** The work of a job commits at most once; a job the broker took is
  never lost; the link the database accepts is in the mailbox; every job settles and every
  request is answered. Hard: a publish that timed out may have arrived, so two
  processes run one job under one id; deliveries repeat after a lost channel or a
  crash; a send that was given up is not cancelled and can arrive much later; an
  invalidation can succeed without clearing anything.
- **Sessions.** A family has one live token; a logout and a detected reuse end it;
  nobody waits for ever. Hard: two refreshes of one token, `revokeFamily`'s UPDATE
  waiting behind a rotation, rotations that hold every pooled connection.
- **Members.** An organization keeps an owner, a link lets its user in once. Hard:
  counts and checks are statements of their own.
- **Account.** The password is the one last asked for, a verified address stays
  verified, a link changes the account once. Hard: `UserRepositorySequelize.save`
  writes what differs in an entity read earlier, and a link is checked, used and
  marked by statements of their own.
- **Sign-in.** An account has all of its rows or none; guesses are bounded; a lock
  ends. Hard: unique indexes inside a transaction, INCR and EXPIRE as two commands,
  a check that precedes the attempt.
- **Tracker.** No duplicates, settings whose parts agree, no change of settings lost.
  Hard: check-then-insert without a transaction, partial updates, saves of stale
  entities, batches.
- **Response cache.** A read after a write returns what was written, or what the
  TTL allows. Hard: a fill that overlaps the write's invalidation.
- **Ranges.** A chart shows the logs of the days it was asked for. Hard: days of 23
  or 25 hours, midnights that happen twice or never, months of 28 to 31 days.
- **HTTP.** Every answer is one the API document lists, and no limiter spends
  another's budget. Hard: the answer depends on the order of a dozen guards.
- **Lifecycle.** Steps run once, the process exits by its deadline, a clean exit
  code means a clean stop. Hard: a second signal, a stop that meets the start, a
  consume that is not answered yet.
- **Release.** The recorded migrations decide the schema, and the schema a process
  runs on is the one its models need. Hard: concurrent index builds are not
  transactional, the record is written apart, undoing is not exact, and the deploy
  asks only whether `db:migrate` succeeded.

`PROJECT.json` lists every component with its status, and under `hazards` each
of these difficulties at the line where it bites.

## 2. Modules

| Module | What it is |
|---|---|
| `JobQueue` | the background jobs, end to end: request, publisher, wire, broker, worker, fallback, database |
| `DurableJobs` | what the queue promises its callers; `JobQueue` implements it |
| `RefreshSessions`, `Sessions` | refresh tokens, statement by statement; what a session promises, which they implement |
| `Members` | one organization's memberships and invites |
| `Accounts` | one user's row and credential links |
| `SignIn` | registration, login and the lockout |
| `Contract` | the statuses the OpenAPI document lists, operation by operation |
| `Tracker` | one user's categories, metrics, logs and settings; its answers are held to `Contract` |
| `HttpApi` | the way of a request through the server; it runs `SignIn` in the handlers of register and login and is held to `Contract` |
| `ResponseCache` | one user's cached pages, the reads that fill them and the writes that clear them |
| `Ranges` | the ranges of charts and the queries that read them |
| `Migrations` | the schema and the 29 migrations |
| `Lifecycle` | one process, server or worker, from its start to its exit |
| `Release` | `Migrations`, then a `Lifecycle` that runs on the schema |
| `JobProofs`, `SessionProofs`, `MemberProofs`, `AccountProofs`, `CacheProofs`, `HttpApiProofs`, `TrackerProofs`, `ReleaseProofs` | theorems about `JobQueue`, `RefreshSessions`, `Members`, `Accounts`, `ResponseCache`, `HttpApi` (with `SignIn`), `Tracker`, `Release` (with `Lifecycle`) |
| `MC…` | symmetry sets, constraints and values for TLC; the `.cfg` files give the instances |

Every step of a module is one database statement, one Redis command, one broker
event or one callback: what the code does between two awaits. A statement that
waits for a lock is an action whose guard is the lock's release. Where the code's
own transaction makes several statements visible together they take effect at the
commit. Definitions whose comment begins with "Mutant:" are plausible bugs: each
is substituted for the definition after it to show that a property notices.

### JobQueue

A job stands for its message id and its row (the account or the invite it emails
about). `req[j]` is where the request that owes the job is: `SaveInvite`,
`Publish`, then `Confirmed`, `Rejected`, `PublishTimesOut` or `BrokerReturns`
(`RabbitMQPublisher.publish`: confirm, channel error, its own timeout, mandatory
return), then for an email the fallback. `wire` holds what left the publisher and
the broker has neither taken nor lost. `ready[j][n]` and `delayed[j][n]` count the
copies with retry count n in the work queue and in a retry tier, `parked` has the
parking queue. `run` has a record for each delivery in progress (`Handler`, the
prefetch) and for each fallback (named by its job): both run the same code,
`runOnce` around the job's work, which is why the model gives them the same
actions (`Insert`, `Load`, `Mint`, `Send`, `Commit`, `Abort`). `Insert` waits while
another runner's transaction has inserted the same key. A send (`Send`) reaches the
mailbox, is refused by the provider, or is given up: `TimeoutEmailSender` races it
against its timeout and cancels nothing, so that whatever was given up, or was under
way when its process died (`LeaveSends`), may still arrive at any later moment
(`DeliverLate`). `minted` numbers the links of an email; `abandoned` are those whose
send was given up, `mailed` those in the mailbox, and `emailed` is the one that came
last. `Commit` can fail with its outcome unknown. An invalidation (`Invalidate`)
clears the pages, fails, or answers without having cleared them (`missed`): the
handler of dummy logs returns when the Redis client is closed, and
`MetricCacheRedis` logs its error and drops it. `Settle` is what
`RabbitMQConsumer` does with the result: ack, park, or publish to a retry tier and
then ack, with each way it can fail. `ChannelCloses`, `WorkerDies`, `ApiDies` and
`PublisherFails` are the faults, bounded by `MaxFaults`.

### RefreshSessions

`FindForUpdate` takes the row lock of the presented token and a connection of the
pool; `Check` is the window in which user and membership are read on another
connection, which may have to wait for one until the acquire times out;
`CommitRotation` makes the new token and the old one's revocation visible together.
`BeginRevoke` and `EndRevoke` are one UPDATE under READ COMMITTED: the rows it will
touch are those unrevoked when it begins; it waits for locked ones and then revokes
what it picked. A switch runs several in parallel and issues a token only when all
have succeeded; a logout answers 200 also when its UPDATE failed.

### Members

`role` and `joins` are the memberships: a removed and re-admitted user has a new
row, so a request that still holds the old id must miss it (`ThisRow`). The
middleware's role check happens when the request is admitted and is not repeated.
`SaveInvite` has the partial unique index on unaccepted invites, and
`CreateMembership` the unique index per user and organization.
`DropInvite` is the deletion of an invite whose email failed, at any time, as
`JobQueue` shows it can happen.

### Accounts

`user` is the row. `UseLink` and `UpdateProfile` admit a request; `FindUser` reads the
entity and edits it; `FindRow` and `Update` are the two statements of `save`, which
updates the columns of the entity that differ from the row it has just found: that is
how Sequelize's `update` on an instance works, and it is what makes a stale entity
overwrite a column it never meant to change. `Issue`, `SpendEarlier` and `Mint` are a
new link, in two statements in a request (`kind = "request"`) or in one transaction in a
job. `chosen`, `use` and `clashed` are history: the password last asked for, how often
each link has changed the account, the overlaps of saves and issues that have happened.
A link's `use` is "loose" from when two requests came with it at once, or one saved the
account and could not mark the link: nothing then keeps it from a second use. Of the
columns only the password and the verification are kept; a profile update of another
column is one with no `fields`, which reads and saves the entity all the same.

### SignIn and HttpApi

`SignIn` has the two use cases. `RegisterUser` checks the address and the username,
then inserts four rows in one transaction (`InsertUser`, which waits where another
open transaction has inserted the same key, `InsertRow`, `Commit`; `StatementFails`
anywhere). A login is `CheckLockout` (GET), the comparison (`RightPassword`,
`WrongPassword`), `RecordFailure` (INCR), `SetExpiry` (EXPIRE, by the one whose INCR
made the counter) or `FindMembership` and `Reset` (DEL); each Redis command has an
action in which it fails, and the code goes on as if there were no lockout. `lost`,
`guesses` and `missed` are history.

`HttpApi` has one table of routes (`AuthRoutes`, ...): the guards between the global
pipeline and the handler, as the routers list them. `req[r].ahead` is what a request
still has to pass. A guard may hand it on or refuse it with one of its own statuses
(`Refusals`, through the error handler's `Status`); a limiter counts under its `Key`
and answers 429 over the `Budget`; a handler answers one of its outcomes. Register
and login run `SignIn`. `unlisted` collects answers the document does not have, with
the stage they came from.

### Tracker

`req[r]` is a request with the row, the name, the body or the entity it holds;
`At(r, pc, ops)` says which statement of which operation is next. The checks
(`CategoryName`, `MetricName`, `LogTimestamp`, `FindForMetric`, `Access`), the inserts
and saves with the unique index of their table, and the soft deletes are shared by
the operations as the repositories share them. `CommitMetric` is the one transaction
of `CreateMetric`: metric, default settings. `CommitBatch` is a dummy batch. A
settings body is a record of what the schema's rules and the model's validator look
at: three switches, the parts they need, and two days. `overtaken` (the requests whose
settings another has saved since they read them), `nulled` and `bare` are history.

### ResponseCache

A page kind (`PageReads`: eleven of them) stands for one of its keys; what a page
contains is abstracted to the set of writes its query saw. A write (`Write`:
seventeen of them) is the tables it changes, the rounds of its invalidation, and
whether it clears before its change is committed (`CreateMetric` inside its
transaction, `DeleteMetric` before its delete). Which tables a page reads and which
pages a write clears are the two tables at the head of the module, taken from the
read repositories and the invalidators. `Hit`, `Miss`, `Query`, `Store` and `EndGet`
are a GET: `cacheMiddleware` stores after the answer, in the background, so a store
can come long after its query. `Begin`, `Save`, `StartRound`, `WalkEnds` and
`EndRounds` are a write. The walks of a round run together; `MetricWalkFails` is the
one invalidator that swallows its error, and `WalkFails` the others, which rethrow;
in both cases the walks that had started go on after the handler. `SkipRounds` is a
process whose Redis client is closed, `Dies` a crash.

`met` in an entry and `swept` are history: the writes under way at some moment of
the read that stored the entry, and the pages a write has cleared.

### Ranges

Times are seconds; the calendar (`Year`, `Month`, `UTC`) is ECMAScript's `Date`, and a
zone is an offset with one change. `InstantOf` tries the offsets of a day before and a
day after and, for a wall time that never happens, bisects to the instant the clocks
moved; `StartOfNextBucketWall`, `SubtractWindowWall` and `ResolveRelativeRange` are
`relative-range.ts`, `ComputeFallbackRange` is `fallback-range.ts`, and `Shows` the
WHERE and the join to `generate_series` of the SQL. The clock ticks; a log is recorded
as of the present or of the past (`Ages`: its `loggedAt` is the client's), and both
ranges are functions of the state. The reference (`First`) counts buckets or days of the
zone's calendar and uses no instants.

### Migrations, Lifecycle, Release

`Migration` is the list of the 29 migrations, each with its statements up and down
over a schema that is a set of objects. A migration without a transaction runs one
statement a step and may be cut off between two (`StartStatements`, `RunStatement`,
`Crash`), a concurrent build also in its midst, which leaves its index INVALID; the
others take effect at once (`MigrateInTransaction`); `Record` follows. `torn` says that
a migration was cut off before its record was written or removed, `RecordByHand` is a
person who does it. `gaps` are migrations whose undoing was cut off, still on record,
after `db:migrate` went on over them: it goes by the record and finds them done.
`Traffic` is what the service writes meanwhile: rows of a kind that a later unique
index, NOT NULL or key would refuse, as long as nothing forbids them ("guest" and
"leftOrg": a member who owns no organization, and the organization that undoing the
backfill keeps for him, whose slug the backfill then wants again); `Repair` is the
person the migrations' comments send for. Not modelled: an undo while a `db:migrate`
is unfinished, and striking a row in the middle of `SequelizeMeta` by hand.

`Lifecycle` counts time in units of 5 s from the first signal. `Shutdown` is
`createShutdown`'s function, called by signals, crashes and failed starts; `todo` is
what is left of its steps, and each is a pair of actions (begin, end) with the limits
the code gives it. The consumers' `close` is three stages per queue: cancel, drain,
close the channel. `Tick` lets time pass only when no timer is due.

`Release` runs `Migrations` until the migrate step has ended well, then a process
of the new code. Well means what it means to `backend-ci.yml`: no migration is left
to run. Nothing compares the schema with the record.

## 3. Runs

"States" are distinct ones.

| Run | Instance | Checks | States |
|---|---|---|---|
| `jobs_live` | an invite, a dummy-logs job or an unreadable message, two deliveries, 1 retry, 1 fault, fairness | `TypeOK`, `OneEffect`, `NoJobLost`, `LastLinkWorks`, `StaleCachesHaveAnOwner`, `SendsNothingOnceRecorded`, `ImplementsDurableJobs`, `EventuallyAnswered` | 452 k |
| `sessions_safety` | three tokens, two requests, two connections | `OneLivePerFamily`, `NobodyStuck`, `ImplementsSessions` | 811 k |
| `members_safety` | two users, two invites, two requests | `OwnerRemainsWithoutClash`, `SpentOnAMember` | 6.2 M |
| `accounts_safety` | two reset links, one verification link, two requests or jobs | `PasswordAsChosen`, `SingleUse`, `OneUsableLink`, `StaysVerified` | 2.4 M |
| `cache_current` | two pages, five kinds of write, two writes and one read at once, expiry | `CurrentUnlessOverlapped`, `CurrentAtLast` | 880 k |
| `tracker` | two rows of each table, two requests at once, four in all | `NoDuplicates`, `MetricHasSettings`, `SettingsWhole`, `LosesNoUpdate`, `AnswersDocumented` | 432 k |
| `http_api` | every operation of the API; two addresses, one username, two overlapping sign-ins, one failing Redis command | `AnsweredAsDocumented`, `OwnBudget`, `AccountsWhole`, `GuessesBounded`, `LockEnds` | 1.05 M |
| `ranges` | six zones, twelve charts, a day and a half of half-hours, logs of the present and of a month or a year before | `CoversItsBuckets`, `FallbackShowsItsLog` | 386 k |
| `release` | all migrations, one crash, one kind of bad row at a time, two queues, one loss | `SchemaAsRecorded`, `DuplicatesHaveAReason`, `FailsForAReason`, `ServesWhatFits`, `ZeroMeansClean`, `WaitsFit`, `NothingCut`, `StopEnds` | 350 k |

Three runs expect a violation; each refutes a sentence of the repository, quoted in
`findings`:

- `jobs_nobody`: an invite deleted because "nobody received it" whose link the
  worker has mailed. No fault is needed.
- `sessions_family`: a family with a live token after its logout or its reuse
  answer, because a rotation committed while `revokeFamily` waited.
- `members_owners`: an organization without an owner, by two requests that each
  counted two.

**Bounds.** Two actors on one object are what every race here needs: two deliveries (or
a delivery and a fallback) of one job, two requests on one token, row, invite or link.
Families, organizations and users share nothing, so one of each stands for all. One
retry has a first and a last attempt. Three tokens let one family rotate twice, or once
beside another family; with two connections two rotations hold the whole pool.
`MaxJoins` 1 lets a user be admitted and removed, with a request still holding the old
row. In `cache_current` the metric detail page has every kind of write there is to it:
one that clears it before the commit, one after, one among other walks, and two that
never clear it; the settings page is cleared in the second of two rounds. In `tracker`
four requests create a row, change it and race over it twice; two rows and two names are
a duplicate. In `ranges` the zones' changes are the kinds there are: back and forward,
at midnight and not, by an hour, half an hour and a day; the clock runs over the end of
a week, of a February of 29 days, of a March and of a year. The window of a month in
daily buckets begins 28 to 31 days before, that of a year 365 or 366: `AroundTheStart`
has logs of those days beside the ones of the present, so that a start on the same date,
or on the last day of a shorter month, decides which of them are shown. A budget of 1
makes the second request one too many. The deadline and the waits of `Lifecycle` are the
code's own numbers, in units of 5 s. Symmetry is used for interchangeable requests,
rows, links, invites and tokens, never with fairness.

**Constraints** leave out combinations of things that do not meet:

- `Apart` (`MCJobQueue`): jobs of different ids share only delivery slots and faults, so
  one is under way at a time. No fairness is stated of a request's arrival, so every
  fair behaviour of one job is still a fair behaviour of the run.
- `FewLinks` (`MCJobQueue`): at most two links minted for an email and the first of them
  given up, which is enough for one that arrives after the link a later attempt
  committed. `Asked`: whether the publisher is up is asked before a job is published and
  not again, so it is up or down only until then.
- `Related`, `Featured` (`MCTracker`): requests that touch no common table commute, and
  rows of two features meet only in a metric.
- `Apart` (`MCHttpApi`): requests of every kind walk the guards one at a time while the
  limiters count; registrations and logins overlap with the limiters switched off.
- `FewKeys`, `FromFresh` (`MCRelease`): the numbered foreign keys that undoing leaves
  behind grow without end, and three of them show it; a process is followed only on the
  schema a new database has, since it reads nothing of how that came about. Whether a
  deploy meets another schema is checked at the deploy itself.
- `OneReason`, `AtWork` (`MCRelease`): going up over a gap a migration has its reason to
  fail already, so no rows are given another; the queues of a worker drain side by side
  with timers of their own, so that one queue has a message in work at a time (the
  theorems about stopping have no such bound).

**Overlaps.** No transaction protects the count of owners, the save of a user or of
settings, or the issue of a link, and some properties hold only while two requests of
a certain kind do not overlap. `clash` in `Members`, `clashed` in `Accounts` and
`overtaken` in `Tracker` remember whether they ever did, and the "loose" of `use` which
links they did it with, so that `OwnerRemainsWithoutClash`, `PasswordAsChosen`,
`StaysVerified`, `OneUsableLink`, `LosesNoUpdate` and `SingleUse` say exactly
which overlap is needed: everything else leaves them true. Likewise
`CurrentUnlessOverlapped` says that only a read that overlaps a write can leave the
page from before it in Redis, and `CurrentAtLast` that this, and every page a write
forgets to clear or fails to, ends with the TTL.

**Fairness.** In `JobQueue`: an event loop runs what is ready, a publish and a send have
timeouts of their own (`RabbitMQPublisher`, `TimeoutEmailSender`), queries return, the
broker delivers a ready message to an idle consumer and expires a delayed one. No more
is assumed than that one of these is taken while one can be (weak fairness of their
disjunction, less than the code gives), and none of the network, of reconnecting, of
requests arriving or of faults. In `ResponseCache`: of expiry, which Redis owes every
key stored with SETEX. In `HttpApi`: of the expiry of a counter that has a time to live,
and of the reply to an EXPIRE, which comes or fails. In `Lifecycle`: of the timers and
the callbacks of waits that are over, and of nothing a process waits for: no close,
flush, broker or handler has to answer for the exit. `RefreshSessions` has none: that
nobody is stuck is stated as a step that is always possible (`NobodyStuck`), which the
acquire timeout provides. `Goes(r)`, what request `r` can do next, is written out with
the guards its actions have; TLC found it equal to `ENABLED Progress(r)` in every state
of `sessions_safety`.

**Deadlock** is not checked: every instance ends when its rows, calls or faults are
used up, and a process ends by design.

## 4. What the runs found

Besides the three findings, and each visible in a property's exceptions:

- **Fallback range** (`domain/fallback-range.ts:43`). ADR-0062 counts "the fallback range
  left out the log it was built from" as repaired. The range ends with the log's
  bucket, but its length is at most 180 days and otherwise an approximate bucket: with
  yearly buckets a newest log of January to early July is left out, with monthly ones
  (when the requested range is no longer than a bucket) a log of the first hours of a
  month of 31 days, with daily ones a log of the first hour of a day of 25.
  `FallbackShowsItsLog` states what is left.
- **Zones** whose clocks go back across a bucket's edge, and not from or to one (St. John's
  until 2011, at 00:01), are outside `CoversItsBuckets`: the earlier of two midnights is
  taken, and in the repeated minutes before the second the range has already ended.
- **Lockout.** "The (N+1)th request is blocked" (`loginLockout.ts`) holds of logins one
  after another; overlapping ones have all passed the check, and `GuessesBounded` has
  the number. An EXPIRE that is lost leaves a lock without an end (`LockEnds`).
- **The API document** leaves out answers that code gives: `Gaps` and `Everywhere` in
  `HttpApi` and `Unlisted` in `Tracker` list them (403 from HTTPS enforcement, 404 of a
  deleted user, 409 from a unique index under a race, 403 of another member's metric,
  express's 304, ...). Everything else is documented.
- **Late emails.** A send that timed out can arrive after the link that a later attempt
  committed; the last mail in the box is then a dead link (`LastLinkWorks` says that no
  other can be). `TimeoutEmailSender.ts:15-19` says as much of one send.
- **Dummy logs.** Where the Redis client is closed, or the walk of the metric pages fails,
  the message is acked and the pages stay as they were; no retry is owed, and only their
  TTL ends them (`missed` in `StaleCachesHaveAnOwner`).
- **Single use.** `docs/explanation/product-requirements.md:83` calls reset and
  verification tokens "single-use". Two overlapping requests with one link are both
  answered 200, and both save the account; a mark that fails after the save leaves the
  link usable (`use` "loose"). The comment in `VerifyEmail.ts:40-46` accepts the first for
  a verification; `ResetPassword` has the same steps, and there the second request sets
  another password.
- **Toggle.** `src/lib/openapi/openapi-docs.ts:1714` calls PATCH
  `/metric-settings/{id}/achieve` "Toggle goal achievement for metric settings". The code
  can only set it (`UpdateGoalAchievement`, `markAchieved`, and the controller's answer
  "Goal marked as achieved"): a second call changes nothing, and no call takes an
  achievement back. `LosesNoUpdate` states what the code does.
- **Settings.** A PUT that sets a goal's value or an alert's threshold to null without the
  switch is not refused (`nulled`); a save that overlaps another writes every column of the
  copy it has read, and takes the other's change back, an achievement among them
  (`overtaken`).
- **Migrations.** Undone past `20260512000002` and then `20260510000004`,
  `memberships.status` is missing when they are applied again and the 21st fails; so it
  does where an organization was kept for a member who does not own it, since its slug is
  taken; a
  unique index whose concurrent build failed stays INVALID, and running the migration
  again skips it; most migrations cannot be run again after their record was lost
  (`OnceOnly`); undoing leaves types, an extension and numbered foreign keys (`Residue`).
- **Deploying.** `db:migrate` goes by `SequelizeMeta` alone. After an undo that was cut off
  between its statements and its record it finds nothing to do and succeeds, and the
  deploy puts the new code on a schema that lacks what the undo took; an INVALID
  unique index is not noticed either. These are the two exceptions in `ServesWhatFits`.
- **Stopping.** A stop that meets the start can leave what the start opens afterwards
  ("late start"); a consume that is not answered when its consumer is cancelled lets
  messages in after the drain ("consume pending").

## 5. Proofs

TLC checks the instances of section 3; the theorems hold for every value of the
constants, with no bound on what the runs bound but what the code bounds.

| Theorem | States |
|---|---|
| `JobProofs.TypeCorrect` | `Spec => []TypeOK` |
| `JobProofs.EffectsOnce` | `Spec => []OneEffect` |
| `JobProofs.NothingIsLost` | `Spec => []NoJobLost` |
| `JobProofs.InvalidationIsOwned` | `Spec => []StaleCachesHaveAnOwner` |
| `JobProofs.RecordedLinkWorks` | `Spec => []LastLinkWorks` |
| `JobProofs.RecordedSendsNothing` | `Spec => SendsNothingOnceRecorded` |
| `JobProofs.KeepsDurableJobs` | `JobQueue` implements the safety part of `DurableJobs` |
| `SessionProofs.OneLive` | `Spec => []OneLivePerFamily` |
| `SessionProofs.NobodyIsStuck` | `Spec => []NobodyStuck` |
| `SessionProofs.SessionsAreOver` | `Spec => ImplementsSessions`: `RefreshSessions` implements `Sessions` |
| `MemberProofs.SpentOnMembers` | `Spec => []SpentOnAMember` |
| `MemberProofs.OwnerRemains` | `Spec => []OwnerRemainsWithoutClash` |
| `AccountProofs.KeepsChosenPassword` | `Spec => []PasswordAsChosen` |
| `AccountProofs.KeepsVerification` | `Spec => StaysVerified` |
| `AccountProofs.LinkChangesOnce` | `Spec => []SingleUse` |
| `AccountProofs.OneResetLink` | `Spec => []OneUsableLink` |
| `CacheProofs.CurrentOnceCleared` | `Spec => []CurrentUnlessOverlapped` |
| `HttpApiProofs.RegistersWhole` | `HttpSpec => []AccountsWhole` |
| `HttpApiProofs.AttemptsBounded` | `HttpSpec => []GuessesBounded` |
| `HttpApiProofs.CountsItsOwn` | `HttpSpec => []OwnBudget` |
| `HttpApiProofs.AnswersAsDocumented` | `HttpSpec => []AnsweredAsDocumented` |
| `TrackerProofs.IndexesHold` | `Spec => []NoDuplicates` |
| `TrackerProofs.SettingsComeAlong` | `Spec => []MetricHasSettings` |
| `TrackerProofs.SettingsAgree` | `Spec => []SettingsWhole` |
| `TrackerProofs.UpdatesKept` | `Spec => LosesNoUpdate` |
| `TrackerProofs.AnswersAreListed` | `Spec => AnswersDocumented` |
| `ReleaseProofs.ExitsClean` | `ReleaseSpec => []ZeroMeansClean` |
| `ReleaseProofs.DeadlineIsForSlow` | `ReleaseSpec => []WaitsFit` |
| `ReleaseProofs.StopsAroundWork` | `ReleaseSpec => []NothingCut` |
| `ReleaseProofs.DuplicatesAreExplained` | `Spec => []DuplicatesHaveAReason`, of `Migrations` |
| `ReleaseProofs.NewCodeFits` | `ReleaseSpec => []ServesWhatFits` |

**Assumptions** are the ones the modules declare, and TLC evaluates each on a run.
`JobQueue`: kinds of job are disjoint, deliveries are not jobs and finite in number (a
prefetch is a number; it makes the count of requeued copies a natural), the bounds are
naturals. `RefreshSessions`: a number of tokens, a pool of at least one connection.
`Members`: somebody founded the organization.
`Accounts`: a reset link is not a verification link, what stands for none is neither, and
the first password is a password.
`ResponseCache`: the pages and writes of an instance are among those of its two tables.
`SignIn`, `HttpApi`: a threshold and a budget of at least one, requests finite in
number. `Tracker`: what stands for no value is not a value; `BodyAssumption`: the
bodies of an instance are what the schemas parse. `ReleaseProofs` uses none.

**Invariants.** None of the properties is inductive. What each needs besides:

- *Jobs, one effect* (`Effect`): `Exclusive` (two open transactions are of two jobs: the
  dedup insert waits), `Unrecorded` (an open transaction's job is not yet recorded: the
  insert looked, and nobody else could commit it since) and `Counted` (commits equal 1
  exactly for the recorded jobs). `Typing` says what each program counter says of its
  record.
- *Jobs, nothing lost* (`Carry`): `Taken` (a copy anywhere is of a job the broker took),
  `Recorded` (a runner that will ack has its job recorded and, for dummy logs,
  invalidated) and `OwedIsOwned` (a job taken and not recorded, or stale
  through no invalidation that missed, has a copy in a queue, an unacked delivery or a
  place in the parking queue).
- *Jobs, links*: `Unpublished` (nothing of a job is anywhere before its request
  publishes) and `Links`: an attempt about to commit has `Reached` the mailbox with the
  link its commit will write (`MailedIsWritten`): that link is there, and only one whose
  send was given up can have come after it. A late delivery keeps this of every
  attempt, whichever link it brings.
- *Jobs, the promise*: `DurableJobs`'s steps are the confirm, the commit and the parking;
  every other action maps to a stutter.
- *Sessions*: `LockedIsLive` (the row a rotation has locked is live and nobody else's
  until it commits), `Rooted` (a family is named by an issued token of its own),
  `Presented` and `PickedWereIssued` (requests name issued tokens only, so an issue
  cannot meet an UPDATE that has already picked it). The refinement maps a session to
  its family and needs that a token is added only to a family whose presented token
  is live at the commit.
- *Members*: `MembersJoined`, `Addressed` and `RequestsSound` carry an invite from its
  check to its mark: whoever is marked has joined by then. `Alone` and `SpareOwner`: as
  long as no two administering requests overlapped, the owner counted beside the
  one about to go is still there when the write comes.
- *Sessions, nobody stuck*: a row is locked for others only by a request that has left
  its own waits for rows behind (it is at its check or its commit), and such a request
  can go on or its wait for a connection is up (`HolderGoes`); whoever waits for no row
  can go on by itself, or waits for a connection that the acquire timeout gives up
  (`SomeoneGoes`). So a circle of waits has a member that can go on.
- *Accounts*: `SavesCurrent` is the heart: without an overlap of saves, the entity a save
  holds differs from the row only in what was asked. `IssuesSweep`: an issue about to
  mint has picked every usable link of its table. `LinksSpending`: unless its use is
  loose, a link has at most one request, and one that has changed the account is marked
  or its request is about to mark it; only a request that found it unmarked can save,
  so there is no second use.
- *Cache*: `ReadsMeet` (a write a GET has not met is not under way, and what it committed
  was seen) and `EntriesSound` (an entry older than a write it did not meet has not
  been swept by it).
- *Sign-in*: `OpenIsFresh` and `OpenApart` (open registrations are of free and different
  keys: the unique indexes); for the lockout `Counted` (every wrong password is counted
  or about to be) and `Tried` (attempts past the check leave room for themselves). The
  sums over requests are cardinalities, and the lemmas about them are those of
  `FiniteSetTheorems`. `OwnBudget` counts beside it that distinct limiters have
  distinct keys and stores.
- *The pipeline*: `Way` says that what a request still has to pass is a tail of one of
  its operation's pipelines, each of whose stages `Permits` the operation: whatever the
  stage answers is listed for it, or is a gap. `Holds` and `Ends` show it of every
  pipeline, route by route.
- *Tracker*: per table, that live rows differ in the index's key. For settings, `Held`:
  what a request has read and is about to write is whole, and differs from the row in
  its own part alone (`Edits`) unless it was overtaken. `HeldKept` shows that another
  request's save overtakes it and nothing else changes the row, `DetailsWhole` that a
  body the schema accepts leaves a whole entity whole: this is where the validator's
  rules are used. For the answers, `OpsKnown` (a request under way is of a writing
  operation) and, statement by statement, `Answered`: what the statement answers
  (`Ends`) is listed for the operation it runs for (`Lists`).
- *Stopping*: `Planned` (the steps left are a suffix of a plan, or the flush; `Plans`
  lists them), `Remaining` and `Opened` (what is open is what is still to be closed),
  `Timed` (what the waits can have taken, while nothing was slow: at most a unit for
  HTTP, two more for the tasks, four for the consumers, which is where the code's limits
  are added up and compared with its deadline), `AsPlanned` (work a step waits for is
  over once the step is) and `ClosedInOrder` (a consumer that drains has no
  subscription, whatever its broker answers late).
- *Migrations*: `Births` names, for each table, constraint and later column the models
  read, the migration that has it to stay; the other columns come with their table
  (`Created`). The invariant: what is on record, not in a gap and not about to be struck
  from it, has made what is born of it (`Made`); a migration under way has made it or
  has the statement still ahead (`Making`); one committed and not on record has made it
  too (`Committed`, which is why entering it by hand is sound); what may be missing is
  what the undo of a doubtful migration takes (`ModelsTaken`: each object the models
  need is taken by the undo of the migration that made it); only an index built online
  can be invalid (`Usable`); tables are whole (`Closed`) and rows a unique index is to
  prevent are there only without it or beside an invalid one (`Guarded`). Statement by
  statement `Fine` says it breaks neither of these, `Spares` that it takes nothing an
  earlier migration made; `MigrationsFine` shows both of every statement of all 29, up
  and down (the last one clears the key it adds, so there the order counts). A
  transaction is a recursive function over its statements; `Climb` (from the
  well-foundedness of the naturals, with a set in the place of a predicate) gives the
  induction, and `RunFacts` that the function satisfies its equation.

One lemma per group of actions shows that it keeps each part; most rest on a few
lemmas about a step's shape (`QuietKeepsEffect`, `ElsewhereKeepsCarry`, `ControlQuiet`,
`ControlStepEnds`, ...).

**Only model-checked.** Liveness under fairness is out of the prover's reach:
`EventuallyAnswered`, `CurrentAtLast`, `LockEnds`, `StopEnds` and the liveness part of
`ImplementsDurableJobs`. The two properties of `Ranges` rest on a bisection, which is a
RECURSIVE operator. `SchemaAsRecorded` compares with the schema of a new database, which
is a fold over the migrations (`Fresh`), and needs the constraint on the numbered foreign
keys, of which the model has five; `FailsForAReason` needs the same knowledge of every
object a statement adds or drops, where the proofs have it of those the models name.

## 6. Plan

Done: all the modules of section 2 with their runs, and the proofs of section 5. Next:

1. `FailsForAReason` as a theorem: `Made` with an interval of the record for every object
   a migration adds, drops or needs, present inside it and absent outside.
2. Email and username of a profile update in `Accounts`; keyset cursors of the lists.

## 7. Not modelled

- The SQL aggregations of analytics (PostgreSQL's), beyond which logs and buckets a
  chart has; the reads of lists and their cursors.
- Configuration, logging, Sentry scrubbing, scripts, seeds: they relate no states.
- The counting of express-rate-limit, the JWT library, bcrypt: a token is a model value
  and a hash of one is that value. A refused access token is a 401 of the guard.
- The documentation routes, and the `URIError` of a malformed URL.
- Validation, but for the rules of a settings body: a body is accepted or refused.
- Emails are modelled by the token they carry. Time, but in `Lifecycle` and `Ranges`, is
  modelled by events: a token expires, a timeout fires, a delay ends, at any moment.
