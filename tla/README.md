# Formal model of the projects-and-tasks API

TLA+ modules for the NestJS application in `src/`: a REST API with users, projects
and tasks in PostgreSQL, a Project Detail cache in Redis, task activity events on a
BullMQ queue, and two operator commands that seed and reset demo data. TLC checks the
modules on small instances; TLAPS proves every safety property the passing runs
check, for every value of the constants. Comments in the modules name the code a
definition stands for; `PROJECT.json` gives its lines.

## The system

| Component | State it keeps | Operations | Talks to | What makes it correct |
|---|---|---|---|---|
| Projects service (`projects/projects.service.ts`) | none; an entity per request | create, list, getDetail, update, delete | repository, cache | every query is scoped by owner; a mutation invalidates the detail |
| Tasks service (`tasks/tasks.service.ts`) | none; an entity per request | create, list, get, update, delete | projects service, repository, cache, queue | the parent is the caller's; events match commits |
| Repositories, entities, migration | tables `users`, `projects`, `tasks` | one SQL statement per call, `save()` two | PostgreSQL | unique email, foreign keys, cascade to tasks, restrict on users |
| Project Detail cache (`projects/cache`) | one Redis key per user and project, with a TTL | get, set, invalidate | connection manager | best effort; never another user's data; stale only for a cause that can be named (for how long is Redis's TTL) |
| Redis connection manager (`infrastructure/redis`) | two clients, two connect promises, a shutdown promise | connect, ensure, shutdown | ioredis | at most one client per concern; closes what it opened |
| Task activity queue (`tasks/activity`) | queue, queue events, worker; jobs in Redis | initialize, publish, process, shutdown | BullMQ, connection manager | optional for requests; an accepted event is finished once, after a bounded number of runs |
| Authentication and users (`auth`, `users`) | user rows; tokens are with the clients | register, login, validate, me | users repository, bcrypt, JWT | one user per email; a token needs the password; gone users get 401 |
| Demo data (`database/demo`) | an open transaction | seed, reset | PostgreSQL, Redis | touches the demo user's data only, in one database, all or nothing; leaves nothing cached but for a cause |
| Environment validation, database configuration (`config`, `database`) | the variables a process was started with | validate, choose a database, build key prefixes | every process | suites, application and demo commands stay apart |
| Bootstrap and shutdown (`main.ts`, hooks) | the order of hooks | start, listen, signal, exit | all of the above | starts without Redis, ends, leaves nothing open |
| HTTP chain (`app.setup.ts`, `common`, controllers) | a request: its id, how far it is | request id, body parser, guard, pipe, handler, filter | every service | documented codes with the request's id; a 5xx only for a failure of the server |
| Pagination (`common/dto`, list queries) | none; the client holds a page number | rows and count of a page | repositories | a walk over the pages skips and repeats nothing that stayed |
| Health | none | live, ready | PostgreSQL | answers 503 if a query fails |
| Logging, Swagger | none | | | |

Hard behaviour. Every `await` in a handler is a point where other requests, on
this instance or another, change the rows, the cache and the queue. Nothing
holds a transaction or a lock from a check to the write it guards: ownership is
checked in one statement and the row written in a later one, TypeORM's `save()`
reads the row again before it writes, the cache is filled and invalidated after
the statement whose result it mirrors, and a page of a list is two queries.
Redis may be missing or go away at any time, an instance may crash between a
commit and its invalidation or with a job in its hands, and a signal may arrive
while the init hooks are still running. Commands and test helpers read raw
environment variables where the application reads validated ones. The hazards of
`PROJECT.json` list each of these at its line.

## Modules

| Module | Models | Correspondence |
|---|---|---|
| `Persistence` | `projects` and `tasks` tables, repositories, `save()` | one operator per query or statement, constraints as guards (`ParentExists`, `RowStorable`, `TaskFlushAccepted`); entities in memory may hold a null that no row may (`ProjectEntities`, `ProjectRows`); `creator` and `home` remember what an id was first given to |
| `ProjectDetailCache` | the cache service over a client that may not be there | `CacheValueFor`, `CacheWith`, `CacheWithout` are get, set, invalidate |
| `ProjectTaskApi` | all handlers of both services, the publisher, failures | a request runs in a slot; the label `pc[r]` names the call its handler awaits; one action per stretch of code between two awaits |
| `ApiProperties` | what is claimed of them | |
| `PrivateBoards` | abstract specification of the stored data | one step changes one project of one user |
| `AppLifecycle` | init hooks, destroy hooks, signal, exit of one process | fields and promises of the two services are variables; one action per stretch between awaits |
| `TaskActivityQueue` | the queue, the workers of several instances, retries, stalls, retention, faults | the options and `process()` are the service's; the structures and locks in Redis are BullMQ's and external |
| `EventLog` | abstract specification of the queue | an event is accepted, finished once, remembered for a while |
| `Accounts` | register, login, token checks, project creation and detail for a token, and the demo commands | requests as in `ProjectTaskApi`; `demo` holds the uncommitted transaction |
| `Deployment` | application, suites and commands under shared variables | `Config` is the validated environment, `env` the raw one; a database is a set of kinds of rows, labelled by who wrote them (`suites`), not by NODE_ENV; a detail is read and cached in two steps, and a reset commits and deletes keys in two |
| `Listing` | a client that reads page after page while the list changes | `ReadRows` and `CountRows` are the two queries of a page, `Slices` what ORDER BY, OFFSET and LIMIT may return |
| `HttpBoundary` | the chain from request id to error body, composed with `Listing` | a request carries what its stages look at; a handler is the statement that decides its status |
| `MCProjectTaskApi`, `MCAccounts`, `MCDeployment`, `MCHttpBoundary` | TLC: model values, homes of slots, environments, requests, symmetry | |
| `ApiProofs`, `ApiOwnershipProofs`, `ApiOutcomeProofs`, `AppLifecycleProofs`, `TaskActivityQueueProofs`, `AccountsProofs`, `DeploymentProofs`, `HttpBoundaryProofs` | theorems | the last holds those of `Listing` too |

`ProjectTaskApi` extends `ProjectDetailCache`, which extends `Persistence`;
`ApiProperties` adds the properties and the instance of `PrivateBoards`.
`HttpBoundary` extends `Listing`, and what is proved of `Listing` is carried over
through the refinement. `TaskActivityQueue` instantiates `EventLog`. The rest stand
alone. Operators named `Bug...` are plausible faults in the code; each property is
known to fail with one of them put in place of the definition below it.

What the actions keep of TypeORM, PostgreSQL, Redis and BullMQ:

- `save()` of an entity with an id loads the row (`Load`), returns if nothing
  differs, and otherwise flushes what differs from what it loaded, or inserts
  the entity if it loaded nothing (`SaveProject`, `SaveTask`). An UPDATE of a
  row that is gone matches nothing and is no error.
- `@IsOptional` lets an explicit null through for every optional field, and the
  services assign it (`Given`, `ProjectChanges`, `TaskChanges`). A create replaces a
  null description or due date by its default, which is null again, and hands a null
  status or priority on; a statement that would write a null into a NOT NULL column is
  rejected (`Storable`, `RowStorable`).
- A statement may fail before it commits (`DbError`), and a commit may happen
  although the handler sees an error (`AfterCommit`).
- The client options make a client that lost its connection fail every later
  command (`retryStrategy: () => null`, no offline queue), so a lost client stays
  lost until the process restarts; a worker that lost it cannot report
  (`ReportFails`) and takes no further job.
- An INSERT of a unique key that another transaction has inserted but not
  committed waits for that transaction (`Claimed`).
- Where an ORDER BY leaves ties, any of the tied rows may come first (`Slices`);
  the code leaves none, and the mutant without the second sort column shows what
  that is worth.
- An active job is held under a lock its worker renews. A lock that is not
  renewed runs out, any worker then puts the job back and counts a stall, and a
  job that has stalled too often fails when it is next taken.

History variables (`suspect`, `marks`, `buried`; `had`, `late`, `missed`; `served`;
`runs`; `purged`, `overtaken`, `astray`; of `walk`: `seen`, `missed`, `twice`, `came`,
`left`; of `req`: `broken`) are read by properties only, except that `purged` and the
sets of used ids keep a uuid from being given out twice.

## Runs

| Run | Question | Instance |
|---|---|---|
| `api_sequential` | does the API do what it promises when requests do not overlap? | 2 users, 2 projects, 1 task, all ten operations with nulls, one slot; only the instance may crash |
| `api_cache` | does every mutation invalidate, and what else makes an entry stale? | 2 instances with one slot each, all mutations and detail reads, either instance may lose Redis |
| `api_writes` | do concurrent requests keep the data well-formed and owned, and is every task announced exactly once? | 2 users, 2 slots, all mutations and detail reads, nothing failing; status is the one column, of tasks |
| `api_live` | is every request answered? | all ten operations, 1 user, 1 project, 1 task, 2 slots; Redis and the queue may be lost, statements fail and the instance restart at any time |
| `app_lifecycle` | clients, queue, startup and shutdown under any configuration | one process, Redis failing anywhere, a signal anywhere |
| `task_activity_queue` | is an accepted event finished, once, after how many runs, and for what reason does one fail? | 2 events of which one malformed, 2 instances, 3 attempts, 1 job kept, 2 faults |
| `accounts` | one user per email, tokens only for passwords, whom do the demo commands touch? | 2 slots, 2 addresses in 2 spellings, 2 passwords, seed and reset |
| `accounts_live` | do requests and commands that wait for each other end, what does a token of a deleted user get, and what stays in the cache of what a command deleted? | 1 slot and a command, Redis and statements failing |
| `deployment` | do suites, application and demo commands keep out of each other's databases and keys? | 2 processes, each an application or a suite under any NODE_ENV, 1 demo project, 33 environments: 20 pairs of database names without a cache, and 13 sets of the other variables |
| `http_boundary` | is a walk over the pages complete, do errors keep the contract, where do 5xx come from? | a walker and another client, 3 rows, pages of 2 |

Two slots are enough for the races in the API: each relates one handler that holds
something read earlier to one other that changes it, and a third would only repeat
the second. One project and one task in the concurrent runs suffice because
statements and keys concern one id, and the sequential run covers several projects
at once; a second user is there wherever a property is about users. A column has
two values, since the code only compares for equality; only the status is a column
where its value is what matters. Failures are spread over the runs by what can
hurt their properties: `api_cache` keeps Redis failing for good on one side while
the other side sees the entry, `api_sequential` restarts the instance in the middle
of a request, and `api_live` has all four kinds of failure. Its states are told apart
by `Control` only (a VIEW): the history variables, the accepted events and the replies
are read by no guard, so states that differ in nothing else have the same futures,
and whether a slot becomes idle depends on `pc` alone. Uuids are never used again, so the id sets
bound how much is ever created; `IdsLeftFor` and `UuidsLeft` refuse a create when
the ids left could not serve all creates in flight, so that none is ever stuck for
want of an id.

In `task_activity_queue`, 3 attempts and 1 permitted stall are the real numbers.
One kept job instead of 100 makes retention happen with the second event, and 2
faults are one more than a job survives: both workers may fail in the middle of it,
after which it fails by stalling. `runs` is bounded by the property that is checked. In
`http_boundary`, 3 rows in pages of 2 give a full page, a page that is not, and a
list that shrinks to one page or none; one key and Null give ties and both places
a row can move to. `Listing` by itself has also been explored with 4 rows and
pages of 1 to 3 in both orders. In `deployment` a text is one of two names or
namespaces, plain or padded with blanks, which is all that trimming and the
comparisons tell apart. The proofs depend on none of these numbers.

Slots of one instance are interchangeable, so `api_writes` and `accounts` are
checked up to permutations of slots (and `accounts` of uuids), `api_cache` up to
the exchange of both instances with their slots, and `deployment` up to
permutations of its processes. One demo project is enough there, since keys are built
and deleted project by project. No run with symmetry checks liveness. Deadlock is
checked in every run but `deployment`, where an environment that no process
accepts leaves nothing to do; a process of `AppLifecycle` that has ended stutters by
an action of its own (`Ended`).

Two runs end in a violation. Each states what a document or a test says and shows
how the code departs from it; `PROJECT.json` has the quotations.

| Run | What happens |
|---|---|
| `api_resurrection` | a PATCH reads, a DELETE commits, `save()` finds no row and inserts the project again |
| `app_exit_clean` | a signal during startup: the queue is created after `shutdown()` and never closed |

### What holds only in part

`DeletedIsNotFound`, `StatusEventIffMoved` and `OnlyNullGets500` hold in
`api_sequential`: the code keeps them while requests do not overlap. Overlapping
requests break all three. Other departures can be read off the actions, or off the
exceptions the properties name, and have no run of their own:

- A GET reads, a DELETE commits and invalidates, the GET then fills the cache: later
  GETs of the deleted project are answered 200 until the TTL (`CacheSet`; one of the
  causes in `suspect`). A project that a seed has replaced stays cached as long, and
  so does one that a reset has deleted if it was created between the statement that
  reads the ids and the one that deletes the rows, if a read that was under way sets
  its entry after the keys are deleted, or if Redis fails (`LeftoversHaveACause`,
  `PurgeReachesTheCache`). After a reset nobody is shown it, because the user is gone
  too (`GoneUserGets401`).
- Of two PATCHes to one status both publish `TASK_STATUS_CHANGED`, because the event
  is decided on the status read before the save. A task created while its project is
  deleted is answered 500 by way of the foreign key.
- One request alone gets a 500 where it gives an explicit null for a NOT NULL column
  (`PATCH {"name": null}`, `POST {"status": null}`); `OnlyNullGets500` says that this
  is the only such case, and that such a null is never answered with success.
- `CreationsAnnouncedOnce` counts announcements while nothing fails. There is no
  outbox: a crash after the commit, or an `add()` that fails, loses the event, which no
  property forbids.
- Redis is optional when the manager dials, but if it goes away before BullMQ's own
  connections are ready, `initialize()` rethrows and startup fails
  (`OnlyBullFailsStartup` says that nothing else stops it). A rejected `quit()` ends
  the shutdown early and may leave the other client open (`QuitFails`;
  `NoHookWaitsForEver` only says that the hook ends). `QueueFieldIsOpen` says that no
  `publish()` begins on a queue that is being closed; an `add()` already in flight then
  is left out. The destroy hooks close worker, queue and clients before Nest
  closes the server (`StopServer` follows both hooks), whereas
  `docs/operations/runtime.md` lists the server first.
- `GET /auth/me` reads its user twice and answers 404 when a reset commits in
  between. The strategy answers 401 also for a query that failed (`Admit`).
- A 5xx that a client can cause (`InternalErrorsAccounted` lists them): an explicit
  null for a column that is NOT NULL, which `@IsOptional` lets through; a page whose
  OFFSET is no bigint; a text with NUL or an ISO week date; a body the parser cannot
  decode (unknown charset or encoding, corrupt or cut short: its errors have a 4xx
  status, of which the filter keeps only 413).
- `error-contract.md` lags behind the code: lines 28-29 say that `requestId` is not
  available yet, while every error body has it, as `runtime.md:55` says and
  `ErrorsKeepTheContract` shows. `PAYLOAD_TOO_LARGE` is missing from its table, and a
  503 carries `INTERNAL_ERROR`.
- A reset misses the cache keys where `REDIS_NAMESPACE` is padded
  (`SpelledPlainly`), where `CACHE_ENABLED` is spelled `TRUE`, and of processes that
  share the database under another NODE_ENV (the property speaks of processes under
  `development`).
- `test/setup-database-env.ts` sets NODE_ENV only where it is missing. Suites that are
  run under another one write their rows beside those of the application
  (`TestRowsApart`), also beside demo projects (`DemoStaysInItsDatabase`), and where
  `DATABASE_NAME` is padded they clean the application's database (`Misconfigured`). An
  application that is run under `test` writes into the database of the suites. `astray`
  says which of these has happened, and nothing else mixes the rows.

## Fairness

- Weak fairness of each handler: Node runs every handler whose awaited call has
  settled, and the client libraries settle every call. `publish` returns at once
  without a queue, and a queue that lost its connection rejects. A queue that stays
  connected and never answers is thereby assumed away.
- Strong fairness of `Create` in `Accounts`: PostgreSQL keeps an INSERT that
  waits for a claimed key in a queue and wakes it whenever the claim ends,
  although further commands may claim the key again.
- Weak fairness of the demo command: the operator starts one at a time and lets
  it end.
- In `AppLifecycle`, of the hooks and of every connect.
- In `TaskActivityQueue`, of each worker's loop, of locks that run out, of delays that
  end, and of the check for stalled jobs, which BullMQ repeats periodically.
  `CloseEnds` rests on BullMQ: a worker whose connection is closed gives its report up
  (`ReportFails`) and does not repeat it. `AcceptedIsFinished` holds where some worker stays connected for good; no fairness
  restarts one.

Nothing makes requests arrive, entries expire, Redis fail or a signal come. `Deployment`, `Listing`
and `HttpBoundary` assume no fairness and claim no liveness.

## Proofs

`tlapm` checks all eight proof modules to the last leaf. The assumptions are those
the modules name: which sets the constants come from, and that `Absent`, `Unset` and
`Null` are not among the values they stand apart from.

- `TypeCorrect`. `TypeOK` of the API includes `HandlersOK`: which operations may wait
  at which label and what they then hold. Without it the type of the row an UPDATE
  writes does not follow, so the type invariant is inductive only with it.
- `ChecksHold`, `Isolation`, `NoOrphans`. Isolation is not inductive: a handler
  writes long after its check. `OwnershipInv` adds that a check once passed stays
  true (`ChecksStillHold`), which it does because `creator` and `home` never change
  once set and because rows and cache entries agree with them. Absence of orphans
  rests on three guards: the foreign key on INSERT, the same key when `save()`
  inserts again, and the cascade.
- `OwnersWrite`, `DatabaseIsPrivateBoards` follow from `OwnershipInv` and the absence
  of orphans, statement by statement: a write belongs to a handler whose check still
  holds, so it is one change to one project of the caller, which is all
  `PrivateBoards` allows.
- `EventsTrue`. At `publish` the checks of `OwnershipInv` say whose the task is, and
  `home` and `creator`, which an event repeats, never change once they are set.
- `NeverAnnouncedTwice`, `EveryTaskAnnouncedOnce`. `OneAnnouncer` says that a task
  with a handler still to announce it has no other such handler and no event yet. The
  second theorem assumes `NothingIsLost`, that is neither failing statements nor
  crashes: there is no outbox, and a crash after the commit does lose the event.
- `StaleHasACause` holds for every set of faults. Its strengthening `FillsAreFresh`
  says that a handler which waits for its SET, and was not overtaken by a commit on
  its project since its query, still holds what the query would find. The rest is
  bookkeeping: a step that changes what a detail shows is a commit of a mutation of
  that project (`DetailChanges`); that mutation then has an invalidation due, which
  it makes, or loses with its client or instance, which is a cause.
- `NoErrorAlone`, `EventIffMovedAlone`, `DeletedNotFoundAlone` are about
  `Spec /\ []OneAtATime`: any number of users, slots and instances, but one request at a
  time.
  Nothing in the code enforces that, and overlapping requests break all three
  properties (see "What holds only in part"), so the hypothesis is part of the
  statement. What a lone handler has read stays true until it writes (`InHand`); an
  update knows by its own reads whether it moved the status (`News`); and what was
  deleted has neither row nor entry (`StaysDeleted`). The first assumes no failing
  statements, and follows a null that a request assigns from the entity to the flush
  that is refused (`NullKnown`): what an entity differs in from the row is what the
  request gives, and rows hold no such null. The last assumes `NothingFails`, since an entry survives where the DEL
  fails and a failed statement answers 500, and that no id is both a project's and a
  task's. Crashes are allowed in all three.
- `LifecycleTypes`, `SingleFlight`, `PublishedQueueIsOpen`, `RedisNeverStopsStartup`,
  `ServedLeavesNothing`. The invariant ties the sockets of a concern to its promise
  (`ConcernOK`): a socket for every connect that has not failed, until the clients
  are closed. That no client is closed twice needs `toClose = enabled` while
  `shutdown()` waits, which holds because the signal cannot come before the Redis
  hook has begun.
- `QueueTypes`, `BoundedRuns`, `FailuresHaveReasons`, `CleanCloses`,
  `QueueIsEventLog`. Lists, places and locks agree after every step, so a report with
  a valid lock is about an active job; every run of a job is accounted for by a
  failed attempt, by a stall or by being the one in hand. The refinement hides all of
  it: only `Publish` and a `Report` that finishes its job are steps of `EventLog`.
- `AccountTypes`, `OwnersStay`. Every step that deletes a user or gives a project an
  owner is guarded by a foreign key evaluated in that very step.
- `UniqueEmails`. `OneUserPerEmail` speaks of addresses, the unique key of spellings.
  `EmailInv` adds that stored emails are normalized, and that while a seed has
  claimed the demo email for an uncommitted user nobody else has it.
- `DemoTouchesItsOwn`. `DemoInv` adds that a claimed id stays unused until its
  commit, that a reset works on the demo user, and that the projects it is about to
  delete are still that user's when it commits, since ownership never changes.
- `TokensNeedPasswords`. `had` remembers every email and password a row has had; the
  row a login holds while it compares is one of them (`PasswordInv`), whatever the
  table holds by then.
- `GoneUsersGet401`. A user that is gone stays gone (`GoneForGood`), because a
  registration takes a new id and a seed writes a row that is there, or one under the
  id it claimed, which is unused (`DemoInv`). So a request that came too late for its
  user is stopped at the lookup in `JwtStrategy` and at no later point
  (`TurnedAway`).
- `LeftoversAreCaused`. `KeysInv` adds that an entry, and the one a read is about to set,
  is kept under the owner of its project; `IdsInv` that the ids a command has read are
  those of the projects it deletes, but for the missed ones. So the keys a reset deletes
  are those of all entries it has orphaned.
- `DeploymentTypes`, `DemoIsConfined`, `TestsAreApart`, `PurgesReach`,
  `ClientsKeepTheirRows`. The variables never change while a deployment runs, so what a
  process or a command opens follows from the rules alone, and every kind of row has a
  database it can be in or an entry of `astray` that explains the other (`Placed`). For
  the purge, what a process under `development` has read and not yet cached is not
  purged, or is recorded as overtaken when it is; ids are not used twice, so nothing
  reads a purged project again.
- `NothingSkipped`, `NothingTwice`. The argument is about the rank of a row, the
  number of rows ahead of it in the order, which is total because the id comes last.
  While nothing leaves or moves a rank never falls, so an unseen row stays behind the
  pages read; while nothing comes or moves it never rises, so a seen row stays within
  them.
- `BoundaryImplementsListing`, `WalksAreComplete`, `WalksDoNotRepeat` carry this over
  to the whole chain. `ErrorsHaveTheContract` and `InternalErrorsHaveCauses` rest on
  an invariant of one request that follows it through the chain.

Only model-checked: the five liveness properties (`EveryRequestEnds`,
`NoHookWaitsForEver`, `NobodyWaitsForEver`, `AcceptedIsFinished`, `CloseEnds`), since fairness and
`ENABLED` are out of the prover's reach. The type invariant of `HttpBoundary` is part
of the invariant its theorems rest on. The two violations are TLC's: that
`DeletedIsNotFound` fails when requests overlap, and that `ExitIsClean` fails on a
signal during startup, are shown by a behaviour each. Facts that need induction over
data, and RECURSIVE operators, cannot be proved either; no module here uses them.

## Not modelled

- Logging, Swagger, Docker, CI and the scripts that check documentation: no state of
  the program, or not part of it.
- Token expiry, the windows of the throttler (any register request may get a 429),
  bcrypt's cost, the TypeORM pool at shutdown, CORS and helmet.
- Timestamps and values beyond equality. The bounds of each request field are one class
  of wrong values, and a request departs from a good one in one field at a time; the
  rules of the environment schema that decide nothing here are one flag (`sound`).
- Messages and details of errors, which are wording.
- Two demo commands at once; a seed of several projects (one here); tasks in
  `Accounts`, which follow their projects by cascade. The commands delete tasks by a
  statement of their own first, so a deadlock of row locks with a delete by the API,
  which PostgreSQL would end by failing one of them, does not occur here.
- How long an entry stays after its TTL: `Expire` may happen and nothing makes it.
- Two PATCHes of one project may each write back a column the other changed. Neither
  code nor documents promise otherwise, so no property speaks of it.

## Plan

Done, in this order because ownership and data come first: `Persistence`,
`ProjectDetailCache`, `ProjectTaskApi` with `PrivateBoards`, `AppLifecycle`,
`Accounts`, `TaskActivityQueue` with `EventLog`, `Deployment`, `Listing` with
`HttpBoundary`, and the theorems above.

Every safety property that a passing run checks is now a theorem; three of them, like
their run, for requests that do not overlap.

Left:

1. Several demo projects in one seed, with the keys a reset deletes for each.
2. Which of the three sequential theorems survive overlaps that do not meet in one
   project, in place of `OneAtATime`.
