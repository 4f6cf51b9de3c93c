# Verification of the tenders tracking service

TLA+ modules, TLC configurations and TLAPS proofs about the service in `src/`:
a FastAPI application that keeps tenders and the log of their status changes
in PostgreSQL, with a cache-aside copy of single tenders in Redis. They cover
the requests from the socket to the commit, and the container from its
migrations to its shutdown.

## 1. The system

### 1.1 Components

| Component | Source | State | Operations |
|---|---|---|---|
| Domain model | `app/dal/models/db_models.py`, `app/enums/tender_status.py` | rows of `tenders` and `tender_status_change_log` | the transition table `draft -> active -> won / lost` |
| Tender service | `app/services/tender_service.py` | none of its own; local variables that live across awaits | `create_tender`, `update_tender_status`, `get_tender_by_id`, `get_tenders`, `get_tender_history` |
| Unit of work | `app/dal/uow/sqlalchemy_uow.py` | the session's transaction, `_read_only` | commit, rollback, `mark_read_only` |
| Repositories | `app/dal/repositories/*.py` | none | add, get, get for update, update status, list with total, count |
| Redis cache | `app/dal/cache/redis_tender_cache.py` | one key per tender with a time to live | get, set, invalidate; a `RedisError` is swallowed, a value that does not parse is not |
| Engine and pool | `app/dal/db/database.py` | pooled connections | checkout (with timeout), return, connection check, close |
| Dependencies | `app/dependencies/app_dependecies.py` | one session, unit of work and service per request | wiring, `get_current_user_id` |
| HTTP API | `app/api/` | none | five routes, validation of DTOs |
| Exceptions | `app/exceptions/` | none | exception to status: 401, 404, 409, 422, 500 |
| Middleware | `app/middleware/` | request id in context variables, one copy per task | body limit (413), request log |
| Authentication | `app/services/auth_service.py` | none | token to user id |
| Bootstrap | `app/bootstrap/`, `app/__init__.py` | opened resources | open, publish, close |
| Configuration | `app/cofigurations/` | settings, log context | read the environment, format log records |
| Migrations | `alembic/` | the schema | three revisions, up and down |
| Process start | `run.py`, `docker-entrypoint.sh`, `docker-compose.yml` | - | migrate, then serve |

### 1.2 How they interact, and what is hard

One process runs one event loop. A request is a coroutine with a database
session and a unit of work of its own; it gives way to the others at every
`await`: each SQL statement, each `COMMIT` or `ROLLBACK`, each Redis command.
What requests share is the database, Redis and the pool of connections. So the
hard behaviours are these; `hazards` in `PROJECT.json` names them with
their lines:

* **Two updates of one tender.** The transition is judged on a row read by
  `SELECT ... FOR UPDATE`; everything depends on that lock lasting until the
  commit, on every path.
* **Row and log together.** The new status and its log entry are two flushed
  statements of one transaction.
* **Database and Redis.** Two stores and no common transaction: a get reads the
  row, ends its transaction and only then stores it, an update commits and only
  then deletes the key; a process may die between the two.
* **Uncertain commits.** `commit()` may raise after the server applied it; the
  client gets 500 and tries again.
* **Time stamps.** `now()` is the start of a transaction, not the moment of its
  change, and histories and lists are ordered by it.
* **Two statements for one answer.** An empty page gets its total from a second
  statement.
* **The pool.** A bounded number of connections, some of whose holders wait for
  row locks.
* **The context of a log record.** It is in context variables that interleaved
  requests set and clear, in three tasks per request; the handler of unexpected
  exceptions runs outside the middleware that sets them.
* **Who answers first.** Middlewares, body parsing, dependencies, validation and
  handlers may each end a request; their order is the framework's, and what
  callers may learn depends on it.
* **Migrations beside traffic.** A column becomes required while the release
  before still inserts rows without it; a start and an operator may migrate at
  a time; any statement may fail.
* **Half a start, half a stop.** A resource that does not open, a closer that
  raises, a second signal.

### 1.3 What makes each component correct

* *Domain model*: no status but along the table; nothing follows `won`, `lost`.
* *Service, write side*: no lost update; a row is exactly what its log says; an
  answer agrees with what was committed; of competing updates one wins.
* *Service, read side*: answers are committed versions; queries that are not
  cached show what was acknowledged; total and items of a page fit.
* *Unit of work*: all or nothing on each of its four exits; the connection goes
  back on each of them.
* *Cache*: never holds what was never committed; out of date only in the ways
  the design accepts, and not for ever.
* *Pipeline* (auth, validation, limits): callers without a token learn nothing;
  the limit is exact; the log of a request names it, and agrees with its answer.
* *Bootstrap*: nothing is served before all is ready; what was opened is closed.
* *Migrations*: the schema is that of its revision whatever failed; rows and
  values survive an upgrade, and what fills their gaps is there before what requires
  them; upgrades and requests take the tables in one order.

## 2. Modules

```
TenderModels            rows, statuses, transition table
  |-- TenderLedger      abstract specification of the write side
  |-- TenderStore       PostgreSQL as the repositories and the unit of work use it
  `-- TenderCache       RedisTenderCache
        TenderService          composes TenderStore and TenderCache: the requests
          TenderRequirements   the properties; Ledger == INSTANCE TenderLedger
            |-- MCTenderService        values of the constants for TLC
            `-- TenderTypeProofs       type correctness
                  `-- TenderAuditProofs    no lost update, audit trail, connections
                        `-- TenderReplyProofs   answers and the log, one winner, reads
                              `-- TenderQueryProofs   lists and histories

RequestPipeline         what a request passes before and after the service
  |-- MCRequestPipeline
  `-- PipelineProofs    records, answers, authentication, limit

Migrations              the three revisions beside a writer
  `-- Deployment        containers: migrate, configure, open, serve, close
        |-- MCDeployment
        `-- MigrationProofs       schema, refusals, upgrades keep data
              |-- LockOrderProofs     who waits for whom
              `-- DeploymentProofs    types, readiness, closing
```

**TenderModels.** `Row` has the columns that an operation changes or orders by:
status, creator, last editor and the two time stamps. Title, budget, dates and
the like are written once and read by no decision. An `Entry` of the log has the
request that wrote it in place of its random id and its free-text reason: a
request writes at most one entry. (That no reason is ever empty is a matter of
validation.)

**TenderStore.** `tenders` and `changeLog` are the *committed* rows; what a
transaction flushed is in `txn[r]` (the row it holds, the row and the entry it
will make visible) until `Commit`. This is READ COMMITTED as the code uses it:
each statement sees what is committed when it runs, and a
`SELECT ... FOR UPDATE` waits (is not enabled) while another transaction holds
the row, then sees its last committed version. The log of a tender is kept in
the order of commits; the order a query returns is computed from `changedAt` as
the code does (`HistoryInOrder`), and is not determined for equal time stamps,
where the code falls back on a random id. `clock` orders the starts of writing
transactions. A session holds a connection exactly while `txn[r] # None`.

**TenderCache.** A key holds a row or nothing. Any command may raise when
`RedisMayFail`. A key with a time to live may vanish at any time after it was
stored. `late` is a note for the properties and no action reads it. With
`Leftovers`, Redis may begin with `Foreign` values that an earlier release stored
and this one cannot parse (`updated_by` was not always in the DTO): the
`ValidationError` is no `RedisError`, and the get is answered 500
(`CacheUnreadable`).

**TenderService.** One action per await: the code between two awaits is one
step, since nothing else runs meanwhile. `pc[r]` names the statement request `r`
is about to issue:

| Code | Labels |
|---|---|
| `create_tender` | begin, insert, commit |
| `update_tender_status` | begin, lock, update, log, commit, invalidate |
| `get_tender_by_id` | lookup, begin, read, rollback, fill |
| `get_tenders` | begin, list, count (empty page only), rollback |
| `get_tender_history` | begin, read, history, count (empty page only), rollback |
| any exception inside a unit of work | rollback |

`code[r]` is the status that the exception handler gives to the outcome.
`StatementFails`, `NoConnection`, `CommitFails` (before or after the server
applied it) and `RollbackFails` are the exception paths of the unit of work,
`Crash` the death of the process: PostgreSQL rolls back, Redis keeps its keys,
requests that have not arrived yet are served by the next process.
`preceding[r]` notes, for the properties, which requests were answered before a
query came.

A request makes one call, and clients' retries are further requests with the
same call; `Calls` in the runs holds calls that compete and repeat.

**TenderLedger.** What the write side promises, with no transaction, lock, cache
or failure: creation and status change as single atomic steps, each request
at most once. `LedgerRefined` states that the service implements it, the
status of a tender being that of its committed row and its trail its committed
log.

**TenderRequirements.** The properties, each with the code behaviour it is about.

**RequestPipeline.** One request, from the socket to the access log, seen from
outside the service. `stage[r]` is where it is; a stage is left by one action:

| Code | Stage | Actions |
|---|---|---|
| `request_logging_middleware`, inwards | idle | `Receive` |
| `limit_body_size` | limit | `LimitBodySize` |
| routing, reading and parsing of the body (framework) | route | `Route` |
| `get_current_user_id`, `JwtAuthService` | authenticate | `Authenticate` |
| path, query and body models | validate | `Validate`, `RenderingDetailsFails` |
| the operation of `TenderService`, by its outcome | service | `CallService` |
| `request_logging_middleware`, outwards | complete | `Answer`, `HandleUnexpectedException` |

`StatusCode` is `GlobalExceptionHandler`; an exception without a handler goes
through both middlewares to the outermost error handler of the framework.
`context` has `REQUEST_ID_CTX` once for each of the three tasks that a request
runs in, since each `BaseHTTPMiddleware` starts the next in a task with a copy of
its variables; `set_request_context` and `clear_request_context` work on the
copy of the task they are called in. `records[r]` are the log records written for
`r`, each with the id that `RequestContextFilter` finds in its task. What one
step logs is one record: it is all written in one task. `Route` has the outcomes of
routing that differ for a property: 405 and redirects end a request where 404 does.
What the service does is in `TenderService`, and only its outcome (`Results`)
matters here; so the two models are not composed.

**Migrations.** `schema` is the committed state of each object a revision touches
and the revision in `alembic_version`; `editors` and `reasons` are the two columns
that change, per row. `CreateTables`, `AddUpdatedBy` and `RequireReason` are the
upgrades of the three revisions, statement by statement, `DropTables`, `DropUpdatedBy`
and `RelaxReason` their downgrades; `Upgrade` and `Downgrade` put them in order.
`command[c]` (a `Command`) is one run of Alembic: `env.py` runs all of its
revisions in one transaction, so its changes stay there until `CommitCommand`.
`locks` are PostgreSQL's table locks: an `ALTER`, `CREATE` or `DROP` excludes all
others from the table until the transaction ends, an `UPDATE` and a writer only
those. `WriterRow`, `WriterLog`, `WriterCommit` and `WriterFails` are `create_tender`
and `update_tender_status` of the release before, with two statements and the two
ends of their unit of work; `release` says how much of the schema it knows, and at
`Latest` it is the code of `TenderService`. Requests that only read are left out:
they change nothing, take the tables in the same order, and hold weaker locks.
`DeadlockVictim` is PostgreSQL's deadlock detector, for sets of sessions that are
`Stuck`. One log entry per tender stands for its log, since no revision compares
entries.

**Deployment.** `phase[i]` is a container: `docker-entrypoint.sh` (`Start`, `Serve`,
`StartFails`), `AppResources.create` and the exit stack (`OpenDatabase`,
`OpenRedis`, `CreateFails`), the lifespan's end (`Stop`, `Close`), and `Kill`.
`Loads` is what `Configuration` accepts. `open` and `called` are the resources that
were opened and the closers that were called, one by one in the order of `_closers`
(`IsNextToClose`). `BeginByHand` is an operator with
`alembic upgrade` or `alembic downgrade`.

## 3. Runs

The first seven use `MCTenderService`, the next three `MCRequestPipeline`, the last
two `MCDeployment`.

| Run | Checks | Instance |
|---|---|---|
| `Commands.cfg` | `TypeOK`, `NoLostUpdate`, `AuditTrail`, `ReplyMatchesLog`, `SingleWinner`, `ConnectionsReturned`, `HoldersNeverWait`, `LedgerRefined` | three requests, two tenders (one to be created), two users, two connections, database failures, one crash |
| `Cache.cfg` | `ReadsAreCommitted`, `StaleCacheExplained` | three requests, one tender, two connections, database failures, one crash, Redis answers and may hold a leftover |
| `Queries.cfg` | `QueriesSeeAnswers`, `PageFitsTotal` | three requests, two tenders, lists and histories with several limits and offsets, no failures |
| `Progress.cfg` | `EveryRequestAnswered`, `StaleHeals` | three requests, one tender, two connections, failing Redis that may hold a leftover, one crash, fairness |
| `ReadYourWrites.cfg` | `ReadYourWrites` - violated | one tender, nothing fails |
| `HistoryOrder.cfg` | `HistoryNewestFirst` - violated | one tender, nothing fails |
| `EmptyPage.cfg` | `EmptyPageIsBeyondTotal` - violated | two tenders, nothing fails |
| `Pipeline.cfg` | `TypeOK`, `RecordsNameNoOther`, `AnswerMatchesLog`, `UnauthenticatedLearnNothing`, `LimitIsExact` | three requests, each of any of the kinds `AllInputs` lists, limit 2 |
| `LostContext.cfg` | `RecordsHaveContext` - violated | as `Pipeline.cfg` |
| `InvalidBody.cfg` | `InvalidIsRefused` - violated | as `Pipeline.cfg` |
| `Deployment.cfg` | `DeploymentTypeOK`, `SchemaMatchesRevision`, `CirclesExplained`, `UpgradeKeepsData`, `UpgradeRefusalsExplained`, `ServesOnlyWhenReady`, `NothingLeftOpen`, `CommandsEnd`, `StartsAndStopsEnd` | one container in four environments, one command by hand to any revision, one writer, one tender, any revision to begin with, failures, fairness |
| `Redeploy.cfg` | `UpgradesApply` - violated | as `Deployment.cfg`, nothing fails |

**Bounds and why they suffice.** Three requests allow two that compete and a
third that observes, retries, or fails half way between them; a life cycle has
only two changes, so three updates are enough for a full life and one rejected
change. The pool has two connections where waiting for one matters (three
requests, so that it runs out), and three where it does not. One crash can
fall between any two steps. `Tenders` has two ids where creation matters: one
seeded as a draft, one free; `IdsLeft` keeps more creations from arriving than
there are ids, since `uuid4` does not run out. `MaxCrashes` bounds
`crashes`, the number of requests bounds `clock`. Safety runs use the symmetry
of the requests, which no property and no action tells apart; the run with
fairness does not use it. In `Cache.cfg` Redis does not fail, as a
failing delete is one of the accepted explanations and would hide the others; in
`Progress.cfg` it does, as liveness must hold without it.

In the pipeline, requests share nothing but the process, so that two show what
there is to see of interleaving and three leave a margin; `AllInputs` has every
outcome of each stage once, and bodies without a length, of length zero, at the
limit and one beyond it. In the deployment, each command, container and writer
is used once: a start, a migration by hand and a request in the middle of both
are the three sessions that can wait for each other in a circle. (An upgrade that
was overtaken, the third exception of `CirclesExplained`, waits in a circle only where
there are three commands; the proof does without the bound.) The one tender
is in any state its revision allows, or not yet created; rows of different
tenders are never compared. `MigrationInit` starts from every revision, so that
a start migrates three, two, one or no revisions. Everything there happens once
and is then over, so the runs do not check for deadlock; that nothing waits for
ever is what `CommandsEnd` and `StartsAndStopsEnd` are for.

**Fairness.** `FairSpec` is weakly fair to the steps of each request and to the
expiry of each key. That is: a statement or Redis command that was issued is
answered or fails, the event loop resumes ready coroutines, the pool times out
(`POOL_TIMEOUT`), and `SET ... ex` does expire (`redis_tender_cache.py:40`).
Weak fairness is enough for lock waiters because a request takes a row at most
once and there are finitely many. There is no fairness for arrivals, crashes or
for the success of anything that may fail. The Redis client is
created without a socket timeout (`resources.py:41`): that it answers at all is
an assumption here, not a fact about the code.

`Deployment.FairSpec` is weakly fair to the statements and the commit of a
command, to a writer that has begun, and to the steps of a start and of a
shutdown: PostgreSQL executes a statement that waits for no lock and finds
deadlocks, a handler goes on, a script and a coroutine run. There is none for
beginning anything, for `Stop`, `Kill`, a lost connection or a failing writer.

**What the violated runs show.** In the first three nothing fails:

1. `ReadYourWrites`: a get reads the row and ends its transaction; an update
   commits, deletes the key and is answered; the get now stores the old row; a
   second get is answered with it. It lasts until the time to live is over
   (`StaleHeals` shows that it does end), and such a late fill is, besides
   failures, the only way for the cache to be out of date
   (`StaleCacheExplained`).
2. `HistoryNewestFirst`: the second change of a tender may carry the older
   `changed_at`, because its transaction began before the first one's and got
   the row lock after it. The log itself is right (`AuditTrail`); its listing
   is not.
3. `EmptyPageIsBeyondTotal`: a tender is created between the two statements of
   an empty page; the answer has no items and a total beyond its offset.
4. `RecordsHaveContext`: the record `unhandled_exception`, with the traceback, is
   written when the logging middleware has already cleared the context, so that
   it has no request id; `RecordsNameNoOther` shows that of the records which the
   application writes for a request it is the only kind without one. (The access
   and error records of the server are written outside of the application, and have
   none either.)
5. `InvalidIsRefused`: the details of a validation error repeat the input; if that
   has a NaN in it the handler cannot render them, and the answer is 500, not 422.
6. `UpgradesApply`: the downgrade to base drops the tables but not the enum type,
   and the next `alembic upgrade head`, hence the next start of the container,
   fails on creating it. `UpgradeRefusalsExplained` shows that this, another
   command and a writer that leaves a gap behind the backfill are all that can
   stop an upgrade.

## 4. Proofs

`TLAPS` proves, for every set of tenders (finite), requests, users and calls,
every pool size, with or without failures of database and Redis and any number
of crashes:

| Theorem | States |
|---|---|
| `TypeCorrect` | `Spec => []TypeOK` |
| `LocksPreventLostUpdates` | `Spec => []NoLostUpdate` |
| `LogIsHistory` | `Spec => []AuditTrail` |
| `PoolIsNotDrained` | `Spec => []ConnectionsReturned` |
| `WaitingIsNotCircular` | `Spec => []HoldersNeverWait` |
| `RepliesAreTrue` | `Spec => []ReplyMatchesLog` |
| `OneUpdateWins` | `Spec => []SingleWinner` |
| `ServiceImplementsLedger` | `Spec => LedgerRefined` |
| `ReadsSeeCommitted` | `Spec => []ReadsAreCommitted` |
| `StaleOnlyAsAccepted` | `Spec => []StaleCacheExplained` |
| `PagesFitTheirTotals` | `Spec => []PageFitsTotal` |
| `QueriesCountAnswers` | `Spec => []QueriesSeeAnswers` |

and of the pipeline, for any number of requests, any inputs, client ids and limit:

| Theorem | States |
|---|---|
| `PipelineTypeCorrect` | `Spec => []TypeOK` |
| `ContextsStayApart` | `Spec => []RecordsNameNoOther` |
| `CompletionsAreLogged` | `Spec => []AnswerMatchesLog` |
| `AuthenticationComesFirst` | `Spec => []UnauthenticatedLearnNothing` |
| `LimitHolds` | `Spec => []LimitIsExact` |

and of the migrations and the containers, for any number of tenders, containers,
commands by hand, writers and environments, with or without lost connections:

| Theorem | States |
|---|---|
| `CommittedSchemaIsARevision` | `Spec => []SchemaMatchesRevision` |
| `OnlyKnownCircles` | `Spec => []CirclesExplained` |
| `RefusalsOfUpgrades` | `Spec => []UpgradeRefusalsExplained` |
| `UpgradesFillGaps` | `Spec => UpgradeKeepsData` |
| `DeploymentTypeCorrect` | `Spec => []DeploymentTypeOK` |
| `ServingContainersAreReady` | `Spec => []ServesOnlyWhenReady` |
| `EverythingIsClosed` | `Spec => []NothingLeftOpen` |

with `MigrationInvariant` and `DeploymentInvariant`, the inductive invariants they
rest on. So every invariant and every action property that a passing run checks,
and the refinement, is proved.

**Assumptions**, each named in the module that declares its constants and
evaluated by TLC in every run: `Tenders` is finite (so that a total is a
number), `None` is no row, entry, id, user, status, transaction, page or
cached value, `Foreign` is neither a row that can be read nor `None`, `Calls` are validated calls, `Seeded` are tenders and `Seeder` a
user, the failure switches are booleans, the pool has room for one connection. In
the deployment, commands and writers are different sessions, every container has
a command of its own, and `None` is no value of a row, no writer and no command.
`Requests`, containers, commands and writers need not be finite.

**Type correctness.** `TypeOK` is not inductive: `Commit` writes `txn[r].row`,
a row only because no request gets to `commit` without having written one.
`Stages` says, label by label, which operation can be there, whether it has a
transaction and what is in it; `TypeInv == TypeOK /\ Stages` is inductive, one
lemma per action. `ConnectionsReturned` follows from it.

**Audit.** `AuditInv` adds `RowsHeldOnce` (no two open transactions hold one
row), `WriteSets` (an update works on the committed row, has judged the
transition on it, and has gathered just the row and the entry that belong to
it) and `AuditTrail`. `RowsHeldOnce` is what the row lock is for: it is the
reason why no commit changes a row under a request that has read it
(`AuditCommit`). `ChangeExtendsLifecycle` is the lemma about the transition
table: an allowed change after the last entry of a life cycle makes a longer
one. `NoLostUpdate` and `AuditTrail` follow. `HoldersNeverWait` is inductive with
`TypeInv`: it is what `EveryRequestAnswered` rests on, and that can only be checked.

**Answers.** `ReplyInv` adds `OwnEntries` to `AuditInv`: a request has an entry in the
log only if it is an update of that tender and came past its commit
(`EntryIsOwn`); by then it is on its way to an answer that fits (`ReplyIsTrue`).
That it stays true rests on `HistoryKept`: no step takes anything away from a
log, or changes the creator of a row. `RepliesAreTrue` is a consequence, and
`OneUpdateWins` follows from it and the shape of a life cycle: two winners of one
step would share their entry.

**The ledger.** `OnlyCommitsWrite` shows that every step but a commit leaves the
committed rows and logs alone: it is a stutter of the ledger. The commit of a
creation is `Ledger!CreateTender` (`CreateInLedger`), that of an update
`Ledger!UpdateTenderStatus` (`UpdateInLedger`): the transition is allowed because of
`WriteSets`, and the request has not been used because of `EntryIsOwn`.

**Reads.** `ReadInv` adds that cached rows and the rows of gets are versions of
tenders that exist, and `StaleCacheExplained`, which needs just that: the only
request with an entry that becomes answered 200 in a step is one that deletes
the key in it (`OnlyInvalidationAnswers`), and a commit that makes a value stale
is not an answer.

**The pipeline.** `PipelineInv` is, request by request, what holds at its stage:
which tasks have its context, and that it is its own (`ContextInv`); what it
must have passed to be there (`PassedInv`); whether it has a reply, and which
(`ReplyInv` of `PipelineProofs`); and what is in its log (`LogInv`). A step of one
request leaves all that is said of another alone, which is the point of
`ContextsStayApart`.

**Lists and histories.** `QueryInv` adds to `ReplyInv`, for each query, that its page
is true from the moment its total is counted (`PageIsTrue`) and that all it was
preceded by is done (`PrecedingDone`), so that what it has to count no longer
changes (`ToldStays`). At the count, each update answered 200 has an entry of its own
by `ReplyInv`: its place in the log is an injection, hence the log is at least as
long as the answers are many (`LogCountsAnswers`). A creation leaves no such mark, so
`CreationsExist` counts them: a creation is answered 201 only in the step that adds
its tender, and no step takes one away. A commit that failed may add a tender
nobody was told of, hence "at least". `PagesFitTheirTotals` is about the page alone:
`PageOfFits` says of LIMIT and OFFSET what they do to a sequence, and
`SelectedLength` that the sequence is as long as what is selected. What a page
without items says of its total is what `EmptyPage.cfg` refutes.

**The migrations.** None of the properties is inductive: that the schema is that of a
revision when a command commits is so because of where the command is in its
scripts, and that nothing came between is a matter of locks. `MigrationInv` is the
conjunction of

* `Exclusion`: no two sessions hold locks that conflict;
* for each running command, `Placed` (its position is one of the scripts between its
  revision and its target), `Locked` (it has a lock for each object and each table it
  has changed; it has changed the version only if it holds it, and then the
  committed revision is still the one it began with), `OnCourse` (what it has made
  of the schema it began with is what its position calls for) and `Filled` (gaps it
  has filled are filled; before the constraint on reasons, only a writer's commit
  has left new ones; an upgrade has only filled gaps, a downgrade to base has
  emptied both tables);
* for each writer, `Fitting`: the row it is about to commit fits the schema, which
  cannot change under its lock;
* `SchemaMatchesRevision`, `EntriesHaveRows`, and `RowsFitSchema`, which is what
  PostgreSQL itself sees to and the other conjuncts need.

The interesting step is the commit of a command that another one could have
overtaken. The stamp locks the version last; it is refused if the committed
revision is not the one the command is at, and nobody can change that afterwards
(`Locked`). So whoever commits a change of the revision commits the schema it saw,
and whoever was overtaken is refused. The other one is the commit of a writer
between the `UPDATE` and the constraint on `update_reason`: both share the lock, and
`AboutToRequire` keeps count of the gaps that this can open, which are then what
PostgreSQL refuses the constraint for (`RefusalsOfUpgrades`). `Filled` and `OnCourse`
are stronger than what the runs state; TLC checked each conjunct on the instance of
`Deployment.cfg`, and on two containers beside a command by hand, before it was
proved.

**Who waits for whom.** `LockOrder` is inductive with `MigrationInv` and says what a
session holds while it waits: a command nothing before its first statement, an
upgrade from `023e8e649151` only the log before its stamp, a writer that has not come
to the log only tenders. An upgrade from before has the whole table of tenders from
its first statement on (`HoldsTenders`), so that no one else in a circle would hold
anything. In `NoOtherCircles` this leaves the two upgrades that share the lock of the
`UPDATE` of the log. The exception for commands that were overtaken came out of the
proof: an upgrade may have the log, and wait for the version, while the revision was
taken back under it and another upgrade, from there, has the version and waits for the
log.

**The containers.** `DeploymentInv` says what each phase has opened and closed
(`Shape`), that a container which opens or serves has a committed command and an
environment that loads (`Ready`), and that once its command is over the revision is
the head unless a command by hand moved it (`Heads`): a command of a container
never leads away from the head, so only an operator's can have, and then it is the
one that left the revision where it is.

**Only model-checked**: `EveryRequestAnswered`, `StaleHeals`, `CommandsEnd` and
`StartsAndStopsEnd`. They are liveness under fairness, which needs `ENABLED` and is
beyond this prover.

## 5. Not modelled

* The bytes of tokens, JSON and log records, the fields of DTOs and their
  limits: a body is valid or not. PyJWT, Pydantic, Starlette, SQLAlchemy,
  Alembic, redis and PostgreSQL beyond what the code relies on.
* The format of log records and the rotation of files (`logger_config.py`): layout
  and I/O. Its context variables and filter are in `RequestPipeline`.
* The offline mode of Alembic, which only prints SQL, and the reload mode of
  `run.py`, which is for development.
* An earlier release that still fills the cache while this one serves:
  `Leftovers` are there from the beginning or not at all.
* A Redis that never answers. The client has no socket timeout, so requests
  would wait with it; the fairness of `TenderService` excludes it.
* Cancellation of a handler: the framework lets it run to its end when a client
  goes away.
* More than one process serving requests in `TenderService`. Requests of two
  processes interleave as those of one do, but a crash would take only some of
  them. `Deployment` allows any number of containers.
* Indexes and column types that no statement of the program can violate.

## 6. Plan

All the modules that were planned are there, and all that they state of safety is
proved. What is left:

1. The hazard without a property: a Redis client without a timeout.
2. More than one process in `TenderService`, so that a crash takes only some of the
   requests.
