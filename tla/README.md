# Posta, verified

TLA+ models of Posta's event pipeline, the TLC configurations that check them on
small instances and the TLAPS proofs of what holds for every instance. Paths below
are relative to the repository; `flush.ts` and the like are under
`apps/worker/src`.

## The system

Posta is a link shortener that counts clicks. A visitor asks the **api** for a slug;
the api resolves tenant and link (process memory, then Redis, then Postgres),
answers with a 307 and only then enqueues a *capture event*. The **worker** drains
that queue: it collects events into batches, writes each batch to R2 as one NDJSON
object (the *event log*, source of truth) and only then to Postgres (a rebuildable
*projection*). What cannot be written goes to a dead-letter queue. A replay CLI
rebuilds the projection from the log.

| Component | State | Operations | Talks to | What makes it correct | Model |
|---|---|---|---|---|---|
| Flush: `batch/flush.ts`, `r2-retry.ts`, `split-retry.ts`, `classify-flush-error.ts`, `app.module.ts` | the batch being tried, attempt counters, sub-batches to do, isolated poison | read destinations, PUT with retries, INSERT, retry, split, isolate, reject, dead-letter | R2, Postgres, DLQ, link table | Postgres never ahead of the log; no event lost by a resolved flush; a bad row costs one row; a row says what its object says; it ends | `BatchFlush`, refining `FlushContract` |
| Intake: `consumer/events.consumer.ts`, `batch/accumulator.ts`, `consumer/shutdown.ts` | calls in flight, open batch, batches in flight, drain progress | `process`, `onFailed`, `add`, count / interval / manual trigger, `drain` | BullMQ, the flush, DLQ | acknowledged only when durable; nobody waits for ever; a drain ends and leaves nothing behind | `EventsConsumer`, refining `Delivery` |
| Dead letters: `consumer/dlq.service.ts`, `packages/contracts/src/redact.ts` | the DLQ, time of the last sweep | `send`, redaction, throttled retention sweep | Redis | no forbidden value is stored; nothing leaves before its window | `Redaction`, `DeadLetters`; its callers in `EventsConsumer`, `BatchFlush` |
| Redirect: `apps/api/src/redirect/middleware.ts`, `host.ts`, `capture.ts`, `redirect-response.ts`, `enqueue.ts` | requests under way, adds in flight, counters | routing, lookups, response, capture, `enqueueCapture` | the caches, the salt, BullMQ | only what a tenant may own is looked up; 307 before capture; every visitor answered; the cap neither leaks nor overflows | `RequestTarget`, `Redirect` |
| Daily salt: `packages/core/src/redis/salt.ts` | one promise per UTC day and process, one Redis key per day | `getDailySalt` | Redis | one hash per visitor and day, none across days | `DailySalt` |
| Tenant ladder and link cache: `redirect/resolve-tenant.ts`, `resolve-link.ts`, `resolve-redis.ts`, `packages/core/src/redis/invalidate.ts` | memo (60 s), Redis entry (1 h) or tombstone (60 s), writes under way | lookup, backfill, tombstone, invalidation | Redis, Postgres | staleness bounded by the sum of the tiers; a lookup ends | `CacheLadder` |
| Event log: `packages/core/src/r2` | R2 objects | `eventBatchKey`, `eventPrefixes`, `streamEventLog` | R2 | an object is never replaced by another; the prefixes of a range are its days | `BatchFlush`, `Replay` |
| Replay: `apps/worker/src/cli/replay*.ts` | page, buffer, counts | refuse, dry run, replay, report | R2, Postgres | exit 0 means rebuilt; rows come from the log; the report is exact | `Replay` |
| Partitions: `packages/core/src/db/partitions.ts`, `apps/worker/src/partitions/` | months that have a partition, default partition, gauge | `ensurePartitionsAhead`, count | Postgres | a row of a month that was provided for is in its partition | `Database` |
| Migrations: `packages/core/src/db/sql-migrate.ts`, `migrate.ts`, `migrate-down.ts` | files, tracking table, schema | up, down | Postgres | the tracking table tells the truth; an applied file is never replaced | `Database` |
| Health: `health.controller.ts` | none of its own | `getHealth` | queue, DLQ, accumulator | unhealthy only if wedged | not modelled |
| Tenant scoping, enrichment, geoip, schemas, env, web | | | | | not modelled, or where they are called |

Hard behaviours: jobs whose lock expires while their `process()` still runs; a flush
whose answer is lost; two flushes over the same events; shutdown while batches are in
flight; caches filled by fire-and-forget writes that race an invalidation; day and
month boundaries. `PROJECT.json` lists each at its line.

## The models

### `BatchFlush`

`flushWithSplitRetryAndPoisonDlq`, the function `buildProductionFlush` builds, with
any number of calls in progress. One action per step between two `await`s:

| Code | Actions |
|---|---|
| `flushBatch`: `resolveDestinationsByLinkIds` | `ReadDestinations`, `ReadFault` |
| `retryR2Put` around `putEventBatch` | `PutOk`, `PutFault` (with or without effect, retryable or not) |
| `sendR2PutFailureToDlq` | `DlqBatch`, `DlqBatchFault` |
| `insertEventsBatch` | `InsertOk`, `InsertRefused` (SQLSTATE 22/23), `InsertFault` (with or without effect) |
| `attemptBatch` | `Retry`, `Reject`, `Isolate`, `Split` |
| `sendPoisonEventsToDlq` | `SendPoison`, `SendPoisonFault`, `Resolve` |
| the process, the link's owner | `Kill`, `EditLink` |

`attemptBatch` recurses left before right, and only then returns. That is kept as a
set `pending` of slices of the batch, of which the leftmost is being tried; a slice
carries the suffix of its batch id (`.0`, `.1`). An event is its id, an object its key,
its set of events and the destination they carried; all events of a batch share one
link. A poison event is one Postgres always refuses; backoff delays are left out.
`retryR2Put`'s and `attemptBatch`'s counters are kept.

`pg` is a set of rows, and the primary key is `Insert`'s own filter (`ON CONFLICT DO
NOTHING`): that an event has one row is taken from Postgres and is no property of the flush.
What is the flush's own doing is `InsertedAsLogged`: rows are made before the PUT, from the
same destinations as the object.

`FlushContract` is all that the intake relies on of a flush: a call secures some of its own
events at a time, in both stores or as dead letters; what is secured stays so when the call
rejects or dies; and it resolves when every one of its events is secured. `BatchFlush!Contract`
maps it, and `KeepsContract` is the refinement. `EventsConsumer` below models a flush by no
more than this.

### `EventsConsumer` and `Delivery`

The queue, the worker processes and the flush reduced to `FlushContract`: event by event
a flush stores or dead-letters, and then it resolves or rejects.

| Code | Actions |
|---|---|
| `enqueueCapture` | `Enqueue` |
| BullMQ, outside the repository | `Fetch`, `StallAbandoned`, `StallRunning`, `MoveToCompleted`, `MoveToFailed` |
| `process`, `AccumulatingEventSink.handle`, `add` | `Process` (with `Add`, `Detach`) |
| `routeToDlq`, `onFailed` | `RouteToDlq`, `OnFailed` and their faults |
| interval timer | `TimerFires` |
| `runFlush` | `FlushStores`, `FlushDeadLetters`, `FlushResolves`, `FlushRejects` |
| `onModuleDestroy`, `drain`, `withTimeout` | `Sigterm`, `DrainFlush`, `DrainDone`, `DrainTimesOut` |
| `useProcessExit`, crash, restart | `ProcessExit`, `Sigkill`, `Boot` |

BullMQ is modelled from what the comments of the consumer and of `shutdown.ts` verify
of it: one lock per active job, completion and failure only under the lock, a
`failed` event on every failed attempt, and a job whose lock expired more than
`maxStalledCount` times (default 1; the worker does not set it) failed when it is
fetched next, without `process()`. The backoff before a retry is a job that waits a
little longer. Not modelled: a job delivered again to a worker that still runs its
first call (`Fetch` asks for `call[w][j] = "none"`; the two flushes such a job can
cause are `BatchFlush`'s overlapping calls), and, here, DLQ entries removed by the
retention sweep (`DeadLetters`). A dead letter written by the flush is `"flush"`
whichever of the two reasons it had.

`Delivery` is at-least-once delivery in four actions: accept, secure, acknowledge,
park. `EventsConsumer!Promise` maps it: *durable* is stored or dead-lettered, *acked*
is completed, *parked* is failed. `KeepsPromise` is the refinement.

### `CacheLadder`

One cache key (a handle, or a slug of a tenant), the row behind it, and the lookups of
several processes.

| Code | Actions |
|---|---|
| `resolveTenant`, `resolveLink` | `Begin` (the memo answers, or a GET is sent), `Get`, `Hit`, `Miss`, `ReadRow`, `RowArrives`, `QueryFails` |
| `withRedisTimeout` and the `catch` of the GET | `GiveUp` |
| `rememberInMemo`, `isExpired` | `Remember`, `Evict`, `Older` |
| `backfillHandleCache`, `backfillLinkCache`, tombstones: a SETEX nobody awaits | `Backfill`, `Tombstone`, then `SetEx` or `SetExFails` at any later moment |
| `invalidateHandle`, `invalidateLink` after an edit | `Edit`, `Invalidate` |
| Redis, restarts, the clock | `RedisForgets`, `Corrupted`, `Restart`, `Tick` |

Time is relative: an entry has ticks left, and a value an age since it was last the
row's. `MaxLag` bounds how long a row or a SETEX can be under way. The code has no such
bound, and a staleness bound exists only relative to one. Which of the two ladders the
key belongs to (`kind`) is chosen at the start. A handle and a slug differ in the memo and
in the payload that may be refused (`parseCachedLink`).

### `RequestTarget`, `DailySalt`, `Redirect`

`RequestTarget` has the pure functions of a host, a path and two headers: `host.ts`,
`buildLinkUrl`, and the address reading of `capture.ts`. A host is a sequence of labels, a
path a sequence of tokens, some of them percent-encoded. `NamesALink` says independently
of the router what it is to ask for a link.

`DailySalt` has the promises of `getDailySalt` in several processes with their own clocks,
and the one Redis key per day. `Redirect` extends both and adds the requests:

| Code | Actions |
|---|---|
| `createRedirectMiddleware`, `parseRequestTarget` | `Arrive` |
| `resolveTenant`, `resolveLink` (their inside is `CacheLadder`) | `ResolveTenant`, `ResolveLinkMisses` |
| the open-redirect guard, `sendLinkRedirect`, the capture up to its `await` of the salt, in one synchronous step | `ResolveLinkHits` |
| the capture after the `await`, `enqueueCapture` | `SaltArrives` |
| the add and its `.finally()` | `AddReaches`, `AddSettles` |
| `getDailySalt`, SET NX, GET, fallback | `GetDailySalt`, `SetSalt`, `GetSalt`, `FallBack` |
| midnight, the key's expiry, a Redis that restarts empty | `Midnight`, `Expire`, `RedisForgets` |
| a process dies | `Crash` |

An event is the salt its visitor hash was made with, and whether that salt came from Redis.

### `Replay`

The log, the rows, and several invocations of the tool: `Start` with every way it refuses
its arguments or environment, `ListObjectKeys` page by page, `GetObject`, `ReadRecord`,
`FlushBuffer`, `Finish`, and `Fault` anywhere. Beside them the live flush goes on (`Put`,
`PutAgain`, `Insert`) and the rows are lost (`Lose`). A record is good, refused by Postgres (an
older writer's, without a column), or not JSON.

What the next try of a flush does to the log is `PutAgain`: the destinations are resolved
anew and the object is PUT again under its key (`flush.ts` 549-565, finding 1). So `says`, the
records of an object as they are now, may change between the moment a run reads them and the
moment it inserts them, or between the INSERTs of two runs; `said` keeps all that an object
has ever said, and `RowsComeFromTheLog` is stated of that. The events of an object never change
(`BatchFlush`: `LogKeepsEveryEvent`), and the objects that are `Archived` from the start are
those that no flush writes any more.

### `Database`

The five hand-written migrations, what each of them creates, and who changes it:

| Code | Actions |
|---|---|
| `runSqlMigrations` | `MigrateBegins`, `Check`, `Apply` (SQL and tracking row, one transaction), `MigrationFails` |
| `downSqlMigration`, `findNewestRevertibleMigration`, `001_events.down.sql` | `MigrateDownBegins`, `RevertChecks`, `Revert` |
| `processPartitionMaintenanceJob`, `ensurePartitionsAhead`, `countDefaultPartitionRows` | `JobBegins`, `JobCreates`, `JobCounts`, `JobFails` |
| the flush's INSERT, an operator, the calendar | `InsertRow`, `Truncate`, `MonthPasses`, `EditFile` |

`migrate` may run twice at once, as the primary key of the tracking table is there for;
`migrate:down` is a person's command and runs alone. `001_events.down.sql` looks for rows in
one statement and drops the table in the next (`RevertChecks`, `Revert`): INSERTs go on in
between, while what needs the table's lock (`Truncate`, `JobCreates`) waits. In the repository only tests start the
maintenance job (`startPartitionMaintenanceJob` has no other caller, though
`docs/plan/01-data-model.md` (154) has it run daily), so the model forces it nowhere.

### `Redaction` and `DeadLetters`

`redactForbiddenKeys` on a heap of JavaScript values, in which a value may be reached
twice or reach itself. The copy it returns is the set of its ends: the path to each, and what
stands there, a kept leaf or one of the three placeholders. `redactNode` is a recursive
function of its calls (value, depth, ancestors). And `DlqService.send` with the sweep that
follows: the add, its failure with or without effect, the throttle, which is the process's
and is lost with it, and the limit of one sweep. `depth()` only reads.

## The runs

All take from seconds to three minutes on two cores.

| Run | Instance | Shows |
|---|---|---|
| `batch_flush` | 1 call, batches of 1 to 5 events with poison alone, among healthy events or in both halves, one batch with an event twice; 2 attempts each, 3 faults, 1 edit | `PoisonCostsOneRow`: a flush that resolved lost nothing. `PoisonIsProven`: no outage is taken for poison, and a poison record is in the log. `LogKeepsEveryEvent`: no object ever loses an event. `EveryStepAdvances`: no step repeats what was tried. `EveryFlushSettles`: only an outage rejects |
| `batch_flush_overlap` | 2 calls over `<<e1,e2,e3>>` and `<<e3,e1>>`, 2 faults, 1 edit | `RowsAreLogged`; `InsertedAsLogged`: a row is inserted with what its object says; `KeepsContract` (refinement of `FlushContract`) |
| `batch_flush_host` | 1 call, 1 fault, 1 edit | violated: see findings |
| `events_consumer` | 1 worker, 3 jobs (1 malformed), batch size 2, concurrency 2, 2 attempts, 1 fault, 2 stops | `AckedIsDurable`, `WaitersAreHeld`, `DrainLeavesNoBatch`, and the liveness properties `DrainTerminates`, `EveryJobSettles` |
| `events_consumer_workers` | 2 workers, 2 jobs (1 malformed), 2 faults, 2 stops | `KeepsPromise` (refinement of `Delivery`) and `ExhaustedIsOver` |
| `cache_ladder` | 1 process, 2 lookups, 1 tenant or destination and its absence, 1 edit, TTLs of 2, 1 and 1 ticks, lag 1 | `ServedFresh`: nothing older than the sum of the tiers is served. `InvalidationHolds`: only a write that was under way survives an invalidation. `LookupsEnd` |
| `redirect` | 2 requests of 45 shapes, 2 processes, 2 days, memo of 1, cap of 1, 1 crash | `LookupIsDeserved`, `CapturedWasRedirected`, `CapIsTight`, `UniquesCountOnce`, `NoLinkAcrossDays`, and the liveness property `EveryVisitorAnswered` |
| `replay` | 2 runs of 9 invocations, 4 objects over 3 days, one of them a batch that ended after midnight, one event in two of them with two destinations, one object that the live flush writes and overwrites, one record that lacks a column and one that is not JSON, pages of 1, batches of 2, 1 loss | `ReplayRebuilds`, `RowsComeFromTheLog`, `ReportIsExact`, `WritesWhatWasAsked`, `EveryStepAdvances`: nothing is read twice, and the liveness property `ReplayEnds` |
| `upkeep` | 2 runners, 2 months and 1 ahead, 1 edit of `003`; 3 dead letters, retention 2, throttle 1 | `TrackedIsApplied`, `AppliedIsNeverEdited` (two runners past the SELECT are told apart by the primary key of `_posta_sql_migrations` alone: an upsert in its place would break it), `RowsLandInTheirMonth`; `NoForbiddenValueStored`, `KeptForTheWindow` |
| `consumer_slow` | 1 worker that stops twice | violated: see findings |
| `replay_range` | as `replay`, 1 run of the day on which the batch ended | violated: see findings |
| `partition_alert` | as `upkeep` | violated: see findings |

**Bounds.** Five events make the recursion three levels deep with odd sizes on both
sides, which is every shape of `Math.ceil(n / 2)`; two attempts are the fewest for
which "retry" and "the last attempt" differ; three faults allow an exhausted PUT and
one more failure after it. In `EventsConsumer` a batch size of 2 with 3 jobs gives a
full batch, a partial one and two in flight at once; two stops are a crash during the
recovery from a crash; two failed attempts exhaust a job. `MaxFaults`, `MaxEdits`,
`MaxStops` bound the environment and nothing else. Workers and calls are interchangeable,
and the runs without liveness use that symmetry.

In `CacheLadder` two lookups are a late write and the reader it deceives; a memo shared by
both is the worst case for staleness, so one process is enough, and the TTLs are the smallest
that differ from each other and from the lag. `MaxAge` caps ages one tick above the greatest
bound. `Redirect` needs two requests to compare two hashes or to contend for a slot, two
processes to disagree about a salt or a date, and a crash to lose a memo; `MCRedirect` lists
each host, path and header that takes a branch once. In `Replay` the second run is a
repetition, a rival or a different range; a page of one object makes every listing have a
next page, and a batch of two has a full and a partial buffer. `Database` has two months to
be late by one; editing `003` is enough as no file is treated apart by the checks of the
runner. `Database` and `DeadLetters` share no state, so that `MCUpkeep` runs one or the other.

**Fairness.** `BatchFlush`: a running call keeps running, since each of its awaits ends
with an answer or an error; nothing is assumed about which. `EventsConsumer`: a worker
that can do something does (its event loop turns, timers fire, Kubernetes restarts a
pod), and BullMQ notices a lock nobody renews. No fault, no stop and no shutdown
timeout is assumed, so `DrainTerminates` holds without the timeout's help. `CacheLadder`:
the timer of a lookup fires and Postgres answers or fails; nothing is assumed of Redis.
`Redirect`: lookups end, as `CacheLadder` shows; nothing is assumed of the salt or of the
queue, which is the point of `EveryVisitorAnswered`. `Replay`: a run that did not end goes
on (its awaits settle); the live flush need not, and cannot keep a run busy for ever because
the keys of a day are read in order. `Database` and `DeadLetters` have no liveness property.

Every property has a mutant of the code's definitions under which TLC finds it
violated; the operators commented `Bug:` are those.

## The proofs

`BatchFlushProofs` proves, for any events, any poison among them, any set of batches,
any number of calls and any bounds:

| Theorem | States |
|---|---|
| `TypeCorrect` | `Spec => []TypeOK` |
| `Invariance` | `Spec => []IInv` |
| `LogLeads` | `Spec => []RowsAreLogged` |
| `InsertsWhatItLogged` | `Spec => InsertedAsLogged` |
| `PoisonProven` | `Spec => []PoisonIsProven` |
| `ResolvedLosesNothing` | `Spec => []PoisonCostsOneRow` |
| `LogIsKept` | `Spec => LogKeepsEveryEvent` |
| `Implements` | `Spec => KeepsContract`, the refinement of `FlushContract` |
| `RecursionEnds` | `Spec => EveryStepAdvances` |

from the assumptions the module states: poison events are events, a batch is a
non-empty sequence of events, the attempts are at least 1 and the bounds are naturals.

None of these but the types is inductive. A PUT replaces whatever object has its key,
so "every row's event is logged" survives only if no PUT can hit a foreign object.
`IInv` therefore says, call by call: the pending slices are disjoint (`Slices`); no
pending id is another's or derived from it, and any object at or under a pending id is
that sub-batch's own (`Ids`); the object of the sub-batch in its INSERT is there
(`Written`); a row fault means that the slice holds poison (`Blamed`); an isolated event
is poison and logged (`Isolated`); and every event of the call is in a pending slice,
isolated or accounted for (`Covered`). That splitting preserves `Ids` rests on four
lemmas about ids as sequences over {0, 1} (`UnderHalf`, `OverHalf`, `HalvesApart`,
`AboveEachOther`), and that it preserves `Covered` on the two halves covering the whole.

`Implements` reads the contract off the invariant: whatever a call adds to Postgres or to the
queue is of its own slices or isolated events (`CallWrites`), a row's event is in the log
already (`RowsAreLogged`), so that one INSERT is one securing step, and a call that resolves
has nothing pending or isolated, so that `Covered` leaves every event accounted for.

`InsertsWhatItLogged` takes one more invariant, `Agrees`: while a sub-batch is in its INSERT,
the object under its key holds its events with the destination that its rows have. Other
calls PUT under keys of their own (`Ids`), and the same call resolves anew only when it begins
the next try, with a PUT before the next INSERT.

`RecursionEnds` is the safety half of termination. The place of a call is the tuple of where
the slice being tried begins, how short it is, the attempt, the stage of the attempt and the
attempt of the PUT; every step goes up in the lexicographic order (`Lexicographic`), or on to
the poison events, or takes one of these away, or ends the call. Each component is bounded, so
a call that is kept running settles. A half that is as long as its parent would break it.

`EventsConsumerProofs` proves, for any workers and jobs, any malformed jobs among them,
any batch size, concurrency, attempts, `maxStalledCount` and bounds:

| Theorem | States |
|---|---|
| `TypeCorrect` | `Spec => []TypeOK` |
| `Invariance` | `Spec => []IInv` |
| `AckIsDurable` | `Spec => []AckedIsDurable` |
| `ExhaustedOver` | `Spec => []ExhaustedIsOver` |
| `WaitersHeld` | `Spec => []WaitersAreHeld` |
| `DrainLeavesNone` | `Spec => DrainLeavesNoBatch` |
| `Implements` | `Spec => KeepsPromise`, the refinement of `Delivery` |

from the assumptions of the module: malformed jobs are jobs, `None` is no worker, batch
size, concurrency and attempts are at least 1 (the code throws otherwise), the limits are
naturals. That a job is acknowledged only when durable is not inductive: the call that
returns was woken with its whole batch, so its event must have been in *that* batch, and
the batch must have had nothing left to do. `IInv` has, for each worker, `Waiters` (a call
awaits exactly when its event is in one of the worker's batches, and batches are disjoint),
`Progress` (what a flush has not left to do is durable) and `Calls` (a call that returned
belongs to a durable job, one that is being dead-lettered as exhausted to a failed one);
and for the queue, `Locks` (a job is locked while active, and only a job with attempts
left can become active). The step lemmas fall into three shapes: a step moves one call and no
batch (`CallMoves`), moves batches of one worker and no job (`LocalStep`), or moves the
queue alone (`QueueKeeps`); the other workers are carried along by `OtherWorkersKeep`.
`Implements` maps `Enqueue` to `Accept`, whatever writes an event or a dead letter to
`Secure`, `MoveToCompleted` under the lock to `Acknowledge`, a final `MoveToFailed` to
`Park`, and everything else to a stutter.

`DatabaseProofs` proves, for any runners, months, files edited and bounds:

| Theorem | States |
|---|---|
| `TypeCorrect` | `DbSpec => []DbTypeOK` |
| `Invariance` | `DbSpec => []IInv` |
| `TrackingIsTrue` | `DbSpec => []TrackedIsApplied` |
| `RowsAreFound` | `DbSpec => []RowsLandInTheirMonth` |
| `NeverReplaced` | `DbSpec => AppliedIsNeverEdited` |

`IInv` adds that a rollback runs alone and takes `002` before `001` (`RevertsAlone`: else
`001` would leave a tracked index without its table), that a month with a partition has no
row in the default partition (`DefaultIsApart`), that promised months have one
(`PromisedIsThere`), and that a job has made every month up to its offset unless the table
was dropped under it (`JobProgress`).

`CacheLadderProofs` proves, for any processes, lookups, values, durations and edits:

| Theorem | States |
|---|---|
| `TypeCorrect` | `Spec => []TypeOK` |
| `Invariance` | `Spec => []IInv` |
| `NothingStaleIsServed` | `Spec => []ServedFresh` |
| `OnlyLateWritesSurvive` | `Spec => []InvalidationHolds` |

from the assumptions that the durations are naturals, the TTLs positive, and `MaxAge` above
every bound. The argument is an accounting of time: wherever a value is (under way from
Postgres, in a SETEX, in Redis, in a reply, in the memo), its age and the ticks it has left
there add up to at most a bound, each the one before plus the tier's own (`WritesAgeInTime`,
`RedisAgesInTime`, `AgesInTime`, `MemoAgesInTime`). A tick moves one from the second to the
first, and a step to the next tier cashes in what is left.

`RedirectProofs` proves, for any finite set of requests, any visits, processes, days, memo
size, cap and crashes:

| Theorem | States |
|---|---|
| `TypeCorrect` | `Spec => []TypeOK` |
| `Invariance` | `Spec => []IInv` |
| `RedirectedFirst` | `Spec => []CapturedWasRedirected` |
| `CapHolds` | `Spec => []CapIsTight` |
| `OneHashADay` | `Spec => []UniquesCountOnce` |
| `NoLink` | `Spec => []NoLinkAcrossDays` |

A request under way belongs to a process that lives (`Lives`), so that a crash takes the
slots with the requests that hold them. On one process a date is fetched once, although the
memo evicts: while the date is today's its promise is memoized, and it never is today's
again (`FetchedOnce`). So a living process still holds the salt of every event it made
(`SaltIsHeld`), and those of one life agree (`SaltOfOneLife`). Every salt was drawn for one
date, whoever holds it (`SaltOfOneDate`, a function from salts to dates that grows with each
draw). And for each date that Redis did not lose there is one salt that all who asked share:
if the key is gone, either nobody has asked yet or the date is over and nobody can set
another (`SaltIsShared`).

`ReplayProofs` proves, for any runs, any requests, any finite log, and any page, batch and
range:

| Theorem | States |
|---|---|
| `TypeCorrect` | `Spec => []TypeOK` |
| `Invariance` | `Spec => []IInv` |
| `Rebuilds` | `Spec => []ReplayRebuilds` |
| `RowsOfTheLog` | `Spec => []RowsComeFromTheLog` |
| `WritesAsked` | `Spec => []WritesWhatWasAsked` |
| `ReportExact` | `Spec => []ReportIsExact` |
| `RunsEnd` | `Spec => EveryStepAdvances` |

from the assumptions that batch ids and days are naturals, destinations are strings, the log's batches are sequences
of records, and a report has no tenant to ask for (`replayWithReport` takes none: with one,
a report would not add up). The heart of `IInv` is `Covered`: a record that was in the log
when the run began, and that it was asked for, has a row, or is in the buffer, or among the
lines read, or in an object of the page, or in one that a later LIST will return (`Ahead`).
`PageType` shows that a LIST never steps over a key: what the page leaves comes after all it
holds, and then the list was cut. At the end of the stream only the first alternative is
left. What a run holds need not be the record as the object has it now, or had it when the run
began: `Holds` asks for the event and kind, and `LogStates` says that these are the same in
whatever was PUT under the key. `Sourced` says where what a run holds comes from (`said`), and `Counted` keeps the counts in
step with the buffer and with the rows that are the run's own; a run is not disturbed by what
others add (`OtherRunKeeps`), and when rows are lost its claims are void.
`RunsEnd` is the safety half of `ReplayEnds`: the place of a run is the tuple of its day, the
last object it began, the lines left of it, whether it has to list the day again, and what is
left to insert, and every step goes up in the lexicographic order or ends the run. It takes
`PageAhead` (a page lies after the token it was listed with) and that a page of some keys is
never empty (`PageOfSome`); the live flush may add objects behind or ahead of it at any time.

`RequestTargetProofs` proves `LinkIffNamed`, for any domain and reserved names, and any
host and path: `ParseRequestTarget` says "link" exactly if `NamesALink`, which speaks of the
URLs that `buildLinkUrl` makes and knows nothing of the router. From right to left, a URL
of a valid slug decodes to it token by token, and its escapes are at most three times its
length, the limit `extractSlug` applies before it decodes (`EncodedBound`); from left to right,
what `extractSlug` accepts is such an escape (`ExtractedIsLink`). The assumptions are that the
domain is a sequence of labels, that "/" is neither a character of a slug nor a percent
escape, that `.well-known` holds a character no slug may have, and that the reserved names
are plain text.
`RedirectProofs` has from it `LookupDeserved`, `Spec => []LookupIsDeserved`: a request is
decided on arrival, and nothing it does later changes what it asked for.

`DeadLettersProofs` proves, for any heap of values, however nested, shared or circular, any
forbidden keys, any depth limit, any calls of `send()` and any durations:

| Theorem | States |
|---|---|
| `Invariance` | `DlqSpec => []IInv` |
| `NothingForbidden` | `DlqSpec => []NoForbiddenValueStored` |
| `HeldForTheWindow` | `DlqSpec => []KeptForTheWindow` |

from the assumptions that a field holds a value of the heap, that no array index is a forbidden
key, that each call sends a value of the heap, and that durations are naturals. `RedactNode`
and `ForbiddenPaths` recurse on a call's depth, which is bounded; that each is a function that
satisfies its equation is shown by the deepest call for which it would fail (`RedactNodeIs`,
`ForbiddenPathsAre`, with `LeastOf` for the depth left), and so is that a copy ends at a
forbidden key with the placeholder only and that every forbidden path of the original is named
or lies under one that is (`RedactedFromBelow`, `RedactedEverywhere`). The invariant then says
that an entry is the copy of what was sent (`Copies`) and that an added entry is there until
its window is over (`Held`), which a sweep keeps because it removes what has aged only.

Only model-checked: liveness (`EveryFlushSettles`, `DrainTerminates`, `EveryJobSettles`,
`LookupsEnd`, `EveryVisitorAnswered`, `ReplayEnds`), which is out of the prover's reach, as
ENABLED is. Of `EveryFlushSettles` and `ReplayEnds` the measure is proved (`RecursionEnds`,
`RunsEnd`), and what TLC alone shows is that a call or a run under way always has a step to
take. No invariant and no action property is left to TLC alone; the inductive invariants, and
the types of the ladder, which add nothing to a run once they are proved, have no run. The definitions that the
proofs are about use no RECURSIVE operator; `pending` replaces the recursion of the flush, and
a least position the order in which a batch is inserted.

## Findings

1. *The log can disagree with the projection on `dest_host`* (`batch_flush_host`).
   Each try resolves destinations anew and PUTs under the same key. If an INSERT
   committed but its answer was lost, and the link is edited before the retry, the
   retry overwrites the object with the new destination while `ON CONFLICT DO NOTHING`
   keeps the old row. `cli/replay-driver.ts` (39-41) rules that out.
2. *Exhausted jobs are copied, not moved* (`events_consumer_workers`). `onFailed` adds a
   dead letter and leaves the job in the failed set, which nothing trims
   (`removeOnFail: false`); `packages/core/src/queue/events-queue.ts` (60-65) argues
   from a move. `ExhaustedIsOver` shows that such a job is in the failed set for good.
3. *A job that stalled too often is stranded* (`consumer_slow`). Two shutdowns or
   crashes while the same job is in hand exceed `maxStalledCount`; BullMQ fails the job
   with attempts to spare, and `onFailed` (496-505) returns early, so the event is
   neither retried nor dead-lettered. `consumer/shutdown.ts` (67-81, 106-107) says such
   an event is at worst redelivered. It can still be found by hand in the failed set.
4. *The alert for rows in the default partition does not fire* (`partition_alert`). A month
   with rows in `events_default` cannot be split off it, so `ensurePartitionsAhead` throws and
   the job ends before it counts: the run that finds such rows is the one that does not set
   the gauge. `partitions/partition-maintenance.job.ts` (68-70) says it sets it every run.

5. *A replay of a range leaves out events of the range* (`replay_range`). A batch is filed
   under the hour of its first event (`packages/core/src/r2/keys.ts` 173), so an event that
   came after midnight in a batch that began before it is under the day before, and a replay
   of its own day exits with 0 without it. `docs/runbooks/replay.md` (296) says that replay
   "makes Postgres match what R2 already has for a range" and gives (73-80) the days of "all of
   July 2026" for that month's rows; `keys.ts` (153-156) that prefixes never under-cover a
   range and "a missing real hour is data loss". `ReplayRebuilds` says what does hold: all of
   the objects under the days asked for. Asking for the day before as well is enough.
6. *A batch of nothing but poison is split* (`batch_flush`). `classifyFlushError` goes by the
   SQLSTATE alone, so such a batch is halved down to its single events, 2n - 1 sub-batches with
   all their attempts, and resolves with every event dead-lettered: `EveryFlushSettles` says
   that bad rows, however many, never reject a flush. `app.module.ts` (211-217) says that case
   is rejected as `'infrastructure'` before any split, "so it is unreachable in practice", and
   does not size the retry constants against it.
7. *The count of objects is not the stream's* (no run). `replayWithReport` counts the objects
   (`replay-report.ts` 358) before it lists them again to read them; what the live flush adds
   in between, or ahead of the reader, is read and not counted. `replay-report.ts` (115-118)
   says the count "is accurate for the WHOLE run, not merely 'as of when this ran'".

Noted while modelling, and no property of a run:

- An INSERT that commits between the check for rows of `001_events.down.sql` and its DROP is
  dropped with the table, although the file "refuses to run when the table has rows". The row's
  event is in the log.

- After `migrate:down` of `002` and `001` and a new `migrate`, `003` to `005` are still
  tracked and do not run again: the new `events` has neither partitions nor
  `events_default`. `sql-migrate-down.test.ts` (95-107) records it; `TrackedIsApplied`
  excuses `events_default` for it.
- A record that parses but lacks a column makes `posta replay` fail with its whole batch,
  while `replayWithReport`, which no flag of the tool reaches yet (`docs/runbooks/replay.md`
  section 4), rejects the record and goes on.
- A capture that awaits a salt Redis never answers holds no slot: the cap bounds adds, not
  captures.

## Not modelled

- *Health endpoint.* It compares durations, and changes nothing; `EventsConsumer` has no clock.
- *Enrichment, geoip.* Pure functions over long tables of data.
- *`forTenant`.* Every query carries its tenant by the form of the code; a model would repeat it.
- *`migrate-status.ts`, drizzle's own migrations.* The one only reads, the other is a library.
- *Schemas and environment parsing*, but for what a job, a replay and a router refuse.
- *HTML, headers' wording, the web interface.*
- *The objects a report counts* (`countObjectsUnderPrefixes`): see finding 7.
- *Durations* of outages and of retries: the order of steps is modelled, not their length.

## Running

    tlc -workers 2 -config MCBatchFlush.cfg MCBatchFlush
    tlapm BatchFlushProofs.tla
    tlapm EventsConsumerProofs.tla
    tlapm DatabaseProofs.tla
    tlapm CacheLadderProofs.tla
    tlapm RequestTargetProofs.tla
    tlapm RedirectProofs.tla
    tlapm ReplayProofs.tla
    tlapm DeadLettersProofs.tla
