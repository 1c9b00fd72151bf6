# Formal models of utapi

TLA+ modules beside `src/`: what utapi does with a metric from the client that
pushes it to the query that counts it. TLC checks small instances, TLAPS proves
the main results for every value of the constants.

## 1. The system

utapi records what a storage service does (version 2 in `libV2/` and
`warpscript/`, version 1 in `lib/`). A service pushes *metrics* through a
client; the ingestion API keeps them in Redis, in *shards* of ten seconds; a task
moves whole shards to Warp 10 as *events*; more tasks fold events into
*checkpoints* (every 30 s), late events into *corrections* (every 5 min) and both
into *snapshots* (every hour); a query reads the latest snapshot, what came
after it, and the events that no checkpoint holds yet.

```
service -> v2 client -> ingestion API -> Redis shards -> IngestShard
                |  retry cache                               |
                +- recovery log              utapi.event / utapi.repair.event
                                                             |
          checkpoint, repair, snapshot tasks <-> Warp 10 <- getMetricsAt
```

| Component | State | Operations | What is hard |
|---|---|---|---|
| Metric store: `warpscript/utapi/*.mc2`, tasks `CreateCheckpoint`, `Repair`, `CreateSnapshot`, `BaseTask` | events, records and master records of Warp 10; the schedule of each task | ingest an event or a slow event, run of each task, query at an instant | a run writes its records one by one and its master record last, may die between them, and runs of different tasks interleave with each other and with queries |
| Shard ingestion: `cache/`, `IngestShard`, `warp10.js`, `timestamp.js` | shard sets and event keys in Redis, points in Warp 10 | push, list, fetch, stamp, ingest, delete | two reads of a shard with an ingestion between them, crashes before the deletion, failover between hosts, unattended workers, points that overwrite each other |
| v2 client: `client/index.js` | retry cache, its counter, the drain timer | push, cache, drain, flush and close | lost requests and lost answers, callbacks between awaits |
| Account size counters: `getStorage.js`, `redis.js` | counter and base per account in Redis | add a delta, set the base, read | a reset of the counter that races updates, expiry |
| Redis wrapper: `redis.js` | connection, command timeouts | call, probe, reconnect | a connection that goes silent |
| Reindex (v2): `Reindex.js`, metadata | corrective records | recount a bucket, compare, correct | a recount that is stale when it is compared |
| Migration: `Migrate.js` | two status keys per resource | migrate, mark, correct, mark | crashes between a write and its mark |
| Disk usage: `DiskUsage.js` | update lock of Warp 10, data deleted | monitor, lock, unlock, expire | deletion of records that later answers rest on |
| Listing: `listMetrics.js`, `getMetrics.mc2` | none | difference of two queries | a query is several fetches |
| v1 client, replay, reindex, listing: `lib/` | counters and sorted sets in Redis, a replay list, locks that expire | push, replay, recount, list | counters stored out of order, locks that expire under their owner |
| Servers, authorization, configuration, entry points | none of interest | - | the decision which resources a caller may read |

What makes each correct, in a sentence. *Store*: a query counts every event once,
whatever the tasks are doing. *Ingestion*: a metric is in Redis or in Warp 10 at
any time and reaches Warp 10 in the end. *Client*: a metric is with the API, in
the cache or in the logs, a join excepted, and the cache empties. *Counters*: base plus counter is
what Warp 10 will say. *Reindex*: a correction makes the answer equal to the
recount. *Migration*: restarting it changes nothing, and with
the corrections no more and no less than the history of version 1 is there. *Disk usage*: expiry does not
change answers about the present. *v1*: a counter and its snapshots agree, a
replayed metric counts once, however many replays run beside each other.

`PROJECT.json` lists every component, and the hazards with the line where each
bites.

## 2. Modules and how they correspond to the code

| Component | Modules | Proofs |
|---|---|---|
| Metric store | `MetricStore`, `MetricLedger`, `MetricStoreInv`, `MCMetricStore` | `MetricStore_proofs`, `MetricOnce_proofs` |
| Listing | `MetricQuery` (extends `MetricStore`), `MCMetricQuery` | `MetricQuery_proofs` |
| Shard ingestion | `ShardIngest`, `MCShardIngest` | `ShardIngest_proofs` |
| v2 client | `RetryClient`, `MCRetryClient` | `RetryClient_proofs` |
| Account size counters | `StorageCounter`, `V2Tasks`, `MCV2` | `V2_proofs` |
| Disk usage, migration | `DiskUsage`, `Migrate`, `MCV2` | `V2_proofs` |
| Reindex (v2) | `ReindexV2`, `MCV2` | `V2_proofs` |
| v1 client, replay, listing | `V1Redis`, `V1Client`, `MCV1` | `V1_proofs` |
| v1 reindex | `V1Reindex` (extends `V1Client`), `MCV1` | `V1_proofs` |
| Sums over finite sets | `Sums` | `Data_proofs` |

### MetricStore (core)

`MetricStore.tla` is Warp 10 and the tasks that fold it. `fast` and `slow` are the
points of `utapi.event` and `utapi.repair.event`, `records` the checkpoints,
corrections and snapshots (one value per class, label and tick, as UPDATE has
it), `master` the master records. Values are abstracted to *which events they
sum*: a record has the set of events it counts (`once`) and the set it counts more
than once (`twice`), since every field of a record is a sum over events.

| Action | Code |
|---|---|
| `IngestEvent`, `IngestRepairEvent` | a point of IngestShard lands, possibly with an older timestamp |
| `CreateCheckpoint`, `RepairRecords`, `CreateSnapshot` | an execution starts: the macro reads everything it needs and plans its records |
| `WriteRecord`, `WriteMaster` | each UPDATE of the macro, the master record last |
| `Abort` | Warp 10 or the request dies between two of them; `BaseTask.execute` catches the error |
| `ClockTick` | time; also lets the scheduler fire again |

`run[t]` is an execution: the instant it works at, the records it has yet to write,
and the labels it wrote. `late` holds events that landed behind an instant a run
had already read, which the lags of the tasks are there to prevent. `torn` are the
labels of a run that died in the middle: the next run counts their events again.
`halted` is the node-schedule job that is cancelled during an execution.

`MetricLedger.tla` is the abstract store: an answer only grows, by an event at the
moment it is ingested or by slow events when they are corrected. The refinement
maps `answer` to what a query about the present counts; so checkpoints,
snapshots, failures and time are all stutters.

`MetricStoreInv.tla` holds the inductive invariant.

### MetricQuery

`MetricQuery.tla` composes a listing with the store. `listing` is one request of
`listMetrics.js`: which fetch of `getMetricsAt.mc2` is next, whether it is the query
about the start or that about the end, and the records fetched so far. Each
`Load...` action is one FETCH of the macro, between which every action of the store
may happen; `NextHost` is `iterIfError` of `getMetrics`. `before`, `half` and `moved` are
history: the answer of the store when the query began, the events read in a
checkpoint whose master record is not there yet, and those of a checkpoint run
that ended between the fetch of the checkpoints and that of the master record.

### ShardIngest

`ShardIngest.tla` is Redis and IngestShard. `cached` and `values` are the members of
the shard sets and the event keys, which are deleted by different lists;
`worker` are the iterations of `async.eachLimit`, each at one await (`keys` read,
`stamped`, `landed`, keys read again as `doomed`). A worker that throws ends the
execution (`Fail`), while the other ones go on as `orphan`s beside the next one;
without metrics (`MetricsEnabled`) there is no next one until the process restarts,
since the `catch` of `BaseTask.execute` throws itself (`halted`).
`stored` are points, one per host, class and tick: `Timestamp` stamps slow
events anew, `InterpolatedClock` gives events of one time consecutive ticks,
`Points` keeps the last of two records at one tick. `IngestError` is a request
that failed after any part of it was stored. Redis commands are atomic.

Two metrics can get one tick, and then the second overwrites the first. Nothing in the
code keeps them from it, and nothing in the model does: stamps, delays and the
instants at which workers read are free. What can be promised is that this happens in
three cases only, which `Exposed` names: the metric has twins (one stamp) of which
one was delivered once their shard was old (`Shuffled`, from the history `late`); twins
reach over the next stamp (`Crowded`); slow shards were read so near each other that their
ticks meet (`crossed`). `NothingDropped`, `StoredStays` and `AgainIsTheSame` say that
every other metric is safe, whatever else happens, and `raced` names the one other
danger, a metric that came to a shard that was being deleted.

### RetryClient

`RetryClient.tla` is the client: `push` is where each pushed metric is between its
awaits, `cache`/`num`/`timer`/`enabled` are the fields of the class (the timer is
split into the reference and the timeout it may still have pending), `drain` is
the stream from the cache through Chunker and Uploader, `join` the flush to the
logs. A request that fails may have reached the API (`Lose`).

`FlushRetryCacheToLogs` is the stream of `join` up to its first entry: what level reads back
is a plain object, and `_emitMetricLogLine` calls its `getValue` (`client/index.js:228`, 216),
which throws in the `data` handler; the drain makes a metric of it first (line 56), the
flush does not. So a join on a cache with metrics logs none of them and reaches neither
the deletion nor the close (`"threw"`); on an empty cache it closes (`Close`), and loses the
metrics that came in between (`straggled`).

### StorageCounter

The size of an account as `getStorage` answers it: `base + counter`. A sum is the set
of metrics it sums. `pushed` is where `CacheClient.pushMetric` is with each metric (the
shard first, the counter after it), `reader` where each call of `getStorage` is:
`FetchCounter`, `Query` (Warp 10), `SetBase` (the MSET of base and counter) and
`SetExpiration` (a command of its own). `strayed` is history: the base was set from a
query that a push overlapped, or a count failed since.

### DiskUsage

`ExpireMetrics` cuts the range from the oldest record to the retention in slices,
`DeleteSlice` deletes one, `DeleteFailed` ends the run, and where metrics are disabled all
runs to come (`halted`, as in ingestion); `metricsOn` has both. `CheckHardLimit` turns updates on or
off after the rounded percentage, `ManualLock` is the command line. `WriteCheckpoint`
and `Pass` stand for the tasks that write. `Current` is what a query about the present
sums, `written` what it should be.

### Migrate

One resource. `task.at` is the request that is next, `task.correction` the sum that the
loop carries, `marks` the two keys in Redis. `RequestFails` (a request without effect, or a
death of the process) and `AnswerLost` may hit every request. `Begun` is what
version 2 may have before: any finite series, at other instants than those of the history.
`series` has the values in Warp 10, which records of one class and time replace.

A task that migrates has one Warp 10 and asks no other: `bin/migrate.js:9` gives it the first
client only, so `withWarp10` has nobody to go on to. The same holds for the tasks that
fold (`bin/createCheckpoint.js:10`, `bin/createSnapshot.js:9`, `bin/repair.js:10`), the disk
monitor (`bin/diskUsage.js:10`) and the reindex (`bin/reindex.js:10`); all clients go to
the ingestion (`bin/ingestShards.js:10`), the manual adjustment and the servers.

`At` is the query: the latest snapshot, and the checkpoints and corrections since. It does
not read `utapi.repair.event` (class `"repair"`), into which the task ingests its correction.
`TakeSnapshot` is `createSnapshot.mc2`: the last snapshot of the resource, and what came after
the *master* snapshot, so that checkpoints that the migration wrote behind it are in no
later snapshot (`dropped`). `RepairRecords` is `repairRecords.mc2`, which decodes the correction
as an event, finds no resource in it, and goes past it.

`MigratedOnce` says what the task does achieve: the query has what version 1 gained since
the latest snapshot of version 2, once, and each correction is exactly the rest (`Missed`).
`CorrectionCounts` says what the corrections are for, and is violated (section 6).
`HistoryKept` is about instants before all that (`Alone`): a record of version 2 that is
older than a metric of the history adds to the answer for it.

### ReindexV2

`metadata` are the entries of each bucket in the order of a listing: a master
(version 0) before its versions. `ListPage` counts a page (`CountEntry` takes a master
back when the first of its versions comes), `FetchCurrentMetrics` and `UpdateMetric`
compare and correct, `SumAccounts` goes on with the accounts none of whose buckets
failed. `Change` and `IngestLate` are the service and its metrics. `settled` is history:
the resources whose comparison nothing disturbed.

`Listable` is what the models assume of the buckets of cloudserver, at the beginning
(`MetadataKept`) and after each change: a name has each version once, and a master that
is an object has an object among its versions, if it has versions at all. `CountEntry`
relies on it: it takes a master back for the first version that is an object.
`ReindexAssumption` has finitely many buckets, no account with the name of a bucket.

### V1Redis, V1Client

`V1Redis.tla` has the commands of the datastore as functions from database to database;
a key is what the schema tells apart, `batch` a MULTI, `Reply` what a command answers.
`V1Client.tla` is `UtapiClient.pushMetric`: `Commands` is the first transaction of each
handler, `Snapshots` the second one, made from the replies of the first; `push[i].at`
tells which comes next. A push that fails goes to `list` (`PushLocalCache`), from where the
`replay` takes it, a function on `Jobs`: jobs beside each other, the second of which found
the lock of the first expired. `CheckLocalCache`, `GetCachedMetrics` (one batch per round) and
`PushCachedMetrics`, which does not wait for the pushes, are the steps of a job. `BatchFailed`
is a transaction that is refused or whose answer is lost, `CommandFailed` one of whose commands
a counter refuses, whichever it is of those that the handlers look at, `PopFailed` the loss
of what was popped, `Crash` the process, `LockExpires` the lock. A deleted bucket has its keys scanned and made
to expire (`dying`); a key that is set or removed loses its time to live (`Persisted`).
`Listed` is `ListMetrics`: the range in parts, each a sum over its keys. `Times` and `Weight`
say what it should be: how often `log` has a push in the range, and what the push weighs.

`V1Assumption` keeps the names of counters and snapshots apart from those of enabled
actions. `MetricsAssumption` has a metric carry the numbers that `_checkProperties` asserts
(`Typed`), which are natural numbers, and the keys of a bucket differ from those of an
account: the schema puts the level in the key. `ValuesAssumption` has NaN and a missing
value be no integers. The history variable `muddled` says that two pushes overlapped, one
failed, keys expired or a reindex wrote: what the snapshots hold is not foreseen then.

### V1Reindex

`UtapiReindex` and `s3_bucketd.py`: `ScheduleJob` takes the lock, `SentinelDown` goes to the
next sentinel, `ListBucket` counts a page, `ListingFailed` and `OddStatus` are its errors,
`UpdateBuckets`, `ClearBuckets`, `UpdateAccounts` and `ClearAccounts` make the commands, which
`Execute` runs one by one: they are no transaction. `PutVersion` and `DeleteVersion` are the
service, which changes a bucket and pushes the metric through `V1Client`. `ReindexAssumption`
has the bytes of unfinished uploads, the size of a page and the number of sentinels be
natural numbers. `V1TypeOK` is the type invariant of version 1 as a whole.

### MC modules

They give the constants of the instances. `V2Tasks` puts the four tasks of version 2 beside
each other, with their type invariant, `V2TypeOK`. `MCV1` and `MCV2` hold more than one
component in a run: the variable `scene` says which of them a behaviour belongs
to, and the other ones stay as they begin, so that an invariant of each is checked
in its own behaviours. Definitions marked `Slip` are variants of the one that
follows, each with a plausible mistake; every property of a passing run is
violated with one of them in place.

## 3. Runs

| Run | Shows | Bounds |
|---|---|---|
| `store_answers` | every answer about every instant counts each event in time, once; corrections count; snapshots change no answer; the store implements the ledger | 2 events with different labels, 2 labels, clock 5 |
| `store_crash` | the same with runs that die between writes: the inductive invariant; a slow event ends in the answers for good | 1 event, 2 labels, 1 death, clock 6, snapshots capped at a span of 1, fair |
| `store_query` | a listing beside the tasks is exact but for the events of a checkpoint run that ended between two of its fetches, and not negative without one | 2 events (symmetric), 1 label, 3 time ranges, clock 4 |
| `store_origins` (violation) | two origins: the repair task loses slow events | 2 origins |
| `store_halts` (violation) | a failed execution with metrics disabled halts its task | metrics off |
| `ingest` | a metric is lost only to a worker it raced or to one that could get its tick, none else is overwritten, re-ingestion hits the same point, keys go with their shard, the cache drains | 4 metrics (2 of one instant, 1 more in their shard, 1 in the shard before; 2 of them may be late), 3 deliveries, 2 workers, 2 hosts, 1 fault, clock 18 (6 ms), metrics on |
| `ingest_slow` (violation) | slow shards ingested at once overwrite each other | 2 metrics, 1 host, no fault |
| `client` | what a caller was told is true, a join included, no duplicate without a lost answer, one drain at a time, the cap holds, a scheduled drain empties the cache | 3 metrics, chunks of 2, cap 2, 3 failed requests |
| `client_stuck` (violation) | nothing reschedules a drain that left something behind | 2 metrics |
| `v1` | clients: a metric counts once unless its answer was lost, listings are exact, pushes one after the other leave true snapshots, the list empties; replays: the same with jobs that die, leave their lock, or run beside each other; reindex: a bucket that could not be listed keeps its counters, a job that nothing disturbs heals the others | 2 pushes of 9 kinds of metric, 2 instants per period, 1 job, 1 fault; 2 pushes of one kind, 2 jobs, 3 faults; 2 buckets, pages of 2, 2 changes, 2 sentinels, 1 fault |
| `v2` | storage: base and counter are the metrics counted; disk: expiry leaves the present value and nothing old unless it was halted, updates follow the disk; migrate: restarts change nothing; reindex: an undisturbed comparison leaves the truth | 2 metrics, 2 readers; clock 4, retention 2, slices of 2, 1 failed deletion, with metrics and without; a history of 4, five beginnings, 2 mistakes, 1 snapshot; 2 buckets, pages of 2, 2 changes, 2 errors |
| `v2_correction` (violation) | the correction of a migration never reaches a query | as `v2` |

Why the bounds are enough. In the store, the interesting case is two runs of
different tasks, one behind the other, around one event: it needs an event,
the lags in their order (repair < checkpoint < snapshot), and a clock that
allows two snapshots, the second of which builds on the first; a second event and
a second label let a run stop half way through its labels and let snapshots differ.
A listing sums the records of one label, so one is enough for it, and the clock
of 4 has a snapshot between the two queries. In ingestion, two workers are enough
for an unattended one beside a new one, three deliveries for two twins and a retry or a
third metric, and a late metric, twin or not, reaches every step of a worker, fast and slow. In the client, three metrics and chunks of
two give a full and a partial chunk, and a metric that comes in during a drain.
In v1, a second push of three kinds (one that lowers the size, one that marks, one
that expires) follows or overlaps a first one of every kind, and one fault is one
trip through the list. In the second instance, one fault brings a metric into the list, a
second one kills the job that has it, loses what it popped or brings the metric there
again, and a third does so to the next job or to the one beside it. A bucket of three versions makes two pages whose border is
between two versions of a key. In v2, the history of the migration has a metric before, at both
sides of and after each of the snapshots and checkpoints it may meet; the bucket
of seven entries makes four pages, with borders between a master and its
versions; the sizes of the disk are just below and just above what 94.5 percent
rounds to.

`CHECK_DEADLOCK FALSE` everywhere: the clocks and the numbers of events, faults and
deliveries are bounded, so an instance ends.

Time. `MaxTime`, `MaxClock`, `MaxAborts`, `MaxFaults`, `MaxPushes`, `MaxErrors`, `MaxMistakes`,
`MaxMisses`, `MaxManual`, `MaxSnapshots` and `MaxChanges` are bounds. `MaxDelay` is a
bound in the store and an assumption on the environment in ingestion (how old
a metric may be when the API gets it). `MaxRun` bounds how long a macro
runs, and `RunAssumption` says that a checkpoint or repair run is over before a
snapshot run can look at the instant it writes at: 5 s and 300 s of lag against
900 s leave a run ten minutes, which the request timeout of 60 s ends earlier.
The results about snapshots rest on it.

## 4. Fairness

* Store: weak fairness of the clock, of the start of each task and of the steps of
  a started macro. node-schedule fires again and again and Warp 10 executes what it
  was given; nothing is assumed of `Abort`.
* Ingestion: weak fairness of the clock, of starting and ending an execution, and of
  each worker; none of faults, crashes or deliveries, and none of an execution once
  the schedule is lost (`halted`).
* Client: weak fairness of the continuations of a push, of the timer, of the steps of
  a drain and of closing; none of failures or of the caller.
* v1 clients: weak fairness of `ClientSteps`, the continuations of pushes, the replay
  (a schedule) and the expiry of its lock (Redis). v1 reindex: of `Working`, the
  steps of the script, its schedule and the expiry of its lock, and of the pushes
  of the service; none of what the service does.
* Disk: weak fairness of the expiration (a schedule, and a loop), which asks nothing once
  that is halted, of the check of the limit (a schedule of the other processes) and of
  time.

Faults are bounded, so "in the end" means once faults stop.

## 5. What is proved

For any sets and bounds that satisfy the assumptions of the module; liveness
excepted.

| Module | Theorem | Statement |
|---|---|---|
| `MetricStore_proofs` | `TypeCorrect` | `Spec => []TypeOK` |
| | `TimeCorrect` | a run works past everything its task wrote before; one value per cell, one point per event |
| | `FastKeptCorrect`, `SlowKeptCorrect` | what a master record or a run is past is in a record; for slow events under `SingleOrigin` |
| | `SnapshotCorrect` | a snapshot holds what the checkpoints and corrections up to its tick hold, and no more |
| | `SnapshotsInvisibleCorrect` | `Spec => []SnapshotsInvisible` |
| | `NothingLostCorrect` | `Spec => []NothingLost` |
| | `RepairsCountedCorrect` | `SingleOrigin => (Spec => []RepairsCounted)` |
| `MetricOnce_proofs` | `OnceCorrect` | `Spec => []OnceInv` |
| | `NothingCountedTwiceCorrect` | `Spec => []NothingCountedTwice` |
| | `InductiveCorrect` | `SingleOrigin => (Spec => []Inductive)`, the invariant that `store_crash` checks |
| | `LedgerImplemented` | `Spec => ImplementsLedger` |
| `MetricQuery_proofs` | `ListingCorrect` | `ListingSpec => []ListingInv` |
| | `ListingIsExactCorrect`, `ListingNotNegativeCorrect` | `ListingSpec => []ListingIsExact`, and `[]ListingNotNegative` |
| | `QueryTypeCorrect` | `ListingSpec => []QueryTypeOK` |
| `ShardIngest_proofs` | `IngestTypes`, `PromptMeetsNoWorker`, `KeysFollowShards`, `IngestedOnce` | `TypeOK`, `PromptNeverRaces`, `NoOrphanKeys`, `OnceWithoutFaults` of ingestion |
| | `SamePoint` | `Spec => []AgainIsTheSame` |
| | `NeverDropped`, `NeverOverwritten` | `Spec => []NothingDropped`, and `StoredStays` |
| `RetryClient_proofs` | `ClientTypes`, `ClientForgetsNothing`, `ClientDeliversOnce`, `ClientDrainsAlone`, `ClientCacheCapped` | the five invariants of the client |
| `V1_proofs` | `CountedOnceCorrect` | `V1Spec => []CountedOnce` |
| | `FailedKeptCorrect` | `V1Spec => []FailedKept` |
| | `ListingExactCorrect` | `V1Spec => []ListingExact` |
| | `SnapshotsFollowCorrect` | `V1Spec => []SnapshotsFollow` |
| | `V1TypesCorrect` | `V1Spec => []V1TypeOK` |
| `V2_proofs` | `StorageTypes`, `StorageIsExact` | the two of the counters |
| | `ActiveKeptCorrect` | `DiskSpec => []ActiveKept` |
| | `MigratedOnceCorrect`, `HistoryKeptCorrect` | `MigrateSpec => []MigratedOnce`, and `[]HistoryKept` |
| | `ReindexTypesCorrect` | `ReindexV2Spec => []ReindexV2TypeOK` |
| | `ReindexRightCorrect` | `ReindexV2Spec => []ReindexRight` |
| | `DiskTypesCorrect`, `MigrateTypesCorrect` | `DiskSpec => []DiskTypeOK`, `MigrateSpec => []MigrateTypeOK` |
| | `V2TypesCorrect` | the four specifications together imply `[]V2TypeOK` |

**The store.** None of the safety properties is inductive: they speak of answers,
which change in a jump when a master record is written. The invariant is built in
layers, each inductive given the ones before.

1. `TimeInv`: an execution of a folding task works at the clock it started at minus
   its lag, and the scheduler never starts two at one instant, so the records and
   master records of that task are strictly before it. This is what makes a run
   that died harmless: its successor writes at another tick and overwrites nothing.
2. `FastKept`, `SlowKept`: an event in time that a master record is past is in a
   checkpoint (a correction) of each of its labels at or before that record. A run
   keeps this for the events it has read and no master is past: they are in what
   it wrote or has yet to write, at its own tick; `WriteMaster` needs `todo = {}`.
   Slow events need all origins to be one, or the run reads only part of them:
   the violation of `store_origins`.
3. `SnapshotInv`: a snapshot includes the folded records up to its tick and invents
   none. A new checkpoint behind an existing snapshot would break it; `RunAssumption`
   and layer 1 exclude that. Reading `Latest` needs no finiteness: ticks are bounded
   by the clock.
4. `OnceInv`: for a label no run tore, a folded record counts each event once, two of
   them have no event in common, and each is at or before a master record or of the
   run that goes on; so the next run, which reads past the last master record,
   reads nothing that is folded. A snapshot folds records past the snapshot before it.

`SnapshotsInvisible` follows from layer 3, and with it `NothingLost` and
`RepairsCounted` from layer 2, for the answer without snapshots;
`NothingCountedTwice` from layer 4.

**The ledger.** An answer about the present is `Seen(l)`, the events ingested in
time and the corrected ones: what is in a record was once ingested (layer 3 and the
contents of folded records), and an ingested event is in a record or past every
master record (layer 2). So each step of the store either leaves `Seen`, or adds
one event to it (`IngestEvent`), or adds the events of a correction (`WriteRecord` of the
repair task), which are the two steps of the ledger.

**The listing.** It takes no step of the store, so `StoreInv`, the layers above
together, holds beside it. `ListingInv` relates the records fetched so far to what
the store may do until the next fetch:

* What is folded up to the snapshot's tick is in the snapshot and stays so: a folding
  run that goes on writes past every snapshot (`RunIsYoung`, from `RunAssumption`).
* An event of the answer at the beginning is, after the master record was read, in
  a record that was fetched, in one that was written since the checkpoints were
  (`moved`), past the master record, or corrected: by `FastKept` at that moment, and
  from then on because the store only grows (`StoreGrows`).
* The parts of an answer have no event in common, by `FoldedApart`, but for a
  checkpoint that was fetched without a master record at or past it (`half`).
* The first answer is in what the store counted when the second query began, and
  `Times` compares how often: an event counts twice in an answer only if it is in
  `half` of it, and those of the first answer are left out of `ListingNotNegative`.

**The types of a listing.** `QueryTypeOK` bounds what an answer has read by the clock:
`ClockInv`, no answer is since an instant, or from one, that is yet to come.

**Ingestion.** The strengthening says of a worker that its shard was old enough when
it began, so that a prompt metric comes to a shard no worker has, and that a key
that is doomed and was not read came behind the reading. Without faults, a worker
is alone with its shard, and the points of two shards are of different metrics.
`Metric` is assumed finite where a shard is read into a sequence.

The results about points hold of any stamps and delays. A metric that is prompt is cached
before its shard is read; so of metrics with one stamp of which none was late, all are
cached, read and deleted together (`Together`), and a fast point is always at the tick that
the stamp and the rank among the twins give (`FastRight`). That is `AgainIsTheSame`. A
slow point is at a tick of the span its worker had when it read the shard, and two spans
that meet leave their metrics in `crossed` (`SlowRight`). What a worker deletes was sent, or
came in behind its back, or is exposed (`Handed`), and no other metric takes the tick of a
point of a metric that is not; together they are `KeptInv`, of which `NothingDropped` is
a part, and `StoredStays` follows from it for each step.

**The client.** Where a metric is determines what is known of it: one that is `told`
is delivered, cached, or in the logs; what a drain holds was in the cache and will
be taken out of it only after it was delivered; a metric that was settled is not
read again. `num` bounds the cache with the pushes that are between the check and
the increment, hence `Cardinality` and the assumption that `Metric` is finite.

**Version 1.** `CountInv`: a push that has not reached its counters (new, in its
transaction, failed, or in the list) has no entry in `log`, unless an answer about
it was lost; the list and what each replay job holds of it have each push once, no two
jobs hold the same one, and all of them are `cached` (`Waiting`, `Holding`). So a job takes
up only what did not count, and what it takes up it holds alone. `JobInv`: a job that still lists has no commands, and the
commands of a later stage are about none of the buckets and accounts that failed
(`Spared`); the set of failed buckets grows only while the job lists, which is why
it can be relied on when commands are made.

**The listings of version 1.** `LedgerInv`: the listing of every account, metric and range
is what the pushes that were counted weigh (`Exact`), and what is needed of the keys of
listed accounts for that to stay so: they hold numbers, none of them has a time to live,
and no push that looks up the keys of its bucket has one of them. The argument:

* `batch` is unfolded into the database before the first command and after each
  (`BatchIs`), so transactions compose (`BatchConcat`), and `Adds(s, k, w)`, the commands
  `s` add `w` to the key `k` of any database, composes with them (`AddsBoth`). `CommandsAdd`
  follows by the kinds of metric, `AllCommandsAdd` for both levels: the commands of a metric
  add its weight to the key of its account and period, and nothing to others.
* A command that fails is about a counter, which is no key that is listed, and so are those of the second transaction and of the reindex, or they are about snapshots
  (`AllSnapshotsStored`, `StoredQuiet`, `ExecuteStep` with `JobInv`).
* The parts of a range are within it, and an instant of it is in one of them
  (`PartsCover`), the first instant of each part is that of a period, so a key in the range
  is read once: a listing moves by what a key moves (`ListedMoves`).
* The pushes weigh more by what the one that is counted weighs (`WeighedMore`).
* A step therefore counts nothing and moves no key (`QuietStep`), or counts one push and
  moves its keys by its weight (`CountedStep`), and there is a lemma for each action.

**The counters.** Between a clean query and the setting of the base, no push went
through the shard (`clean` is lowered by one), so the base is the metrics counted so
far, and the counter starts empty; afterwards both grow by disjoint sets.

**The disk.** `DiskInv`: snapshots are of past instants and there is one of an instant at
most (`SnapshotsPast`), slices end at the retention (`SlicesPast`), and as long as
`lapsed` is false a snapshot is later than that (`SnapshotRecent`). What is deleted then
lies before the latest snapshot, from which `Current` is summed; a new snapshot has
that sum and leaves only itself to sum. For the types, what a snapshot counts is bounded
by what was written. That is not inductive, since deleting the latest snapshot brings back
an older one and the checkpoints after it: `Bounded` says of every snapshot that it and the
checkpoints after it are not more than what was written.

**The migration.** `MigrateInv` is about the series of version 2 as they were when the
migration began, some `S` that holds as long as nothing spoiled the history:

* the series are those of `S`, records of the history (a checkpoint with the
  difference, or a snapshot with the value, of a metric before the first snapshot of
  version 2), and corrections at or after the beginning (`Content`);
* before the request that is next, every metric of the history is there (`Progress`),
  the class and value it goes to are those of `S` (`Aims`), and the loop carries the value
  of the last metric that predates the latest snapshot (`CorrectionIs`);
* once the mark is set and as long as nothing was dropped, the query gives what version 2
  had of its own, the last value, and less what predates the latest snapshot (`Settled`).

A snapshot after the mark keeps `Settled`: what came after the last snapshot of the resource
and after the master are the same records, or something was dropped (`SnapshotSettled`).

Checkpoints up to the last metric that has one as its latest record telescope to a
difference of two values (`Telescope`), which settles both theorems: the answer for the
present gains the last value less the one before the latest snapshot, and the answer for
an instant of the history before version 2 is the value then.

**The reindex of version 2.** `ReindexInv` says what holds on the way to a correction, of
buckets that did not change since their listing began:

* `Listed`: while a bucket is listed, its total is the weight of `Live(P)`, where `P` is the
  entries up to the marker: the versions that are objects, and the masters no version
  of which was seen. The master that is remembered is in there, and if the last name
  that was seen has its master in there, that is the one (`Counting`). Afterwards the total
  is the size of the bucket, since `Live` of all entries is what a listable bucket
  holds (`HeldIs`).
* `Added`: the total of an account that is about to be compared is the sum of the sizes
  of its buckets, if none of them changed.
* `Compared`: what was pushed, with the correction that is the latest or that comes next,
  is what the buckets of a settled resource hold. A change adds the same on both sides
  (`TruthMoves`), the arrival of a metric moves it from `late` to `raw`.

`CountStep` is one entry of a listing, by the cases of `CountEntry`; that entries come
in the order `Before` is what lets the remembered master be forgotten. `PageIs` and
`PageOrder` say that the `CHOOSE`s of a page give the first entries after the marker, one
after the other, and the last ones if the page is short, and `CountsOf` unfolds
`FoldLeft` over a page; `PageCounted` puts them together.

**The snapshots of version 1.** `SnapshotsFollow` speaks of the moments between pushes;
`FollowInv` of those within one too. While nothing is muddled at most one push is in
flight, none has failed and no key is dying. The database is `Good` unless that push is
between its two transactions, and then it will be with the second one. `Good` is of the
`View` of every resource: its two counters and its two sorted sets.

1. `CommandsView` is what the first transaction does to the view of a level, `RepliesTell`
   what its replies tell of the view after it, `SnapshotsView` what the second transaction
   makes of such replies, by the kind of metric; `GoodLevel` puts the three together. A
   part or an upload that is completed stamps one of the two, and leaves the other as it
   was; a delete marker reads the snapshot of its period and not the counter, or stamps NaN.
2. `CommandsOwn` and `SnapshotsOwn`: a transaction is made of one group of commands for each
   level, and a group touches no key of another, so `TwoViews` has each level see its own
   group alone. `GroupsAre` finds the replies of a level among all replies: the index
   arithmetic of the handlers.
3. `PushFollows` is a whole push, and `FollowNext` has a lemma for each action. A tick keeps
   the last snapshots because none is stamped later than the clock.

The property leaves out counters below zero, which the code stamps as zero. It names where
the last size may be NaN, which the code does stamp (section 6): at the levels of a delete
marker that was pushed (`Marked`). `Good` has the same exception.

**The types of version 1.** `V1TypeOK` is not inductive: what a push stamps depends on the
replies it keeps. `TypesInv` adds that its second transaction is `Fit`: made of commands that
keep any typed database typed. It is so when the push enters that stage, since
the first transaction is `Light` (it adds to counters and reads), and the replies of such
a transaction on a typed database are what the handlers take them for (`Told`). The commands
of a job are each `Proper` (`Apt`), which is needed one by one because they are
no transaction. `CountInv`, `FollowInv` and `JobInv` give the shapes of the records.

**Sums.** The models sum with folds and concatenate with `FlattenSeq`. `Data_proofs`
has what the proofs need of them, for the fixed operators of the models: induction
is carried out over a set of naturals (`NatSetInduction`, from the well-foundedness of
`<`) and not over an operator, which the provers cannot instantiate.

Model-checked only:

* liveness (`RepairsSettle`, `CacheDrains`, `DrainEmpties`, `ClientsReplayed`, `ReindexHealed`,
  `OldRecordsGone` and `DiskUpdatesFollow`), which is out of the prover's reach.

## 6. Disagreements

| Run | What |
|---|---|
| `store_origins` | `repairRecords.mc2:70` takes the first series of a fetch that holds one per origin; its comment says all events |
| `store_halts` | `BaseTask.js:170` throws in its catch block when metrics are disabled, which is the default, and the schedule is never restored |
| `ingest_slow` | `IngestShard.js:147` gives each worker a clock of its own, and slow events of one series can get one timestamp |
| `client_stuck` | `client/index.js:194` reschedules a drain while the timer is still set, which does nothing |
| `v2_correction` | `Migrate.js:343` ingests the correction of line 283 as a record into `utapi.repair.event`, which `repairRecords.mc2:73` decodes as an event: no query ever has it |

Met while modelling, and not contradicted by a document of the repository; the
models do what the code does, and the properties say where they stop:

* `client/index.js:228`: the flush of `join` throws on a cache that holds metrics, and logs
  none of them. No test joins a client whose cache holds metrics.
* `createSnapshot.mc2:206`: the next snapshot of a resource leaves out the checkpoints that a
  migration wrote behind the master snapshot of the node.
* `Migrate.js:352`: a correction that was ingested and could not be marked is ingested again
  by a restart. As long as no query reads corrections this counts nothing twice.
* `timestamp.js:24`: a metric that comes once its shard was ingested gets the tick its twin
  had, and overwrites it.
* `UtapiClient.js:602`: a delete marker whose period has no snapshot yet gets an empty
  array, which is truthy, and stores NaN as the size.
* `Reindex.js:141`: a reindex that finds no difference writes no correction, and an
  earlier one, which answers still add, stays.
* `cache/backend/redis.js:173`: the base and its time to live are two commands; a death
  between them leaves a base that is never read from Warp 10 again.
* `Migrate.js:284`: a version 1 metric at the very instant of a snapshot of version 2 is
  neither before nor after it; no metric of the instance is at one.

## 7. Not modelled

* In the store: a macro whose request timed out and that goes on beside the next
  execution of its task. The model lets a run finish or die first; with two runs of
  one task the layers above do not hold, and no document promises anything.
* In the listing: the fields of a record, which are summed alike, and the reindex
  section of `getMetricsAt`, which is in `ReindexV2`.
* In migration: records of the resource on other nodes; `Migrate.js:203` and 228 take the
  first series of what they fetch.
* The failover to another Warp 10 is modelled where a task has more than one: in ingestion
  and in listings. The folding tasks have one each (see Migrate above).
* In the disk monitor: failures of the requests that turn the updates on and off, and of the
  search for the oldest record, which change nothing before the next check.
* In ingestion: the memory backend, which does the same, and the wording of metrics
  (`stripEventUUID`).
* In the client: event filters and suppressed fields (predicates on one event), a
  disabled retry cache, and `getStorage`, a request without state.
* In v1: location metrics (one counter, incremented like the others), the checks of
  parameters, the event stream, the options that restrict a reindex, two reindex
  jobs at once after the lock of the first expired, and errors of single commands that
  count operations and bytes, which the handlers ignore (`UtapiClient.js:446-456`).
* In v2 reindex: `--bucket`, the filters, and two executions at once.
* The Redis wrapper (`libV2/redis.js`, `lib/RedisClient.js`): what it does is decided by
  ioredis, which is not in the repository. The other modules let each command fail.
* Manual adjustment: one push through the client, no state of its own.
* Servers, routers, validators and authorization: one decision per request, taken by
  Vault or from the request alone.
* Configuration, event filters and logging: read once at start, or stateless.
* Record and event encoding: packing of fields by generated code.
* Entry points and images: they wire tasks to a process.

`PROJECT.json` lists every component with its status, and for each hazard that no
property covers the reason.
