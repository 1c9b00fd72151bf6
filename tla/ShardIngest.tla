---------------------------- MODULE ShardIngest ----------------------------
(***************************************************************************)
(* The path of a metric from the ingestion API of a utapi process to       *)
(* Warp 10: the shards of the Redis cache the API pushes metrics into, and *)
(* the task that moves whole shards to Warp 10 and deletes them.           *)
(*                                                                         *)
(* Redis runs one command, or one MULTI, at a time and is durable.  Warp   *)
(* 10 keeps the last value of a series and tick; the series of a point is  *)
(* given by its host and its class.  Times are in ticks (microseconds);    *)
(* the clock is read in milliseconds.  "Slip" marks a mistaken variant of  *)
(* what follows.                                                           *)
(***************************************************************************)
EXTENDS FiniteSets, Sums

CONSTANTS
  Metric,     \* metrics of the clients, told apart by their uuid
  Stamp,      \* the timestamp of each
  MaxDelay,   \* environment: age at which the API may still receive each
  Rank,       \* the order in which Redis lists the members of a set
  Worker,     \* concurrent shard ingestions
  Milli,      \* ticks of a millisecond
  NumHosts,   \* Warp 10 hosts, tried in order
  ShardSize,  \* span of the timestamps of a shard
  IngestLag,  \* how far the task stays behind the clock
  SlowAge,    \* age at which the events of a shard are slow
  MetricsEnabled,  \* whether the task counts its executions
  MaxPushes,  \* bound: deliveries
  MaxFaults,  \* bound: crashes and failed requests
  MaxTime     \* bound: the clock

ASSUME StampAssumption == {Stamp, MaxDelay} \subseteq [Metric -> Nat]
ASSUME RankAssumption ==
  /\ Rank \in [Metric -> Nat]
  /\ \A m, n \in Metric : Rank[m] = Rank[n] => m = n
ASSUME BoundAssumption ==
  /\ {NumHosts, ShardSize, Milli} \subseteq Nat \ {0}
  /\ {IngestLag, SlowAge, MaxPushes, MaxFaults, MaxTime} \subseteq Nat
  /\ IsFiniteSet(Metric)
  /\ MetricsEnabled \in BOOLEAN

VARIABLES
  now,      \* the clock
  pushes,   \* deliveries of each metric to the API
  cached,   \* members of the shard sets
  values,   \* metrics whose event key is set
  active,   \* whether the task is executing
  halted,   \* whether its schedule is lost
  todo,     \* shards the execution has yet to take
  worker,   \* the shard ingestions under way
  stored,   \* points in Warp 10
  raced,    \* history: metrics added to a shard behind the back of its worker
  late,     \* history: metrics delivered once their shard was old
  crossed,  \* history: metrics of slow shards that were given common ticks
  faults    \* counts crashes and failed requests

redis == <<cached, values>>
task == <<active, halted, todo, worker>>
input == <<pushes, raced, late>>
vars == <<now, redis, task, input, crossed, stored, faults>>

shardFromTimestamp(t) == t - (t % ShardSize)
Home(m) == shardFromTimestamp(Stamp[m])
Old(s) == s + IngestLag <= now

Shard == {Home(m) : m \in Metric}
Members(s) == {m \in cached : Home(m) = s}

Point == [id : Metric, host : 1..NumHosts, slow : BOOLEAN, at : Nat]
Phase == {"free", "keys", "stamped", "landed", "doomed"}
Work == [phase : Phase, shard : Shard \cup {0}, batch : SUBSET Metric,
         slow : BOOLEAN, at : Nat, host : 1..NumHosts, doomed : SUBSET Metric,
         orphan : BOOLEAN]

HostAfterLast == NumHosts + 1  \* Slip
FirstHost == 1

Free == [phase |-> "free", shard |-> 0, batch |-> {}, slow |-> FALSE, at |-> 0,
         host |-> FirstHost, doomed |-> {}, orphan |-> FALSE]

TypeOK ==
  /\ now \in Nat
  /\ pushes \in [Metric -> Nat]
  /\ cached \in SUBSET Metric
  /\ values \in SUBSET Metric
  /\ active \in BOOLEAN
  /\ halted \in BOOLEAN
  /\ todo \in SUBSET Shard
  /\ worker \in [Worker -> Work]
  /\ stored \in SUBSET Point
  /\ raced \in SUBSET Metric
  /\ late \in SUBSET Metric
  /\ crossed \in SUBSET Metric
  /\ faults \in 0..MaxFaults

Init ==
  /\ now = Milli
  /\ pushes = [m \in Metric |-> 0]
  /\ cached = {}
  /\ values = {}
  /\ active = FALSE
  /\ halted = FALSE
  /\ todo = {}
  /\ worker = [w \in Worker |-> Free]
  /\ stored = {}
  /\ raced = {}
  /\ late = {}
  /\ crossed = {}
  /\ faults = 0
-----------------------------------------------------------------------------
(***************************************************************************)
(* The API: one MULTI sets the event key and adds it to its shard, which   *)
(* changes nothing for a metric that is there already.                     *)
(***************************************************************************)
pushMetric(m) ==
  /\ SumOver(pushes, Metric) < MaxPushes
  /\ now \in Stamp[m]..(Stamp[m] + MaxDelay[m])
  /\ pushes' = [pushes EXCEPT ![m] = @ + 1]
  /\ cached' = cached \cup {m}
  /\ values' = values \cup {m}
  /\ raced' = IF \E w \in Worker : /\ worker[w].phase # "free"
                                   /\ worker[w].shard = Home(m)
                                   /\ m \notin (IF worker[w].phase = "doomed"
                                               THEN worker[w].doomed
                                               ELSE worker[w].batch)
              THEN raced \cup {m} ELSE raced
  /\ late' = IF Old(Home(m)) THEN late \cup {m} ELSE late
  /\ UNCHANGED <<now, crossed, stored, faults, task>>

(***************************************************************************)
(* The task lists the shards that are old enough and starts a worker on    *)
(* each of them.                                                           *)
(***************************************************************************)
EndShardAhead == shardFromTimestamp(now)  \* Slip
EndShard == shardFromTimestamp(now - IngestLag)

Due == {s \in Shard : Members(s) # {} /\ s <= EndShard}

Execute ==
  /\ ~active
  /\ ~halted
  /\ now >= IngestLag
  /\ Due # {}
  /\ active' = TRUE
  /\ todo' = Due
  /\ UNCHANGED <<now, halted, worker, crossed, stored, faults, redis, input>>

\* A worker that finds no member has nothing left to do.
TakeShard(w, s) ==
  /\ active
  /\ s \in todo
  /\ worker[w].phase = "free"
  /\ todo' = todo \ {s}
  /\ worker' = IF Members(s) = {} THEN worker
               ELSE [worker EXCEPT ![w] = [Free EXCEPT !.phase = "keys",
                                                       !.shard = s,
                                                       !.batch = Members(s)]]
  /\ UNCHANGED <<now, active, halted, crossed, stored, faults, redis, input>>

\* A worker that throws ends the execution, and the others go on unattended.
\* Without metrics the task throws as well and never gets back its schedule.
\* If the worker was unattended itself nobody learns of it.
Fail(w) ==
  IF worker[w].orphan
  THEN /\ worker' = [worker EXCEPT ![w] = Free]
       /\ UNCHANGED <<active, halted, todo>>
  ELSE /\ worker' = [v \in Worker |->
                       IF v = w \/ worker[v].phase = "free" THEN Free
                       ELSE [worker[v] EXCEPT !.orphan = TRUE]]
       /\ active' = FALSE
       /\ halted' = (halted \/ ~MetricsEnabled)
       /\ todo' = {}

\* The ticks slow events get when a worker reads them at the time t.
SlowSpan(t, batch) == t..(t + Cardinality(batch) - 1)
Anew(w) == worker[w].phase = "stamped" /\ worker[w].slow

\* The slow metrics that have, or are about to get, a tick of a span.
Within(span) ==
  {p.id : p \in {q \in stored : q.slow /\ q.at \in span}} \cup
  UNION {worker[v].batch : v \in {u \in Worker :
           Anew(u) /\ SlowSpan(worker[u].at, worker[u].batch) \cap span # {}}}

\* The events read are slow or fast by the age of their shard.  A key that is
\* gone reads as null, which the worker cannot parse.
HydrateEvents(w) ==
  /\ worker[w].phase = "keys"
  /\ IF worker[w].batch \subseteq values
     THEN /\ worker' = [worker EXCEPT ![w].phase = "stamped",
                                      ![w].at = now,
                                      ![w].slow = now - worker[w].shard >= SlowAge]
          /\ crossed' = LET met == Within(SlowSpan(now, worker[w].batch))
                        IN  IF now - worker[w].shard >= SlowAge /\ met # {}
                            THEN crossed \cup met \cup worker[w].batch ELSE crossed
          /\ UNCHANGED <<active, halted, todo>>
     ELSE Fail(w) /\ UNCHANGED crossed
  /\ UNCHANGED <<now, stored, faults, redis, input>>

(***************************************************************************)
(* Ticks.  Slow events are stamped anew with the clock.  The records of a  *)
(* batch are sorted, and those of one time get consecutive ticks.          *)
(***************************************************************************)
TimestampAnew(w, m) == worker[w].at  \* Slip
Timestamp(w, m) == IF worker[w].slow THEN worker[w].at ELSE Stamp[m]

InterpolatedClockFrozen(w, m) == Timestamp(w, m)  \* Slip
InterpolatedClock(w, m) ==
  Timestamp(w, m) + Cardinality({n \in worker[w].batch :
                                   /\ Timestamp(w, n) = Timestamp(w, m)
                                   /\ Rank[n] < Rank[m]})

\* The points of the metrics M, sent in order: the last one keeps its tick.
Before(w, m, n) == \/ Timestamp(w, m) < Timestamp(w, n)
                   \/ Timestamp(w, m) = Timestamp(w, n) /\ Rank[m] < Rank[n]

Points(w, M) ==
  {[id |-> m, host |-> worker[w].host, slow |-> worker[w].slow,
    at |-> InterpolatedClock(w, m)] :
     m \in {n \in M : \A l \in M : Before(w, n, l) =>
                        InterpolatedClock(w, l) # InterpolatedClock(w, n)}}

SameCell(p, q) == p.host = q.host /\ p.slow = q.slow /\ p.at = q.at

Update(P) == {p \in stored : \A q \in P : ~SameCell(p, q)} \cup P

Ingest(w) ==
  /\ worker[w].phase = "stamped"
  /\ stored' = Update(Points(w, worker[w].batch))
  /\ worker' = [worker EXCEPT ![w].phase = "landed"]
  /\ UNCHANGED <<now, active, halted, todo, crossed, faults, redis, input>>

\* The request fails after Warp 10 stored any part of the points: the next
\* host gets all of them, and after the last one the worker throws.
IngestError(w) ==
  /\ worker[w].phase = "stamped"
  /\ faults < MaxFaults
  /\ faults' = faults + 1
  /\ \E M \in SUBSET worker[w].batch : stored' = Update(Points(w, M))
  /\ IF worker[w].host < NumHosts
     THEN /\ worker' = [worker EXCEPT ![w].host = @ + 1]
          /\ UNCHANGED <<active, halted, todo>>
     ELSE Fail(w)
  /\ UNCHANGED <<now, crossed, redis, input>>

(***************************************************************************)
(* Deletion: the keys in the shard are read once more, then one MULTI      *)
(* deletes the shard and those keys.                                       *)
(***************************************************************************)
ReadKeys(w) ==
  /\ worker[w].phase = "landed"
  /\ worker' = [worker EXCEPT ![w].phase = "doomed",
                              ![w].doomed = Members(worker[w].shard)]
  /\ UNCHANGED <<now, active, halted, todo, crossed, stored, faults, redis, input>>

SetKept(w) == {}  \* Slip
SetDeleted(w) == Members(worker[w].shard)
KeysKept(w) == {}  \* Slip
KeysDeleted(w) == worker[w].doomed

DeleteShardAndKeys(w) ==
  /\ worker[w].phase = "doomed"
  /\ cached' = cached \ SetDeleted(w)
  /\ values' = values \ KeysDeleted(w)
  /\ worker' = [worker EXCEPT ![w] = Free]
  /\ UNCHANGED <<now, active, halted, todo, input, crossed, stored, faults>>

\* A Redis command of a worker fails before it has any effect.
RedisError(w) ==
  /\ worker[w].phase \in {"keys", "landed", "doomed"}
  /\ faults < MaxFaults
  /\ faults' = faults + 1
  /\ Fail(w)
  /\ UNCHANGED <<now, crossed, stored, redis, input>>

EndExecution ==
  /\ active
  /\ todo = {}
  /\ \A w \in Worker : worker[w].phase # "free" => worker[w].orphan
  /\ active' = FALSE
  /\ UNCHANGED <<now, halted, todo, worker, crossed, stored, faults, redis, input>>

\* The task process dies and restarts, with its schedule.
Crash ==
  /\ faults < MaxFaults
  /\ faults' = faults + 1
  /\ worker' = [w \in Worker |-> Free]
  /\ active' = FALSE
  /\ halted' = FALSE
  /\ todo' = {}
  /\ UNCHANGED <<now, crossed, stored, redis, input>>

ClockTick ==
  /\ now < MaxTime
  /\ now' = now + Milli
  /\ UNCHANGED <<crossed, stored, faults, redis, task, input>>

Proceed(w) == (\E s \in Shard : TakeShard(w, s)) \/ HydrateEvents(w) \/ Ingest(w)
              \/ ReadKeys(w) \/ DeleteShardAndKeys(w)

Next ==
  \/ \E m \in Metric : pushMetric(m)
  \/ Execute
  \/ \E w \in Worker : Proceed(w) \/ IngestError(w) \/ RedisError(w)
  \/ EndExecution
  \/ Crash
  \/ ClockTick

Spec == Init /\ [][Next]_vars
-----------------------------------------------------------------------------
Ids(P) == {p.id : p \in P}

(***************************************************************************)
(* Two metrics can get one tick, and the later write then replaces the     *)
(* point of the earlier: when metrics of one stamp do not all come before  *)
(* their shard is old, when there are more of them than ticks up to the    *)
(* next stamp, and when slow shards are read at nearly one time.           *)
(***************************************************************************)
Twins(m) == {n \in Metric : Stamp[n] = Stamp[m] /\ pushes[n] > 0}
Shuffled(m) == Twins(m) # {m} /\ Twins(m) \cap late # {}

Runs(m, n) == Stamp[m] < Stamp[n] /\ Stamp[n] < Stamp[m] + Cardinality(Twins(m))
Crowded(m) == \E n \in Metric : pushes[n] > 0 /\ (Runs(m, n) \/ Runs(n, m))

Exposed(m) == Shuffled(m) \/ Crowded(m) \/ m \in crossed

\* A metric the API took is in the cache or in Warp 10 at any time, whatever
\* fails or dies and however often it is delivered.  It can only disappear if
\* it reaches a shard that a worker has read and has yet to delete, or if its
\* tick can go to another metric.
NothingDropped ==
  \A m \in Metric : pushes[m] > 0 /\ m \notin raced /\ ~Exposed(m) =>
    m \in cached \/ m \in Ids(stored)

\* A metric that comes no later than the lag allows never meets a worker.
Prompt(m) == MaxDelay[m] + ShardSize <= IngestLag
PromptNeverRaces == \A m \in raced : ~Prompt(m)

\* Ingesting a shard again, after a crash or a failed request, or because one
\* of its metrics came late, overwrites the point of another metric only in
\* those cases: any other metric Warp 10 keeps.
StoredStays ==
  [][\A m \in Ids(stored) \ Ids(stored') : Exposed(m)]_vars

\* A metric that is ingested as fast more than once gets the point it had on
\* that host, unless a metric of its stamp came late: only slow metrics, those
\* and a change of host count a metric twice.
AgainIsTheSame ==
  \A p, q \in stored :
    p.id = q.id /\ p.host = q.host /\ ~p.slow /\ ~q.slow /\ ~Shuffled(p.id) => p = q

\* Executions that meet no fault ingest a metric once, and do so however often
\* the client delivers it if it does in time.
OnceWithoutFaults ==
  faults = 0 =>
    \A p, q \in stored :
      p.id = q.id /\ (pushes[p.id] = 1 \/ Prompt(p.id)) => p = q

\* An event key outlives its shard only if it was added behind the back of a
\* worker that was deleting it.
NoOrphanKeys == values \ cached \subseteq raced

\* What the tests of the task assert of all that one ingestion took: it is
\* found in Warp 10.  Here of metrics that met no worker and have no twin.
EventsFound ==
  \A m \in Metric : pushes[m] > 0 /\ m \notin raced /\ Twins(m) = {m} =>
    m \in cached \/ m \in Ids(stored)

(***************************************************************************)
(* Liveness: the schedule goes on until it is lost, workers go on, and     *)
(* time passes.                                                            *)
(***************************************************************************)
FairSpec ==
  /\ Spec
  /\ WF_vars(ClockTick)
  /\ WF_vars(Execute)
  /\ WF_vars(EndExecution)
  /\ \A w \in Worker : WF_vars(Proceed(w))

\* A metric whose shard is old enough does not stay in the cache, unless the
\* task loses its schedule: a failed execution, a dead process or a worker left
\* alone with a shard is made up for.  Where the metric is then, NothingDropped
\* says.
CacheDrains ==
  \A m \in Metric :
    m \in cached /\ Home(m) + IngestLag <= MaxTime ~> m \notin cached \/ halted
=============================================================================
