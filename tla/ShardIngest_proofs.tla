------------------------- MODULE ShardIngest_proofs -------------------------
(***************************************************************************)
(* The ingestion of shards, proved for any metrics, workers, hosts, delays *)
(* and faults.                                                             *)
(*                                                                         *)
(* IngestInv follows a worker: its shard was old enough when it was taken, *)
(* and what it is about to delete unread came in behind its back.  OnceInv *)
(* adds what holds as long as nothing failed: one worker has a shard, and  *)
(* a metric in Warp 10 leaves the cache with it.  KeptInv gives each point *)
(* its tick, so that no point takes the place of another metric's but in   *)
(* the cases Exposed names.                                                *)
(***************************************************************************)
EXTENDS ShardIngest, FiniteSetTheorems, TLAPS

Busy(w) == worker[w].phase # "free"

\* A shard that is taken, or about to be, was old enough.
Lagged ==
  /\ \A s \in todo : Old(s)
  /\ \A w \in Worker : Busy(w) => worker[w].shard \in Shard /\ Old(worker[w].shard)

\* A member that a worker deletes without its key came in behind its back.
Behind ==
  \A w \in Worker, m \in Metric :
    worker[w].phase = "doomed" /\ m \in Members(worker[w].shard) =>
      m \in worker[w].doomed \/ m \in raced

IngestInv == TypeOK /\ Lagged /\ Behind /\ PromptNeverRaces /\ NoOrphanKeys

\* As long as nothing failed: a busy worker is attended and has its shard alone.
Alone ==
  /\ cached \subseteq values
  /\ \A w \in Worker : Busy(w) =>
       /\ active /\ ~worker[w].orphan /\ worker[w].shard \notin todo
       /\ \A m \in worker[w].batch : m \in cached /\ Home(m) = worker[w].shard
       /\ \A m \in worker[w].doomed : Home(m) = worker[w].shard
  /\ \A v, w \in Worker : Busy(v) /\ Busy(w) /\ worker[v].shard = worker[w].shard => v = w

Landed(m) == \E w \in Worker : worker[w].phase \in {"landed", "doomed"} /\ m \in worker[w].batch
Counted(m) == pushes[m] = 1 \/ Prompt(m)

\* What is cached was pushed; what is in Warp 10 was pushed and is of an old
\* shard, and it is cached only until its worker deletes the shard.
Moved ==
  /\ \A m \in cached : pushes[m] > 0
  /\ \A p \in stored : pushes[p.id] > 0 /\ Old(Home(p.id))
  /\ \A p \in stored : Counted(p.id) /\ p.id \in cached => Landed(p.id)

Single == \A p, q \in stored : p.id = q.id /\ Counted(p.id) => p = q

Clean == Alone /\ Moved /\ Single
OnceInv == IngestInv /\ (faults = 0 => Clean)
-----------------------------------------------------------------------------
LEMMA ShardBounds ==
  ASSUME NEW t \in Nat
  PROVE  /\ shardFromTimestamp(t) \in Nat
         /\ shardFromTimestamp(t) =< t /\ t < shardFromTimestamp(t) + ShardSize
<1>1. ShardSize \in Nat \ {0}
  BY BoundAssumption
<1>2. t % ShardSize \in 0..(ShardSize - 1) /\ t % ShardSize =< t
  BY <1>1
<1>3. QED
  BY <1>1, <1>2 DEF shardFromTimestamp

LEMMA HomeType ==
  ASSUME NEW m \in Metric
  PROVE  /\ Stamp[m] \in Nat /\ MaxDelay[m] \in Nat
         /\ Home(m) \in Shard /\ Home(m) \in Nat /\ Stamp[m] < Home(m) + ShardSize
<1>1. Stamp[m] \in Nat /\ MaxDelay[m] \in Nat
  BY StampAssumption
<1>2. QED
  BY <1>1, ShardBounds DEF Home, Shard

LEMMA ShardType == Shard \subseteq Nat
  BY HomeType DEF Shard, Home

LEMMA FreeType ==
  /\ Free \in Work /\ Free.phase = "free" /\ Free.doomed = {} /\ Free.batch = {}
  /\ 1 \in 1..NumHosts
  BY BoundAssumption DEF Free, Work, Phase, FirstHost

\* Steps after which each worker is free or where it was, with less to do.
LEMMA WorkersKept ==
  ASSUME IngestInv, todo' \in SUBSET todo, UNCHANGED <<now, raced>>,
         \A s : Members(s)' \subseteq Members(s),
         \A w \in Worker :
           \/ worker'[w].phase = "free"
           \/ /\ Busy(w) /\ worker'[w].shard = worker[w].shard
              /\ worker'[w].phase = "doomed" =>
                   worker[w].phase = "doomed" /\ worker'[w].doomed = worker[w].doomed
  PROVE  Lagged' /\ Behind'
<1>1. Lagged'
  BY DEF IngestInv, Lagged, Busy, Old
<1>2. Behind'
  BY DEF IngestInv, Behind
<1>3. QED
  BY <1>1, <1>2

\* A worker that throws is free, and the others are as they were.
LEMMA FailStep ==
  ASSUME TypeOK, NEW w \in Worker, Fail(w)
  PROVE  /\ worker' \in [Worker -> Work] /\ todo' \in SUBSET todo /\ {active', halted'} \subseteq BOOLEAN
         /\ \A v \in Worker :
              \/ worker'[v].phase = "free"
              \/ /\ Busy(v) /\ worker'[v].shard = worker[v].shard
                 /\ worker'[v].phase = worker[v].phase /\ worker'[v].doomed = worker[v].doomed
<1>1. CASE worker[w].orphan
  BY <1>1, FreeType DEF Fail, TypeOK, Busy
<1>2. CASE ~worker[w].orphan
  <2>1. /\ worker' = [v \in Worker |-> IF v = w \/ worker[v].phase = "free" THEN Free
                                       ELSE [worker[v] EXCEPT !.orphan = TRUE]]
        /\ active' = FALSE /\ todo' = {}
    BY <1>2 DEF Fail
  <2>2. \A v \in Worker : [worker[v] EXCEPT !.orphan = TRUE] \in Work
    BY DEF TypeOK, Work
  <2>3. \A v \in Worker : /\ [worker[v] EXCEPT !.orphan = TRUE].phase = worker[v].phase
                          /\ [worker[v] EXCEPT !.orphan = TRUE].shard = worker[v].shard
                          /\ [worker[v] EXCEPT !.orphan = TRUE].doomed = worker[v].doomed
    BY DEF TypeOK, Work
  <2>4. worker' \in [Worker -> Work]
    BY <2>1, <2>2, FreeType
  <2>5. halted' \in BOOLEAN
    BY <1>2 DEF Fail
  <2>6. QED
    BY <2>1, <2>3, <2>4, <2>5, FreeType DEF Busy
<1>3. QED
  BY <1>1, <1>2
-----------------------------------------------------------------------------
LEMMA InitInv == Init => IngestInv
<1> SUFFICES ASSUME Init
             PROVE  IngestInv
  OBVIOUS
<1>1. TypeOK
  <2>1. Milli \in Nat /\ 0 \in 0..MaxFaults
    BY BoundAssumption
  <2>2. worker \in [Worker -> Work]
    BY FreeType DEF Init
  <2>3. pushes \in [Metric -> Nat]
    BY <2>1 DEF Init
  <2>4. QED
    BY <2>1, <2>2, <2>3 DEF Init, TypeOK
<1>2. Lagged /\ Behind
  BY FreeType DEF Init, Lagged, Behind, Busy
<1>3. PromptNeverRaces /\ NoOrphanKeys
  BY DEF Init, PromptNeverRaces, NoOrphanKeys
<1>4. QED
  BY <1>1, <1>2, <1>3 DEF IngestInv

\* A metric that meets a worker comes after its shard was due: it is not prompt.
LEMMA PushInv ==
  ASSUME IngestInv, NEW m \in Metric, pushMetric(m)
  PROVE  IngestInv'
<1>1. /\ now \in Stamp[m]..(Stamp[m] + MaxDelay[m])
      /\ pushes' = [pushes EXCEPT ![m] = @ + 1]
      /\ cached' = cached \cup {m} /\ values' = values \cup {m}
      /\ UNCHANGED <<now, stored, faults, active, halted, todo, worker, crossed>>
      /\ late' \in {late, late \cup {m}}
  BY DEF pushMetric, task
<1>2. \/ raced' = raced
      \/ raced' = raced \cup {m} /\ \E w \in Worker : Busy(w) /\ worker[w].shard = Home(m)
  BY DEF pushMetric, Busy, Home
<1>3. \A w \in Worker : worker[w].phase = "doomed" /\ worker[w].shard = Home(m) =>
                          m \in worker[w].doomed \/ m \in raced'
  BY DEF pushMetric, Home
<1>4. TypeOK'
  BY <1>1, <1>2, BoundAssumption DEF IngestInv, TypeOK
<1>5. Lagged'
  BY <1>1 DEF IngestInv, Lagged, Busy, Old
<1>6. Behind'
  BY <1>1, <1>2, <1>3 DEF IngestInv, Behind, Members, Home
<1>7. PromptNeverRaces'
  <2>1. ASSUME NEW w \in Worker, Busy(w), worker[w].shard = Home(m)
        PROVE  ~Prompt(m)
    <3>1. Home(m) + IngestLag =< now
      BY <2>1 DEF IngestInv, Lagged, Old
    <3>2. now =< Stamp[m] + MaxDelay[m] /\ now \in Nat
      BY <1>1, HomeType DEF IngestInv, TypeOK
    <3>3. IngestLag \in Nat /\ ShardSize \in Nat
      BY BoundAssumption
    <3>4. IngestLag < MaxDelay[m] + ShardSize
      BY <3>1, <3>2, <3>3, HomeType
    <3>5. QED
      BY <3>3, <3>4, HomeType DEF Prompt
  <2>2. \A x \in raced' : ~Prompt(x)
    BY <1>2, <2>1 DEF IngestInv, PromptNeverRaces
  <2>3. QED
    BY <2>2 DEF PromptNeverRaces, Prompt
<1>8. NoOrphanKeys'
  BY <1>1, <1>2 DEF IngestInv, NoOrphanKeys
<1>9. QED
  BY <1>4, <1>5, <1>6, <1>7, <1>8 DEF IngestInv

LEMMA ExecuteInv ==
  ASSUME IngestInv, Execute
  PROVE  IngestInv'
<1>1. /\ now >= IngestLag /\ active' = TRUE /\ todo' = Due
      /\ UNCHANGED <<now, halted, worker, stored, faults, cached, values, pushes, raced, late, crossed>>
  BY DEF Execute, redis, input
<1>2. TypeOK'
  BY <1>1 DEF IngestInv, TypeOK, Due
<1>3. \A s \in Due : Old(s)
  <2>1. now - IngestLag \in Nat /\ now \in Nat /\ IngestLag \in Nat
    BY <1>1, BoundAssumption DEF IngestInv, TypeOK
  <2>2. EndShard \in Nat /\ EndShard =< now - IngestLag
    BY <2>1, ShardBounds DEF EndShard
  <2>3. QED
    BY <2>1, <2>2, ShardType DEF Due, Old
<1>4. Lagged'
  BY <1>1, <1>3 DEF IngestInv, Lagged, Busy, Old
<1>5. Behind' /\ PromptNeverRaces' /\ NoOrphanKeys'
  BY <1>1 DEF IngestInv, Behind, PromptNeverRaces, NoOrphanKeys, Members
<1>6. QED
  BY <1>2, <1>4, <1>5 DEF IngestInv

LEMMA TakeShardInv ==
  ASSUME IngestInv, NEW w \in Worker, NEW s \in Shard, TakeShard(w, s)
  PROVE  IngestInv'
<1> DEFINE f == [Free EXCEPT !.phase = "keys", !.shard = s, !.batch = Members(s)]
<1>1. /\ s \in todo /\ todo' = todo \ {s}
      /\ worker' = worker \/ worker' = [worker EXCEPT ![w] = f]
      /\ UNCHANGED <<now, active, halted, stored, faults, cached, values, pushes, raced, late, crossed>>
  BY DEF TakeShard, redis, input
<1>2. f \in Work /\ f.phase = "keys" /\ f.shard = s
  BY FreeType DEF IngestInv, TypeOK, Work, Phase, Members, Free
<1> HIDE DEF f
<1>3. TypeOK'
  BY <1>1, <1>2 DEF IngestInv, TypeOK
<1>4. Lagged'
  BY <1>1, <1>2 DEF IngestInv, TypeOK, Lagged, Busy, Old
<1>5. Behind'
  BY <1>1, <1>2 DEF IngestInv, TypeOK, Behind, Members
<1>6. PromptNeverRaces' /\ NoOrphanKeys'
  BY <1>1 DEF IngestInv, PromptNeverRaces, NoOrphanKeys
<1>7. QED
  BY <1>3, <1>4, <1>5, <1>6 DEF IngestInv

LEMMA CrossedType ==
  ASSUME TypeOK, NEW w \in Worker, NEW span
  PROVE  Within(span) \cup worker[w].batch \in SUBSET Metric
BY DEF TypeOK, Work, Point, Within

LEMMA HydrateEventsInv ==
  ASSUME IngestInv, NEW w \in Worker, HydrateEvents(w)
  PROVE  IngestInv'
<1>1. worker[w].phase = "keys" /\ UNCHANGED <<now, stored, faults, cached, values, pushes, raced, late>>
  BY DEF HydrateEvents, redis, input
<1>2. /\ worker' \in [Worker -> Work] /\ todo' \in SUBSET todo /\ {active', halted'} \subseteq BOOLEAN
      /\ \A v \in Worker :
           \/ worker'[v].phase = "free"
           \/ /\ Busy(v) /\ worker'[v].shard = worker[v].shard
              /\ worker'[v].phase = "doomed" =>
                   worker[v].phase = "doomed" /\ worker'[v].doomed = worker[v].doomed
  <2>1. CASE worker[w].batch \subseteq values
    <3>1. /\ worker' = [worker EXCEPT ![w].phase = "stamped", ![w].at = now,
                                      ![w].slow = now - worker[w].shard >= SlowAge]
          /\ UNCHANGED <<active, halted, todo>>
      BY <2>1 DEF HydrateEvents
    <3>2. /\ worker'[w] \in Work /\ worker'[w].phase = "stamped"
          /\ worker'[w].shard = worker[w].shard
      <4>1. worker[w] \in Work /\ now \in Nat
        BY DEF IngestInv, TypeOK
      <4>2. worker'[w] = [[[worker[w] EXCEPT !.phase = "stamped"] EXCEPT !.at = now]
                           EXCEPT !.slow = now - worker[w].shard >= SlowAge]
        BY <3>1, <4>1 DEF IngestInv, TypeOK
      <4>3. (now - worker[w].shard >= SlowAge) \in BOOLEAN
        OBVIOUS
      <4>4. QED
        BY <4>1, <4>2, <4>3 DEF Work, Phase
    <3>3. worker' \in [Worker -> Work] /\ \A v \in Worker \ {w} : worker'[v] = worker[v]
      BY <3>1, <3>2 DEF IngestInv, TypeOK
    <3>4. QED
      BY <1>1, <3>1, <3>2, <3>3 DEF IngestInv, TypeOK, Busy
  <2>2. CASE ~(worker[w].batch \subseteq values)
    BY <2>2, FailStep DEF HydrateEvents, IngestInv
  <2>3. QED
    BY <2>1, <2>2
<1>3. TypeOK'
  <2>1. crossed' \in SUBSET Metric
    BY CrossedType DEF HydrateEvents, IngestInv, TypeOK
  <2>2. QED
    BY <1>1, <1>2, <2>1 DEF IngestInv, TypeOK
<1>4. Lagged' /\ Behind'
  BY <1>1, <1>2, WorkersKept DEF Members
<1>5. PromptNeverRaces' /\ NoOrphanKeys'
  BY <1>1 DEF IngestInv, PromptNeverRaces, NoOrphanKeys
<1>6. QED
  BY <1>3, <1>4, <1>5 DEF IngestInv

LEMMA ClockType ==
  ASSUME TypeOK, NEW w \in Worker, NEW m \in Metric
  PROVE  InterpolatedClock(w, m) \in Nat
<1> DEFINE S == {n \in worker[w].batch : Timestamp(w, n) = Timestamp(w, m) /\ Rank[n] < Rank[m]}
<1>1. Timestamp(w, m) \in Nat
  BY HomeType DEF TypeOK, Work, Timestamp
<1>2. S \in SUBSET Metric
  BY DEF TypeOK, Work
<1>3. Cardinality(S) \in Nat
  BY <1>2, BoundAssumption, FS_Subset, FS_CardinalityType
<1>4. QED
  BY <1>1, <1>3 DEF InterpolatedClock

\* The points of some metrics of a batch are of those metrics, and updates of
\* Warp 10 add nothing else.
LEMMA PointsType ==
  ASSUME TypeOK, NEW w \in Worker, NEW M \in SUBSET worker[w].batch
  PROVE  /\ Points(w, M) \subseteq Point
         /\ \A p \in Points(w, M) : p.id \in M
         /\ \A p, q \in Points(w, M) : p.id = q.id => p = q
         /\ Update(Points(w, M)) \in SUBSET Point
         /\ Update(Points(w, M)) \subseteq stored \cup Points(w, M)
<1>1. M \subseteq Metric
  BY DEF TypeOK, Work
<1>2. worker[w].host \in 1..NumHosts /\ worker[w].slow \in BOOLEAN
  BY DEF TypeOK, Work
<1>3. \A m \in Metric : InterpolatedClock(w, m) \in Nat
  BY ClockType
<1>4. \A p \in Points(w, M) : \E m \in M :
        p = [id |-> m, host |-> worker[w].host, slow |-> worker[w].slow,
             at |-> InterpolatedClock(w, m)]
  BY DEF Points
<1>5. Points(w, M) \subseteq Point
  BY <1>1, <1>2, <1>3, <1>4 DEF Point
<1>6. /\ \A p \in Points(w, M) : p.id \in M
      /\ \A p, q \in Points(w, M) : p.id = q.id => p = q
  BY <1>4
<1>7. Update(Points(w, M)) \subseteq stored \cup Points(w, M)
  BY DEF Update
<1>8. QED
  BY <1>5, <1>6, <1>7 DEF TypeOK

LEMMA IngestInv1 ==
  ASSUME IngestInv, NEW w \in Worker, Ingest(w)
  PROVE  IngestInv'
<1>1. /\ worker[w].phase = "stamped"
      /\ stored' = Update(Points(w, worker[w].batch))
      /\ worker' = [worker EXCEPT ![w].phase = "landed"]
      /\ UNCHANGED <<now, active, halted, todo, faults, cached, values, pushes, raced, late, crossed>>
  BY DEF Ingest, redis, input
<1>2. stored' \in SUBSET Point
  BY <1>1, PointsType DEF IngestInv
<1>3. worker' \in [Worker -> Work]
  BY <1>1 DEF IngestInv, TypeOK, Work, Phase
<1>4. TypeOK'
  BY <1>1, <1>2, <1>3 DEF IngestInv, TypeOK
<1>5. \A v \in Worker :
        \/ worker'[v].phase = "free"
        \/ /\ Busy(v) /\ worker'[v].shard = worker[v].shard
           /\ worker'[v].phase = "doomed" =>
                worker[v].phase = "doomed" /\ worker'[v].doomed = worker[v].doomed
  BY <1>1 DEF IngestInv, TypeOK, Work, Busy
<1>6. Lagged' /\ Behind'
  BY <1>1, <1>5, WorkersKept DEF Members
<1>7. PromptNeverRaces' /\ NoOrphanKeys'
  BY <1>1 DEF IngestInv, PromptNeverRaces, NoOrphanKeys
<1>8. QED
  BY <1>4, <1>6, <1>7 DEF IngestInv

LEMMA IngestErrorInv ==
  ASSUME IngestInv, NEW w \in Worker, IngestError(w)
  PROVE  IngestInv'
<1>1. /\ worker[w].phase = "stamped" /\ faults < MaxFaults /\ faults' = faults + 1
      /\ UNCHANGED <<now, cached, values, pushes, raced, late, crossed>>
  BY DEF IngestError, redis, input
<1>2. stored' \in SUBSET Point
  BY PointsType DEF IngestInv, IngestError
<1>3. /\ worker' \in [Worker -> Work] /\ todo' \in SUBSET todo /\ {active', halted'} \subseteq BOOLEAN
      /\ \A v \in Worker :
           \/ worker'[v].phase = "free"
           \/ /\ Busy(v) /\ worker'[v].shard = worker[v].shard
              /\ worker'[v].phase = "doomed" =>
                   worker[v].phase = "doomed" /\ worker'[v].doomed = worker[v].doomed
  <2>1. CASE worker[w].host < NumHosts
    <3>1. worker' = [worker EXCEPT ![w].host = @ + 1] /\ UNCHANGED <<active, halted, todo>>
      BY <2>1 DEF IngestError
    <3>2. worker[w].host + 1 \in 1..NumHosts /\ worker[w] \in Work
      BY <2>1, BoundAssumption DEF IngestInv, TypeOK, Work
    <3>3. worker' \in [Worker -> Work]
      BY <3>1, <3>2 DEF IngestInv, TypeOK, Work
    <3>4. QED
      BY <3>1, <3>3 DEF IngestInv, TypeOK, Work, Busy
  <2>2. CASE ~(worker[w].host < NumHosts)
    BY <2>2, FailStep DEF IngestError, IngestInv
  <2>3. QED
    BY <2>1, <2>2
<1>4. TypeOK'
  <2>1. faults' \in 0..MaxFaults
    BY <1>1, BoundAssumption DEF IngestInv, TypeOK
  <2>2. QED
    BY <1>1, <1>2, <1>3, <2>1 DEF IngestInv, TypeOK
<1>5. Lagged' /\ Behind'
  BY <1>1, <1>3, WorkersKept DEF Members
<1>6. PromptNeverRaces' /\ NoOrphanKeys'
  BY <1>1 DEF IngestInv, PromptNeverRaces, NoOrphanKeys
<1>7. QED
  BY <1>4, <1>5, <1>6 DEF IngestInv

LEMMA ReadKeysInv ==
  ASSUME IngestInv, NEW w \in Worker, ReadKeys(w)
  PROVE  IngestInv'
<1> DEFINE f == [[worker[w] EXCEPT !.phase = "doomed"] EXCEPT !.doomed = Members(worker[w].shard)]
<1>1. /\ worker[w].phase = "landed" /\ worker' = [worker EXCEPT ![w] = f]
      /\ UNCHANGED <<now, active, halted, todo, stored, faults, cached, values, pushes, raced, late, crossed>>
  BY DEF ReadKeys, redis, input, IngestInv, TypeOK
<1>2. f \in Work /\ f.shard = worker[w].shard /\ f.doomed = Members(worker[w].shard)
  <2>1. worker[w] \in Work /\ Members(worker[w].shard) \in SUBSET Metric
    BY DEF IngestInv, TypeOK, Members
  <2>2. QED
    BY <2>1 DEF Work, Phase
<1> HIDE DEF f
<1>3. TypeOK'
  BY <1>1, <1>2 DEF IngestInv, TypeOK
<1>4. Lagged'
  BY <1>1, <1>2 DEF IngestInv, TypeOK, Lagged, Busy, Old
<1>5. Behind'
  BY <1>1, <1>2 DEF IngestInv, TypeOK, Behind, Members
<1>6. PromptNeverRaces' /\ NoOrphanKeys'
  BY <1>1 DEF IngestInv, PromptNeverRaces, NoOrphanKeys
<1>7. QED
  BY <1>3, <1>4, <1>5, <1>6 DEF IngestInv

\* A key that outlives its shard is of a member that was not doomed.
LEMMA DeleteInv ==
  ASSUME IngestInv, NEW w \in Worker, DeleteShardAndKeys(w)
  PROVE  IngestInv'
<1>1. /\ worker[w].phase = "doomed"
      /\ cached' = cached \ Members(worker[w].shard)
      /\ values' = values \ worker[w].doomed
      /\ worker' = [worker EXCEPT ![w] = Free]
      /\ UNCHANGED <<now, active, halted, todo, pushes, raced, late, crossed, stored, faults>>
  BY DEF DeleteShardAndKeys, SetDeleted, KeysDeleted, input
<1>2. TypeOK'
  BY <1>1, FreeType DEF IngestInv, TypeOK
<1>3. \A v \in Worker :
        \/ worker'[v].phase = "free"
        \/ /\ Busy(v) /\ worker'[v].shard = worker[v].shard
           /\ worker'[v].phase = "doomed" =>
                worker[v].phase = "doomed" /\ worker'[v].doomed = worker[v].doomed
  BY <1>1, FreeType DEF IngestInv, TypeOK, Busy
<1>4. \A s : Members(s)' \subseteq Members(s)
  BY <1>1 DEF Members
<1>5. Lagged' /\ Behind'
  BY <1>1, <1>3, <1>4, WorkersKept
<1>6. PromptNeverRaces'
  BY <1>1 DEF IngestInv, PromptNeverRaces
<1>7. NoOrphanKeys'
  <2>1. SUFFICES ASSUME NEW m \in values', m \notin cached'
                 PROVE  m \in raced
    BY <1>1 DEF NoOrphanKeys
  <2>2. m \in Metric /\ m \in values /\ m \notin worker[w].doomed
    BY <1>1, <2>1 DEF IngestInv, TypeOK
  <2>3. CASE m \in Members(worker[w].shard)
    BY <1>1, <2>2, <2>3 DEF IngestInv, Behind
  <2>4. CASE m \notin cached
    BY <2>2, <2>4 DEF IngestInv, NoOrphanKeys
  <2>5. QED
    BY <1>1, <2>1, <2>3, <2>4
<1>8. QED
  BY <1>2, <1>5, <1>6, <1>7 DEF IngestInv

LEMMA RedisErrorInv ==
  ASSUME IngestInv, NEW w \in Worker, RedisError(w)
  PROVE  IngestInv'
<1>1. /\ faults < MaxFaults /\ faults' = faults + 1
      /\ UNCHANGED <<now, stored, cached, values, pushes, raced, late, crossed>>
  BY DEF RedisError, redis, input
<1>2. /\ worker' \in [Worker -> Work] /\ todo' \in SUBSET todo /\ {active', halted'} \subseteq BOOLEAN
      /\ \A v \in Worker :
           \/ worker'[v].phase = "free"
           \/ /\ Busy(v) /\ worker'[v].shard = worker[v].shard
              /\ worker'[v].phase = worker[v].phase /\ worker'[v].doomed = worker[v].doomed
  BY FailStep DEF RedisError, IngestInv
<1>3. faults' \in 0..MaxFaults
  BY <1>1, BoundAssumption DEF IngestInv, TypeOK
<1>4. TypeOK'
  BY <1>1, <1>2, <1>3 DEF IngestInv, TypeOK
<1>5. Lagged' /\ Behind'
  BY <1>1, <1>2, WorkersKept DEF Members
<1>6. PromptNeverRaces' /\ NoOrphanKeys'
  BY <1>1 DEF IngestInv, PromptNeverRaces, NoOrphanKeys
<1>7. QED
  BY <1>4, <1>5, <1>6 DEF IngestInv

LEMMA CrashInv ==
  ASSUME IngestInv, Crash
  PROVE  IngestInv'
<1>1. /\ faults < MaxFaults /\ faults' = faults + 1
      /\ worker' = [w \in Worker |-> Free] /\ active' = FALSE /\ halted' = FALSE /\ todo' = {}
      /\ UNCHANGED <<now, stored, cached, values, pushes, raced, late, crossed>>
  BY DEF Crash, redis, input
<1>2. faults' \in 0..MaxFaults
  BY <1>1, BoundAssumption DEF IngestInv, TypeOK
<1>3. worker' \in [Worker -> Work] /\ \A w \in Worker : worker'[w].phase = "free"
  BY <1>1, FreeType
<1>4. TypeOK'
  BY <1>1, <1>2, <1>3 DEF IngestInv, TypeOK
<1>5. Lagged' /\ Behind'
  BY <1>1, <1>3, WorkersKept DEF Members
<1>6. PromptNeverRaces' /\ NoOrphanKeys'
  BY <1>1 DEF IngestInv, PromptNeverRaces, NoOrphanKeys
<1>7. QED
  BY <1>4, <1>5, <1>6 DEF IngestInv

LEMMA ClockTickInv ==
  ASSUME IngestInv, ClockTick
  PROVE  IngestInv'
<1>1. /\ now' = now + Milli
      /\ UNCHANGED <<stored, faults, cached, values, active, halted, todo, worker, pushes, raced, late, crossed>>
  BY DEF ClockTick, redis, task, input
<1>2. Milli \in Nat /\ IngestLag \in Nat /\ now \in Nat
  BY BoundAssumption DEF IngestInv, TypeOK
<1>3. TypeOK'
  BY <1>1, <1>2 DEF IngestInv, TypeOK
<1>4. \A s \in Shard : Old(s) => Old(s)'
  BY <1>1, <1>2, ShardType DEF Old
<1>5. Lagged'
  BY <1>1, <1>4 DEF IngestInv, TypeOK, Lagged, Busy
<1>6. Behind' /\ PromptNeverRaces' /\ NoOrphanKeys'
  BY <1>1 DEF IngestInv, Behind, Members, PromptNeverRaces, NoOrphanKeys
<1>7. QED
  BY <1>3, <1>5, <1>6 DEF IngestInv

\* Steps that leave the workers, the cache and the metrics alone.
LEMMA IdleInv ==
  ASSUME IngestInv, EndExecution \/ UNCHANGED vars
  PROVE  IngestInv'
<1>1. /\ active' \in BOOLEAN
      /\ UNCHANGED <<now, halted, todo, worker, stored, faults, cached, values, pushes, raced, late, crossed>>
  BY DEF EndExecution, vars, redis, task, input, IngestInv, TypeOK
<1>2. QED
  BY <1>1 DEF IngestInv, TypeOK, Lagged, Busy, Old, Behind, Members, PromptNeverRaces, NoOrphanKeys

LEMMA NextInv == IngestInv /\ [Next]_vars => IngestInv'
<1> SUFFICES ASSUME IngestInv, [Next]_vars
             PROVE  IngestInv'
  OBVIOUS
<1>1. ASSUME NEW m \in Metric, pushMetric(m)
      PROVE  IngestInv'
  BY <1>1, PushInv
<1>2. ASSUME NEW w \in Worker, Proceed(w) \/ IngestError(w) \/ RedisError(w)
      PROVE  IngestInv'
  BY <1>2, TakeShardInv, HydrateEventsInv, IngestInv1, ReadKeysInv, DeleteInv,
     IngestErrorInv, RedisErrorInv DEF Proceed
<1>3. CASE Execute \/ EndExecution \/ Crash \/ ClockTick \/ UNCHANGED vars
  BY <1>3, ExecuteInv, IdleInv, CrashInv, ClockTickInv
<1>4. QED
  BY <1>1, <1>2, <1>3 DEF Next

LEMMA InvHolds == Spec => []IngestInv
  BY InitInv, NextInv, PTL DEF Spec

\* The types hold, of the points in Warp 10 as well.
THEOREM IngestTypes == Spec => []TypeOK
<1>1. IngestInv => TypeOK
  BY DEF IngestInv
<1>2. QED
  BY InvHolds, <1>1, PTL

\* A metric that comes within the lag never reaches a shard that a worker has,
\* however many workers, faults and restarts there are.
THEOREM PromptMeetsNoWorker == Spec => []PromptNeverRaces
<1>1. IngestInv => PromptNeverRaces
  BY DEF IngestInv
<1>2. QED
  BY InvHolds, <1>1, PTL

\* The keys in the cache are those of the shards, but for metrics that came in
\* behind the back of a worker.
THEOREM KeysFollowShards == Spec => []NoOrphanKeys
<1>1. IngestInv => NoOrphanKeys
  BY DEF IngestInv
<1>2. QED
  BY InvHolds, <1>1, PTL
-----------------------------------------------------------------------------
\* A metric that can still be pushed in time has no point yet.
LEMMA PushClean ==
  ASSUME IngestInv, Clean, NEW m \in Metric, pushMetric(m)
  PROVE  Clean'
<1>1. /\ now \in Stamp[m]..(Stamp[m] + MaxDelay[m])
      /\ pushes' = [pushes EXCEPT ![m] = @ + 1]
      /\ cached' = cached \cup {m} /\ values' = values \cup {m}
      /\ UNCHANGED <<now, stored, faults, active, todo, worker>>
  BY DEF pushMetric, task
<1>2. pushes \in [Metric -> Nat] /\ stored \in SUBSET Point /\ cached \in SUBSET Metric
  BY BoundAssumption DEF IngestInv, TypeOK
<1>3. /\ pushes'[m] = pushes[m] + 1 /\ pushes'[m] > 0
      /\ \A n \in Metric \ {m} : pushes'[n] = pushes[n]
  BY <1>1, <1>2
<1>4. Alone'
  BY <1>1 DEF Clean, Alone, Busy
<1>5. ASSUME Old(Home(m))
      PROVE  ~Prompt(m)
  <2>1. Home(m) + IngestLag =< now
    BY <1>5 DEF Old
  <2>2. now =< Stamp[m] + MaxDelay[m] /\ now \in Nat
    BY <1>1, HomeType DEF IngestInv, TypeOK
  <2>3. IngestLag \in Nat /\ ShardSize \in Nat
    BY BoundAssumption
  <2>4. IngestLag < MaxDelay[m] + ShardSize
    BY <2>1, <2>2, <2>3, HomeType
  <2>5. QED
    BY <2>3, <2>4, HomeType DEF Prompt
<1>6. \A p \in stored : p.id \in Metric /\ (p.id = m => ~Counted(m)')
  <2>1. ASSUME NEW p \in stored, p.id = m
        PROVE  ~Prompt(m) /\ pushes'[m] > 1
    BY <2>1, <1>2, <1>3, <1>5 DEF Clean, Moved
  <2>2. QED
    BY <1>2, <1>3, <2>1 DEF Counted, Prompt, Point
<1>7. \A n \in Metric \ {m} : Counted(n)' => Counted(n)
  BY <1>3 DEF Counted, Prompt
<1>8. \A n : Landed(n)' <=> Landed(n)
  BY <1>1 DEF Landed
<1>9. Moved'
  <2>1. (\A n \in cached : pushes[n] > 0)'
    BY <1>1, <1>2, <1>3 DEF Clean, Moved
  <2>2. (\A p \in stored : pushes[p.id] > 0 /\ Old(Home(p.id)))'
    BY <1>1, <1>3, <1>6 DEF Clean, Moved, Old, Home
  <2>3. (\A p \in stored : Counted(p.id) /\ p.id \in cached => Landed(p.id))'
    <3>1. SUFFICES ASSUME NEW p \in stored', Counted(p.id)', p.id \in cached'
                   PROVE  Landed(p.id)'
      OBVIOUS
    <3>2. p \in stored /\ p.id \in Metric \ {m}
      BY <1>1, <1>6, <3>1
    <3>3. Counted(p.id) /\ p.id \in cached
      BY <1>1, <1>7, <3>1, <3>2
    <3>4. QED
      BY <1>8, <3>2, <3>3 DEF Clean, Moved
  <2>4. QED
    BY <2>1, <2>2, <2>3 DEF Moved
<1>10. Single'
  BY <1>1, <1>6, <1>7 DEF Clean, Single
<1>11. QED
  BY <1>4, <1>9, <1>10 DEF Clean

\* No worker is busy when the task starts.
LEMMA ExecuteClean ==
  ASSUME IngestInv, Clean, Execute
  PROVE  Clean'
<1>1. /\ ~active
      /\ UNCHANGED <<now, worker, stored, faults, cached, values, pushes, raced>>
  BY DEF Execute, redis, input
<1>2. \A w \in Worker : ~Busy(w)
  BY <1>1 DEF Clean, Alone
<1>3. Alone'
  BY <1>1, <1>2 DEF Clean, Alone, Busy
<1>4. Moved' /\ Single'
  BY <1>1 DEF Clean, Moved, Single, Old, Home, Landed, Counted, Prompt
<1>5. QED
  BY <1>3, <1>4 DEF Clean

\* Steps of a worker that leave the cache and Warp 10 alone.
LEMMA StepClean ==
  ASSUME IngestInv, Clean, Alone',
         UNCHANGED <<now, stored, cached, pushes>>,
         \A m : Landed(m) => Landed(m)'
  PROVE  Clean'
<1>1. Moved'
  BY DEF Clean, Moved, Old, Home, Counted, Prompt
<1>2. Single'
  BY DEF Clean, Single, Counted, Prompt
<1>3. QED
  BY <1>1, <1>2 DEF Clean

LEMMA TakeShardClean ==
  ASSUME IngestInv, Clean, NEW w \in Worker, NEW s \in Shard, TakeShard(w, s)
  PROVE  Clean'
<1> DEFINE f == [Free EXCEPT !.phase = "keys", !.shard = s, !.batch = Members(s)]
<1>1. /\ active /\ s \in todo /\ todo' = todo \ {s} /\ worker[w].phase = "free"
      /\ worker' = worker \/ worker' = [worker EXCEPT ![w] = f]
      /\ UNCHANGED <<now, active, stored, faults, cached, values, pushes, raced>>
  BY DEF TakeShard, redis, input
<1>2. /\ f.phase = "keys" /\ f.shard = s /\ f.batch = Members(s) /\ f.doomed = {}
      /\ f.orphan = FALSE
  BY DEF Free
<1> HIDE DEF f
<1>3. \A m \in Members(s) : m \in cached /\ Home(m) = s
  BY DEF Members, Home
<1>4. CASE worker' = worker
  <2>1. Alone'
    BY <1>1, <1>4 DEF Clean, Alone, Busy
  <2>2. QED
    BY <1>1, <1>4, <2>1, StepClean DEF Landed
<1>5. CASE worker' = [worker EXCEPT ![w] = f]
  <2>1. worker'[w] = f /\ \A v \in Worker \ {w} : worker'[v] = worker[v]
    BY <1>5 DEF IngestInv, TypeOK
  <2>2. \A v \in Worker \ {w} : Busy(v) => worker[v].shard # s
    BY <1>1 DEF Clean, Alone
  <2>3. Alone'
    <3>1. ASSUME NEW v \in Worker, Busy(v)'
          PROVE  /\ active' /\ ~worker'[v].orphan /\ worker'[v].shard \notin todo'
                 /\ \A m \in worker'[v].batch : m \in cached' /\ Home(m) = worker'[v].shard
                 /\ \A m \in worker'[v].doomed : Home(m) = worker'[v].shard
      <4>1. CASE v = w
        BY <1>1, <1>2, <1>3, <2>1, <4>1
      <4>2. CASE v # w
        BY <1>1, <2>1, <3>1, <4>2 DEF Clean, Alone, Busy
      <4>3. QED
        BY <4>1, <4>2
    <3>2. \A u, v \in Worker : Busy(u)' /\ Busy(v)' /\ worker'[u].shard = worker'[v].shard => u = v
      BY <1>2, <2>1, <2>2 DEF Clean, Alone, Busy
    <3>3. QED
      BY <1>1, <3>1, <3>2 DEF Clean, Alone, Home
  <2>4. \A m : Landed(m) => Landed(m)'
    BY <1>1, <2>1 DEF Landed
  <2>5. QED
    BY <1>1, <2>3, <2>4, StepClean
<1>6. QED
  BY <1>1, <1>4, <1>5

\* A worker that goes on with its shard and batch stays alone with them.
LEMMA GoesOn ==
  ASSUME IngestInv, Clean, NEW w \in Worker, Busy(w), worker' \in [Worker -> Work],
         UNCHANGED <<active, todo, cached, values>>,
         \A v \in Worker \ {w} : worker'[v] = worker[v],
         worker'[w].shard = worker[w].shard, worker'[w].batch = worker[w].batch,
         worker'[w].orphan = worker[w].orphan,
         \A m \in worker'[w].doomed : Home(m) = worker[w].shard
  PROVE  Alone'
<1>1. \A v \in Worker : /\ Busy(v)' => Busy(v)
                        /\ worker'[v].shard = worker[v].shard
                        /\ worker'[v].batch = worker[v].batch
                        /\ worker'[v].orphan = worker[v].orphan
                        /\ worker'[v].doomed = worker[v].doomed \/ v = w
  BY DEF Busy
<1>2. QED
  BY <1>1 DEF Clean, Alone, Home

\* The events of a worker's batch are there when it reads them.
LEMMA HydrateEventsClean ==
  ASSUME IngestInv, Clean, NEW w \in Worker, HydrateEvents(w)
  PROVE  Clean'
<1>1. worker[w].phase = "keys" /\ UNCHANGED <<now, stored, faults, cached, values, pushes, raced>>
  BY DEF HydrateEvents, redis, input
<1>2. worker[w].batch \subseteq values
  BY <1>1 DEF Clean, Alone, Busy
<1>3. /\ worker' = [worker EXCEPT ![w].phase = "stamped", ![w].at = now,
                                  ![w].slow = now - worker[w].shard >= SlowAge]
      /\ UNCHANGED <<active, todo>>
  BY <1>2 DEF HydrateEvents
<1> DEFINE f == [[[worker[w] EXCEPT !.phase = "stamped"] EXCEPT !.at = now]
                  EXCEPT !.slow = now - worker[w].shard >= SlowAge]
<1>4. worker[w] \in Work /\ now \in Nat
  BY DEF IngestInv, TypeOK
<1>5. worker' = [worker EXCEPT ![w] = f]
  BY <1>3, <1>4 DEF IngestInv, TypeOK
<1>6. (now - worker[w].shard >= SlowAge) \in BOOLEAN
  OBVIOUS
<1>7. /\ f \in Work /\ f.shard = worker[w].shard /\ f.batch = worker[w].batch
      /\ f.orphan = worker[w].orphan /\ f.doomed = worker[w].doomed
  BY <1>4, <1>6 DEF Work, Phase
<1> HIDE DEF f
<1>8. /\ worker' \in [Worker -> Work] /\ worker'[w] = f
      /\ \A v \in Worker \ {w} : worker'[v] = worker[v]
  BY <1>5, <1>7 DEF IngestInv, TypeOK
<1>9. \A m \in worker[w].doomed : Home(m) = worker[w].shard
  BY <1>1 DEF Clean, Alone, Busy
<1>10. Alone'
  BY <1>1, <1>3, <1>7, <1>8, <1>9, GoesOn DEF Busy
<1>11. \A m : Landed(m) => Landed(m)'
  BY <1>1, <1>8 DEF Landed
<1>12. QED
  BY <1>1, <1>10, <1>11, StepClean

LEMMA ReadKeysClean ==
  ASSUME IngestInv, Clean, NEW w \in Worker, ReadKeys(w)
  PROVE  Clean'
<1> DEFINE f == [[worker[w] EXCEPT !.phase = "doomed"] EXCEPT !.doomed = Members(worker[w].shard)]
<1>1. /\ worker[w].phase = "landed" /\ worker' = [worker EXCEPT ![w] = f]
      /\ UNCHANGED <<now, active, todo, stored, faults, cached, values, pushes, raced>>
  BY DEF ReadKeys, redis, input, IngestInv, TypeOK
<1>2. /\ f \in Work /\ f.shard = worker[w].shard /\ f.batch = worker[w].batch
      /\ f.orphan = worker[w].orphan /\ f.doomed = Members(worker[w].shard)
      /\ f.phase = "doomed"
  <2>1. worker[w] \in Work /\ Members(worker[w].shard) \in SUBSET Metric
    BY DEF IngestInv, TypeOK, Members
  <2>2. QED
    BY <2>1 DEF Work, Phase
<1> HIDE DEF f
<1>3. /\ worker' \in [Worker -> Work] /\ worker'[w] = f
      /\ \A v \in Worker \ {w} : worker'[v] = worker[v]
  BY <1>1, <1>2 DEF IngestInv, TypeOK
<1>4. \A m \in f.doomed : Home(m) = worker[w].shard
  BY <1>2 DEF Members, Home
<1>5. Alone'
  BY <1>1, <1>2, <1>3, <1>4, GoesOn DEF Busy
<1>6. \A m : Landed(m) => Landed(m)'
  BY <1>1, <1>2, <1>3 DEF Landed
<1>7. QED
  BY <1>1, <1>5, <1>6, StepClean

\* What a worker ingests has no point yet: its shard would be gone.
LEMMA IngestClean ==
  ASSUME IngestInv, Clean, NEW w \in Worker, Ingest(w)
  PROVE  Clean'
<1> DEFINE P == Points(w, worker[w].batch)
           f == [worker[w] EXCEPT !.phase = "landed"]
<1>1. /\ worker[w].phase = "stamped" /\ stored' = Update(P) /\ worker' = [worker EXCEPT ![w] = f]
      /\ UNCHANGED <<now, active, todo, faults, cached, values, pushes, raced>>
  BY DEF Ingest, redis, input, IngestInv, TypeOK
<1>2. /\ f \in Work /\ f.shard = worker[w].shard /\ f.batch = worker[w].batch
      /\ f.orphan = worker[w].orphan /\ f.doomed = worker[w].doomed /\ f.phase = "landed"
  BY DEF IngestInv, TypeOK, Work, Phase
<1>3. /\ stored' \subseteq stored \cup P
      /\ \A p \in P : p.id \in worker[w].batch
      /\ \A p, q \in P : p.id = q.id => p = q
  BY <1>1, PointsType DEF IngestInv
<1> HIDE DEF P, f
<1>4. /\ worker' \in [Worker -> Work] /\ worker'[w] = f
      /\ \A v \in Worker \ {w} : worker'[v] = worker[v]
  BY <1>1, <1>2 DEF IngestInv, TypeOK
<1>5. /\ \A m \in worker[w].batch : m \in cached /\ Home(m) = worker[w].shard
      /\ \A m \in worker[w].doomed : Home(m) = worker[w].shard
  BY <1>1 DEF Clean, Alone, Busy
<1>6. Alone'
  BY <1>1, <1>2, <1>4, <1>5, GoesOn DEF Busy
<1>7. \A m \in worker[w].batch : ~Landed(m)
  BY <1>1, <1>5 DEF Clean, Alone, Busy, Landed
<1>8. \A p \in stored : Counted(p.id) => p.id \notin worker[w].batch
  BY <1>5, <1>7 DEF Clean, Moved
<1>9. \A m : /\ Landed(m) => Landed(m)'
             /\ m \in worker[w].batch => Landed(m)'
  BY <1>1, <1>2, <1>4 DEF Landed
<1>10. \A m : Counted(m)' <=> Counted(m)
  BY <1>1 DEF Counted, Prompt
<1>11. Moved'
  <2>1. (\A n \in cached : pushes[n] > 0)'
    BY <1>1 DEF Clean, Moved
  <2>2. (\A p \in stored : pushes[p.id] > 0 /\ Old(Home(p.id)))'
    <3>1. \A m \in worker[w].batch : pushes[m] > 0 /\ Old(Home(m))
      BY <1>1, <1>5 DEF Clean, Moved, IngestInv, Lagged, Busy
    <3>2. \A p \in stored \cup P : pushes[p.id] > 0 /\ Old(Home(p.id))
      BY <1>3, <3>1 DEF Clean, Moved
    <3>3. QED
      BY <1>1, <1>3, <3>2 DEF Old, Home
  <2>3. (\A p \in stored : Counted(p.id) /\ p.id \in cached => Landed(p.id))'
    BY <1>1, <1>3, <1>9, <1>10 DEF Clean, Moved
  <2>4. QED
    BY <2>1, <2>2, <2>3 DEF Moved
<1>12. Single'
  BY <1>3, <1>8, <1>10 DEF Clean, Single
<1>13. QED
  BY <1>6, <1>11, <1>12 DEF Clean

\* The shard that is deleted takes its metrics out of the cache, and no others.
LEMMA DeleteClean ==
  ASSUME IngestInv, Clean, NEW w \in Worker, DeleteShardAndKeys(w)
  PROVE  Clean'
<1>1. /\ worker[w].phase = "doomed"
      /\ cached' = cached \ Members(worker[w].shard)
      /\ values' = values \ worker[w].doomed
      /\ worker' = [worker EXCEPT ![w] = Free]
      /\ UNCHANGED <<now, active, todo, pushes, raced, stored, faults>>
  BY DEF DeleteShardAndKeys, SetDeleted, KeysDeleted, input
<1>2. /\ worker'[w].phase = "free"
      /\ \A v \in Worker \ {w} : worker'[v] = worker[v]
  BY <1>1, FreeType DEF IngestInv, TypeOK
<1>3. \A m \in cached' : m \in cached /\ Home(m) # worker[w].shard
  BY <1>1 DEF Members, Home
<1>4. \A m \in cached : Home(m) # worker[w].shard => m \in cached'
  BY <1>1 DEF Members, Home
<1>5. \A v \in Worker \ {w} : Busy(v) => worker[v].shard # worker[w].shard
  BY <1>1 DEF Clean, Alone, Busy
<1>6. Alone'
  <2>1. cached' \subseteq values'
    BY <1>1, <1>3 DEF Clean, Alone, Busy
  <2>2. ASSUME NEW v \in Worker, Busy(v)'
        PROVE  /\ active' /\ ~worker'[v].orphan /\ worker'[v].shard \notin todo'
               /\ \A m \in worker'[v].batch : m \in cached' /\ Home(m) = worker'[v].shard
               /\ \A m \in worker'[v].doomed : Home(m) = worker'[v].shard
    <3>1. v # w /\ worker'[v] = worker[v] /\ Busy(v)
      BY <1>2, <2>2 DEF Busy
    <3>2. QED
      BY <1>1, <1>4, <1>5, <3>1 DEF Clean, Alone
  <2>3. \A u, v \in Worker : Busy(u)' /\ Busy(v)' /\ worker'[u].shard = worker'[v].shard => u = v
    BY <1>2 DEF Clean, Alone, Busy
  <2>4. QED
    BY <2>1, <2>2, <2>3 DEF Alone, Home
<1>7. \A m \in cached' : Landed(m) => Landed(m)'
  <2>1. ASSUME NEW m \in cached', NEW v \in Worker,
               worker[v].phase \in {"landed", "doomed"}, m \in worker[v].batch
        PROVE  v # w
    BY <1>1, <1>3, <2>1 DEF Clean, Alone, Busy
  <2>2. QED
    BY <1>2, <2>1 DEF Landed
<1>8. Moved'
  BY <1>1, <1>3, <1>7 DEF Clean, Moved, Old, Home, Counted, Prompt
<1>9. Single'
  BY <1>1 DEF Clean, Single, Counted, Prompt
<1>10. QED
  BY <1>6, <1>8, <1>9 DEF Clean

\* The task ends when its workers have: none of them is unattended.
LEMMA EndExecutionClean ==
  ASSUME IngestInv, Clean, EndExecution
  PROVE  Clean'
<1>1. /\ \A w \in Worker : worker[w].phase # "free" => worker[w].orphan
      /\ UNCHANGED <<now, todo, worker, stored, faults, cached, values, pushes, raced>>
  BY DEF EndExecution, redis, input
<1>2. \A w \in Worker : ~Busy(w)
  BY <1>1 DEF Clean, Alone, Busy
<1>3. Alone'
  BY <1>1, <1>2 DEF Clean, Alone, Busy
<1>4. QED
  BY <1>1, <1>3, StepClean DEF Landed

LEMMA ClockTickClean ==
  ASSUME IngestInv, Clean, ClockTick
  PROVE  Clean'
<1>1. /\ now' = now + Milli
      /\ UNCHANGED <<stored, faults, cached, values, active, todo, worker, pushes, raced>>
  BY DEF ClockTick, redis, task, input
<1>2. Milli \in Nat /\ IngestLag \in Nat /\ now \in Nat
  BY BoundAssumption DEF IngestInv, TypeOK
<1>3. \A p \in stored : Old(Home(p.id)) => Old(Home(p.id))'
  <2>1. SUFFICES ASSUME NEW p \in stored
                 PROVE  Old(Home(p.id)) => Old(Home(p.id))'
    OBVIOUS
  <2>2. Home(p.id) \in Nat
    BY HomeType DEF IngestInv, TypeOK, Point
  <2>3. QED
    BY <1>1, <1>2, <2>2 DEF Old, Home
<1>4. Alone'
  BY <1>1 DEF Clean, Alone, Busy
<1>5. Moved' /\ Single'
  BY <1>1, <1>3 DEF Clean, Moved, Single, Counted, Prompt, Landed
<1>6. QED
  BY <1>4, <1>5 DEF Clean

LEMMA OnceNext == OnceInv /\ [Next]_vars => OnceInv'
<1> SUFFICES ASSUME OnceInv, [Next]_vars, faults' = 0
             PROVE  Clean'
  BY NextInv DEF OnceInv
<1>1. faults \in Nat /\ faults' # faults + 1
  BY BoundAssumption DEF OnceInv, IngestInv, TypeOK
<1>2. ~Crash /\ \A w \in Worker : ~IngestError(w) /\ ~RedisError(w)
  BY <1>1 DEF Crash, IngestError, RedisError
<1>3. faults = 0
  <2>1. CASE \E w \in Worker : Proceed(w)
    BY <2>1 DEF Proceed, TakeShard, HydrateEvents, Ingest, ReadKeys, DeleteShardAndKeys
  <2>2. CASE ~\E w \in Worker : Proceed(w)
    BY <1>2, <2>2 DEF Next, vars, pushMetric, Execute, EndExecution, ClockTick
  <2>3. QED
    BY <2>1, <2>2
<1>4. IngestInv /\ Clean
  BY <1>3 DEF OnceInv
<1>5. ASSUME NEW m \in Metric, pushMetric(m)
      PROVE  Clean'
  BY <1>4, <1>5, PushClean
<1>6. ASSUME NEW w \in Worker, Proceed(w)
      PROVE  Clean'
  BY <1>4, <1>6, TakeShardClean, HydrateEventsClean, IngestClean, ReadKeysClean,
     DeleteClean DEF Proceed
<1>7. CASE Execute \/ EndExecution \/ ClockTick
  BY <1>4, <1>7, ExecuteClean, EndExecutionClean, ClockTickClean
<1>8. CASE UNCHANGED vars
  BY <1>4, <1>8 DEF vars, redis, task, input, Clean, Alone, Moved, Single, Busy, Old, Home,
     Landed, Counted, Prompt
<1>9. QED
  BY <1>2, <1>5, <1>6, <1>7, <1>8 DEF Next

\* As long as nothing failed, whatever is delivered once or in time has one
\* point in Warp 10, however workers and deliveries interleave.
THEOREM IngestedOnce == Spec => []OnceWithoutFaults
<1>1. Init => OnceInv
  <2>1. ASSUME Init
        PROVE  Clean
    BY <2>1, FreeType DEF Init, Clean, Alone, Moved, Single, Busy
  <2>2. QED
    BY <2>1, InitInv DEF OnceInv
<1>2. OnceInv => OnceWithoutFaults
  BY DEF OnceInv, Clean, Single, Counted, OnceWithoutFaults
<1>3. QED
  BY <1>1, <1>2, OnceNext, PTL DEF Spec
-----------------------------------------------------------------------------
(***************************************************************************)
(* What Warp 10 keeps.  A point is lost when another metric gets its tick, *)
(* so these proofs follow the ticks: those of fast events are settled by   *)
(* the time their shard is old, unless a twin comes late; those of slow    *)
(* events depend on when their shard was read.                             *)
(***************************************************************************)
Span(w) == SlowSpan(worker[w].at, worker[w].batch)

\* Metrics of one stamp are cached, taken and deleted together.
Together ==
  /\ \A m \in cached : pushes[m] > 0
  /\ \A m \in Metric : pushes[m] > 0 /\ ~Old(Home(m)) => m \in cached
  /\ \A m \in Metric : ~Shuffled(m) /\ m \in cached => Twins(m) \subseteq cached
  /\ \A w \in Worker : \A m \in worker[w].batch :
       /\ Busy(w) /\ pushes[m] > 0 /\ Home(m) = worker[w].shard
       /\ ~Shuffled(m) => Twins(m) \subseteq worker[w].batch

\* The tick of a fast event follows its stamp, and does not depend on the batch
\* it is sent with.
Lower(m) == {n \in Twins(m) : Rank[n] < Rank[m]}
FastTick(m) == Stamp[m] + Cardinality(Lower(m))
Tick(m, t) ==
  /\ t \in Nat /\ Stamp[m] =< t /\ t < Stamp[m] + Cardinality(Twins(m))
  /\ ~Shuffled(m) => t = FastTick(m)

FastRight ==
  \A p \in stored :
    pushes[p.id] > 0 /\ Old(Home(p.id)) /\ (~p.slow => Tick(p.id, p.at))

TicksInv == IngestInv /\ Together /\ FastRight

\* The ticks of slow events that wait to be sent are theirs alone, or known to
\* be common.
SlowRight ==
  /\ \A w \in Worker : Anew(w) => \A p \in stored :
       p.slow => \/ p.at \notin Span(w)
                 \/ p.id \in worker[w].batch /\ p.at = InterpolatedClock(w, p.id)
                 \/ p.id \in crossed /\ worker[w].batch \subseteq crossed
  /\ \A v, w \in Worker : Anew(v) /\ Anew(w) /\ v # w =>
       \/ Span(v) \cap Span(w) = {}
       \/ worker[v].batch \cup worker[w].batch \subseteq crossed

\* What a worker is about to delete was sent, or came in behind its back.
Sent(m) == m \in Ids(stored) \/ Exposed(m)
Handed ==
  \A w \in Worker :
    /\ worker[w].phase \in {"keys", "stamped", "landed"} =>
         \A m \in Members(worker[w].shard) : m \in worker[w].batch \/ m \in raced
    /\ worker[w].phase = "landed" => \A m \in worker[w].batch : Sent(m)
    /\ worker[w].phase = "doomed" => \A m \in worker[w].doomed : Sent(m) \/ m \in raced

KeptInv == TicksInv /\ SlowRight /\ Handed /\ NothingDropped
-----------------------------------------------------------------------------
(***************************************************************************)
(* What a step does to a worker: it is freed, goes on as it was, takes a   *)
(* shard, reads its events, has sent them, or looks up the keys to delete. *)
(***************************************************************************)
SameShard(v) == worker'[v].shard = worker[v].shard /\ worker'[v].batch = worker[v].batch
SameTicks(v) == SameShard(v) /\ worker'[v].at = worker[v].at /\ worker'[v].slow = worker[v].slow

Met(v) == Within(SlowSpan(now, worker[v].batch))

Rests(v) ==
  SameTicks(v) /\ worker'[v].phase = worker[v].phase /\ worker'[v].doomed = worker[v].doomed
Takes(v) ==
  /\ worker'[v].phase = "keys"
  /\ worker'[v].shard \in todo /\ worker'[v].batch = Members(worker'[v].shard)
Reads(v) ==
  /\ SameShard(v) /\ worker[v].phase = "keys"
  /\ worker'[v].phase = "stamped" /\ worker'[v].at = now
  /\ worker'[v].slow /\ Met(v) # {} => Met(v) \cup worker[v].batch \subseteq crossed'
  /\ \A u \in Worker \ {v} : worker'[u] = worker[u]
Sends(v) ==
  /\ SameTicks(v) /\ worker[v].phase = "stamped" /\ worker'[v].phase = "landed"
  /\ stored' = Update(Points(v, worker[v].batch))
Looks(v) ==
  /\ SameTicks(v) /\ worker[v].phase = "landed"
  /\ worker'[v].phase = "doomed" /\ worker'[v].doomed = Members(worker[v].shard)

Moves ==
  \A v \in Worker :
    worker'[v] = Free \/ Rests(v) \/ Takes(v) \/ Reads(v) \/ Sends(v) \/ Looks(v)

\* What it does to Warp 10, and to the cache.
Stores ==
  \/ stored' = stored
  \/ \E w \in Worker : \E M \in SUBSET worker[w].batch :
       worker[w].phase = "stamped" /\ stored' = Update(Points(w, M))

Deletes ==
  /\ UNCHANGED <<now, pushes, raced, late, crossed, stored>>
  /\ \E w \in Worker : /\ worker[w].phase = "doomed" /\ cached' = cached \ Members(worker[w].shard)
                       /\ worker'[w] = Free
                       /\ \A v \in Worker \ {w} : worker'[v] = worker[v]

Works ==
  /\ UNCHANGED <<now, pushes, raced, late, cached>>
  /\ crossed \subseteq crossed'
  /\ Moves
  /\ Stores

LEMMA FailMoves ==
  ASSUME TypeOK, NEW w \in Worker, Fail(w)
  PROVE  \A v \in Worker : worker'[v] = Free \/ Rests(v)
<1>1. CASE worker[w].orphan
  BY <1>1 DEF Fail, TypeOK, Rests, SameTicks, SameShard
<1>2. CASE ~worker[w].orphan
  <2>1. worker' = [v \in Worker |-> IF v = w \/ worker[v].phase = "free" THEN Free
                                    ELSE [worker[v] EXCEPT !.orphan = TRUE]]
    BY <1>2 DEF Fail
  <2>2. \A v \in Worker : LET o == [worker[v] EXCEPT !.orphan = TRUE]
                          IN  /\ o.phase = worker[v].phase /\ o.shard = worker[v].shard
                              /\ o.batch = worker[v].batch /\ o.at = worker[v].at
                              /\ o.slow = worker[v].slow /\ o.doomed = worker[v].doomed
    BY DEF TypeOK, Work
  <2>3. QED
    BY <2>1, <2>2 DEF Rests, SameTicks, SameShard
<1>3. QED
  BY <1>1, <1>2

LEMMA Kinds ==
  ASSUME IngestInv, [Next]_vars
  PROVE  \/ \E m \in Metric : pushMetric(m)
         \/ ClockTick
         \/ Deletes
         \/ Works
<1>1. ASSUME NEW w \in Worker, DeleteShardAndKeys(w)
      PROVE  Deletes
  BY <1>1 DEF DeleteShardAndKeys, Deletes, SetDeleted, input, IngestInv, TypeOK
<1>2. ASSUME NEW w \in Worker, NEW s \in Shard, TakeShard(w, s)
      PROVE  Works
  <2> DEFINE f == [Free EXCEPT !.phase = "keys", !.shard = s, !.batch = Members(s)]
  <2>1. /\ s \in todo /\ (worker' = worker \/ worker' = [worker EXCEPT ![w] = f])
        /\ UNCHANGED <<now, stored, faults, cached, values, pushes, raced, late, crossed>>
    BY <1>2 DEF TakeShard, redis, input
  <2>2. f.phase = "keys" /\ f.shard = s /\ f.batch = Members(s)
    BY DEF Free
  <2> HIDE DEF f
  <2>3. \A v \in Worker : worker'[v] = worker[v] \/ worker'[v] = f
    BY <2>1 DEF IngestInv, TypeOK
  <2>4. \A v \in Worker : Rests(v) \/ Takes(v)
    BY <2>1, <2>2, <2>3 DEF Rests, SameTicks, SameShard, Takes
  <2>5. QED
    BY <2>1, <2>4 DEF Works, Moves, Stores
<1>3. ASSUME NEW w \in Worker, HydrateEvents(w)
      PROVE  Works
  <2>1. worker[w].phase = "keys" /\ UNCHANGED <<now, stored, faults, cached, values, pushes, raced, late>>
    BY <1>3 DEF HydrateEvents, redis, input
  <2>2. CASE worker[w].batch \subseteq values
    <3> DEFINE f == [[[worker[w] EXCEPT !.phase = "stamped"] EXCEPT !.at = now]
                      EXCEPT !.slow = now - worker[w].shard >= SlowAge]
    <3>1. worker[w] \in Work
      BY DEF IngestInv, TypeOK
    <3>2. worker' = [worker EXCEPT ![w] = f]
      BY <1>3, <2>2, <3>1 DEF HydrateEvents, IngestInv, TypeOK
    <3>3. /\ f.phase = "stamped" /\ f.at = now /\ f.shard = worker[w].shard /\ f.batch = worker[w].batch
          /\ f.slow = (now - worker[w].shard >= SlowAge)
      BY <3>1 DEF Work
    <3> HIDE DEF f
    <3>4. /\ crossed \subseteq crossed'
          /\ f.slow /\ Met(w) # {} => Met(w) \cup worker[w].batch \subseteq crossed'
      BY <1>3, <2>2, <3>3 DEF HydrateEvents, Met
    <3>5. worker'[w] = f /\ \A u \in Worker \ {w} : worker'[u] = worker[u]
      BY <3>2 DEF IngestInv, TypeOK
    <3>6. Reads(w)
      BY <2>1, <3>3, <3>4, <3>5 DEF SameShard, Reads
    <3>7. \A v \in Worker \ {w} : Rests(v)
      BY <3>5 DEF Rests, SameTicks, SameShard
    <3>8. QED
      BY <2>1, <3>4, <3>6, <3>7 DEF Works, Moves, Stores
  <2>3. CASE ~(worker[w].batch \subseteq values)
    BY <1>3, <2>1, <2>3, FailMoves DEF HydrateEvents, IngestInv, Works, Moves, Stores
  <2>4. QED
    BY <2>2, <2>3
<1>4. ASSUME NEW w \in Worker, Ingest(w)
      PROVE  Works
  <2> DEFINE f == [worker[w] EXCEPT !.phase = "landed"]
  <2>1. /\ worker[w].phase = "stamped" /\ worker' = [worker EXCEPT ![w] = f]
        /\ stored' = Update(Points(w, worker[w].batch))
        /\ UNCHANGED <<now, faults, cached, values, pushes, raced, late, crossed>>
    BY <1>4 DEF Ingest, redis, input, IngestInv, TypeOK
  <2>2. /\ f.phase = "landed" /\ f.shard = worker[w].shard /\ f.batch = worker[w].batch
        /\ f.at = worker[w].at /\ f.slow = worker[w].slow
    BY DEF IngestInv, TypeOK, Work
  <2> HIDE DEF f
  <2>3. \A v \in Worker : Rests(v) \/ Sends(v)
    BY <2>1, <2>2 DEF IngestInv, TypeOK, Rests, SameTicks, SameShard, Sends
  <2>4. Stores
    BY <2>1 DEF Stores
  <2>5. QED
    BY <2>1, <2>3, <2>4 DEF Works, Moves
<1>5. ASSUME NEW w \in Worker, IngestError(w)
      PROVE  Works
  <2>1. worker[w].phase = "stamped" /\ UNCHANGED <<now, cached, values, pushes, raced, late, crossed>>
    BY <1>5 DEF IngestError, redis, input
  <2>2. Stores
    BY <1>5, <2>1 DEF IngestError, Stores
  <2>3. CASE worker[w].host < NumHosts
    <3> DEFINE f == [worker[w] EXCEPT !.host = worker[w].host + 1]
    <3>1. worker' = [worker EXCEPT ![w] = f]
      BY <1>5, <2>3 DEF IngestError, IngestInv, TypeOK
    <3>2. /\ f.phase = worker[w].phase /\ f.shard = worker[w].shard /\ f.batch = worker[w].batch
          /\ f.at = worker[w].at /\ f.slow = worker[w].slow /\ f.doomed = worker[w].doomed
      BY DEF IngestInv, TypeOK, Work
    <3> HIDE DEF f
    <3>3. \A v \in Worker : Rests(v)
      BY <3>1, <3>2 DEF IngestInv, TypeOK, Rests, SameTicks, SameShard
    <3>4. QED
      BY <2>1, <2>2, <3>3 DEF Works, Moves
  <2>4. CASE ~(worker[w].host < NumHosts)
    BY <1>5, <2>1, <2>2, <2>4, FailMoves DEF IngestError, IngestInv, Works, Moves
  <2>5. QED
    BY <2>3, <2>4
<1>6. ASSUME NEW w \in Worker, ReadKeys(w)
      PROVE  Works
  <2> DEFINE f == [[worker[w] EXCEPT !.phase = "doomed"] EXCEPT !.doomed = Members(worker[w].shard)]
  <2>1. /\ worker[w].phase = "landed" /\ worker' = [worker EXCEPT ![w] = f]
        /\ UNCHANGED <<now, stored, faults, cached, values, pushes, raced, late, crossed>>
    BY <1>6 DEF ReadKeys, redis, input, IngestInv, TypeOK
  <2>2. /\ f.phase = "doomed" /\ f.shard = worker[w].shard /\ f.batch = worker[w].batch
        /\ f.at = worker[w].at /\ f.slow = worker[w].slow /\ f.doomed = Members(worker[w].shard)
    BY DEF IngestInv, TypeOK, Work
  <2> HIDE DEF f
  <2>3. \A v \in Worker : Rests(v) \/ Looks(v)
    BY <2>1, <2>2 DEF IngestInv, TypeOK, Rests, SameTicks, SameShard, Looks
  <2>4. QED
    BY <2>1, <2>3 DEF Works, Moves, Stores
<1>7. ASSUME NEW w \in Worker, RedisError(w)
      PROVE  Works
  BY <1>7, FailMoves DEF RedisError, redis, input, IngestInv, Works, Moves, Stores
<1>8. CASE Crash
  BY <1>8 DEF Crash, redis, input, Works, Moves, Stores
<1>9. CASE Execute \/ EndExecution \/ UNCHANGED vars
  BY <1>9 DEF Execute, EndExecution, vars, redis, task, input, Works, Moves, Stores,
     Rests, SameTicks, SameShard
<1>10. QED
  BY <1>1, <1>2, <1>3, <1>4, <1>5, <1>6, <1>7, <1>8, <1>9 DEF Next, Proceed

\* Histories only grow, and so do the metrics of a stamp.
LEMMA Grows ==
  ASSUME IngestInv, [Next]_vars
  PROVE  /\ late \subseteq late' /\ crossed \subseteq crossed' /\ raced \subseteq raced'
         /\ \A n \in Metric : pushes[n] > 0 => pushes'[n] > 0
         /\ \A m : Twins(m) \subseteq Twins(m)'
<1>1. ASSUME NEW m \in Metric, pushMetric(m)
      PROVE  /\ late \subseteq late' /\ crossed \subseteq crossed' /\ raced \subseteq raced'
             /\ \A n \in Metric : pushes[n] > 0 => pushes'[n] > 0
  <2>1. pushes' = [pushes EXCEPT ![m] = @ + 1] /\ pushes \in [Metric -> Nat]
    BY <1>1 DEF pushMetric, IngestInv, TypeOK
  <2>2. \A n \in Metric : pushes[n] > 0 => pushes'[n] > 0
    BY <2>1
  <2>3. QED
    BY <1>1, <2>2 DEF pushMetric
<1>2. CASE ClockTick
  BY <1>2 DEF ClockTick, input, Twins
<1>3. CASE Deletes
  BY <1>3 DEF Deletes, Twins
<1>4. CASE Works
  BY <1>4 DEF Works, Twins
<1>5. /\ late \subseteq late' /\ crossed \subseteq crossed' /\ raced \subseteq raced'
      /\ \A n \in Metric : pushes[n] > 0 => pushes'[n] > 0
  BY <1>1, <1>2, <1>3, <1>4, Kinds
<1>6. QED
  BY <1>5 DEF Twins

LEMMA TwinsSize ==
  ASSUME NEW m
  PROVE  /\ IsFiniteSet(Twins(m)) /\ Cardinality(Twins(m)) \in Nat
         /\ IsFiniteSet(Twins(m)') /\ Cardinality(Twins(m))' \in Nat
         /\ Twins(m) \subseteq Twins(m)' => Cardinality(Twins(m)) =< Cardinality(Twins(m))'
<1>1. Twins(m) \subseteq Metric /\ Twins(m)' \subseteq Metric
  BY DEF Twins
<1>2. QED
  BY <1>1, BoundAssumption, FS_Subset, FS_CardinalityType

\* What can take a metric's tick goes on to be able to.
LEMMA ExposedStays ==
  ASSUME IngestInv, [Next]_vars, NEW m \in Metric
  PROVE  /\ Shuffled(m) => Shuffled(m)'
         /\ Exposed(m) => Exposed(m)'
<1>1. Shuffled(m) => Shuffled(m)'
  <2>1. SUFFICES ASSUME Shuffled(m)
                 PROVE  Shuffled(m)'
    OBVIOUS
  <2>2. PICK n \in Twins(m) : n \in late
    BY <2>1 DEF Shuffled
  <2>3. n \in Twins(m)' /\ n \in late'
    BY <2>2, Grows
  <2>4. Twins(m)' # {m}
    BY <2>1, <2>2, Grows DEF Shuffled
  <2>5. QED
    BY <2>3, <2>4 DEF Shuffled
<1>2. ASSUME NEW k \in Metric, NEW l \in Metric, Runs(k, l)
      PROVE  Runs(k, l)'
  <2>1. Cardinality(Twins(k)) =< Cardinality(Twins(k))'
    BY TwinsSize, Grows
  <2>2. Stamp[k] \in Nat /\ Stamp[l] \in Nat
    BY HomeType
  <2>3. QED
    BY <1>2, <2>1, <2>2, TwinsSize DEF Runs
<1>3. Crowded(m) => Crowded(m)'
  BY <1>2, Grows DEF Crowded
<1>4. QED
  BY <1>1, <1>3, Grows DEF Exposed

\* A delivery, and what it means for the metrics of its stamp: once their shard
\* is old they are shuffled, but for the metric itself if it is alone.
LEMMA Pushed ==
  ASSUME IngestInv, NEW m \in Metric, pushMetric(m)
  PROVE  /\ cached' = cached \cup {m} /\ UNCHANGED <<now, stored, worker, crossed>>
         /\ \A n \in Metric : pushes'[n] > 0 <=> pushes[n] > 0 \/ n = m
         /\ \A k \in Metric : Twins(k)' = Twins(k) \cup {n \in {m} : Stamp[n] = Stamp[k]}
         /\ \A k \in Metric : Stamp[k] # Stamp[m] /\ ~Shuffled(k)' => ~Shuffled(k)
         /\ \A k \in Metric : Stamp[k] = Stamp[m] /\ Old(Home(k)) /\ ~Shuffled(k)' =>
              k = m /\ Twins(k)' = {k}
<1>1. /\ cached' = cached \cup {m} /\ UNCHANGED <<now, stored, worker, crossed>>
      /\ Old(Home(m)) => m \in late'
      /\ pushes' = [pushes EXCEPT ![m] = @ + 1] /\ pushes \in [Metric -> Nat]
  BY DEF pushMetric, task, IngestInv, TypeOK
<1>2. \A n \in Metric : pushes'[n] > 0 <=> pushes[n] > 0 \/ n = m
  BY <1>1
<1>3. \A k \in Metric : Twins(k)' = Twins(k) \cup {n \in {m} : Stamp[n] = Stamp[k]}
  BY <1>2 DEF Twins
<1>4. \A k \in Metric : ~Shuffled(k)' => ~Shuffled(k)
  BY ExposedStays DEF Next
<1>5. ASSUME NEW k \in Metric, Stamp[k] = Stamp[m], Old(Home(k)), ~Shuffled(k)'
      PROVE  k = m /\ Twins(k)' = {k}
  <2>1. m \in Twins(k)' /\ m \in late'
    BY <1>1, <1>3, <1>5 DEF Home
  <2>2. QED
    BY <1>5, <2>1 DEF Shuffled
<1>6. QED
  BY <1>1, <1>2, <1>3, <1>4, <1>5

LEMMA TogetherNext ==
  ASSUME IngestInv, Together, [Next]_vars
  PROVE  Together'
<1>1. ASSUME NEW m \in Metric, pushMetric(m)
      PROVE  Together'
  <2>1. cached' = cached \cup {m} /\ UNCHANGED <<now, stored, worker>> /\ cached \subseteq Metric
    BY <1>1, Pushed DEF IngestInv, TypeOK
  <2>2. \A n \in Metric : pushes'[n] > 0 <=> pushes[n] > 0 \/ n = m
    BY <1>1, Pushed
  <2>3. (\A n \in cached : pushes[n] > 0)'
    BY <2>1, <2>2 DEF Together
  <2>4. (\A n \in Metric : pushes[n] > 0 /\ ~Old(Home(n)) => n \in cached)'
    BY <2>1, <2>2 DEF Together, Old, Home
  <2>5. ASSUME NEW k \in Metric, ~Shuffled(k)', k \in cached'
        PROVE  Twins(k)' \subseteq cached'
    <3>1. CASE Stamp[k] # Stamp[m]
      <4>1. ~Shuffled(k) /\ k \in cached
        BY <1>1, <2>1, <2>5, <3>1, Pushed
      <4>2. Twins(k)' = Twins(k)
        BY <1>1, <3>1, Pushed
      <4>3. QED
        BY <2>1, <4>1, <4>2 DEF Together
    <3>2. CASE Stamp[k] = Stamp[m] /\ Old(Home(k))
      BY <1>1, <2>5, <3>2, Pushed
    <3>3. CASE Stamp[k] = Stamp[m] /\ ~Old(Home(k))
      <4>1. \A n \in Twins(k) : n \in Metric /\ pushes[n] > 0 /\ Home(n) = Home(k)
        BY DEF Twins, Home
      <4>2. Twins(k) \subseteq cached
        BY <3>3, <4>1 DEF Together
      <4>3. QED
        BY <1>1, <2>1, <4>2, Pushed
    <3>4. QED
      BY <3>1, <3>2, <3>3
  <2>6. ASSUME NEW w \in Worker, NEW k \in worker[w].batch
        PROVE  /\ Busy(w)' /\ pushes'[k] > 0 /\ Home(k) = worker[w].shard
               /\ ~Shuffled(k)' => Twins(k)' \subseteq worker[w].batch
    <3>1. /\ Busy(w) /\ pushes[k] > 0 /\ Home(k) = worker[w].shard /\ k \in Metric
          /\ ~Shuffled(k) => Twins(k) \subseteq worker[w].batch
      BY <2>6 DEF Together, IngestInv, TypeOK, Work
    <3>2. Old(Home(k))
      BY <3>1 DEF IngestInv, Lagged
    <3>3. CASE Stamp[k] # Stamp[m]
      BY <1>1, <2>1, <2>2, <3>1, <3>3, Pushed DEF Busy
    <3>4. CASE Stamp[k] = Stamp[m]
      BY <1>1, <2>1, <2>2, <2>6, <3>1, <3>2, <3>4, Pushed DEF Busy
    <3>5. QED
      BY <3>3, <3>4
  <2>7. QED
    BY <2>1, <2>3, <2>4, <2>5, <2>6 DEF Together, Home
<1>2. CASE ClockTick
  <2>1. UNCHANGED <<cached, pushes, late, worker>>
    BY <1>2 DEF ClockTick, redis, task, input
  <2>2. \A m \in Metric : Old(Home(m)) => Old(Home(m))'
    BY <1>2, HomeType, BoundAssumption DEF ClockTick, Old, Home, IngestInv, TypeOK
  <2>3. QED
    BY <2>1, <2>2 DEF Together, Busy, Home, Twins, Shuffled
<1>3. CASE Deletes
  <2>1. PICK w \in Worker : /\ worker[w].phase = "doomed"
                            /\ cached' = cached \ Members(worker[w].shard) /\ worker'[w] = Free
                            /\ \A v \in Worker \ {w} : worker'[v] = worker[v]
    BY <1>3 DEF Deletes
  <2>2. UNCHANGED <<now, pushes, late>>
    BY <1>3 DEF Deletes
  <2>3. Old(worker[w].shard) /\ cached \subseteq Metric
    BY <2>1 DEF IngestInv, TypeOK, Lagged, Busy
  <2>4. \A m : m \in cached' <=> m \in cached /\ Home(m) # worker[w].shard
    BY <2>1 DEF Members
  <2>5. \A m : \A n \in Twins(m) : Home(n) = Home(m)
    BY DEF Home, Twins
  <2>6. (\A m \in Metric : pushes[m] > 0 /\ ~Old(Home(m)) => m \in cached)'
    BY <2>2, <2>3, <2>4 DEF Together, Old, Home
  <2>7. \A m : Twins(m)' = Twins(m) /\ (Shuffled(m)' <=> Shuffled(m))
    BY <2>2 DEF Twins, Shuffled
  <2>8. \A m \in Metric : ~Shuffled(m) /\ m \in cached' => Twins(m) \subseteq cached'
    BY <2>4, <2>5 DEF Together
  <2>9. \A v \in Worker : \A m \in worker'[v].batch : v # w
    BY <2>1, FreeType
  <2>10. \A v \in Worker : \A m \in worker'[v].batch :
          /\ Busy(v)' /\ pushes[m] > 0 /\ Home(m) = worker'[v].shard
          /\ ~Shuffled(m) => Twins(m) \subseteq worker'[v].batch
    BY <2>1, <2>9 DEF Together, Busy
  <2>11. QED
    BY <2>2, <2>4, <2>6, <2>7, <2>8, <2>10 DEF Together, Home
<1>4. CASE Works
  <2>1. UNCHANGED <<now, pushes, late, cached>>
    BY <1>4 DEF Works
  <2>2. ASSUME NEW v \in Worker, NEW m \in worker'[v].batch
        PROVE  /\ Busy(v)' /\ pushes[m] > 0 /\ Home(m) = worker'[v].shard
               /\ ~Shuffled(m) => Twins(m) \subseteq worker'[v].batch
    <3>1. CASE SameShard(v) /\ (Busy(v) => Busy(v)')
      BY <2>2, <3>1 DEF Together, SameShard
    <3>2. CASE Takes(v)
      <4>1. m \in cached /\ m \in Metric /\ Home(m) = worker'[v].shard
        BY <2>2, <3>2 DEF Takes, Members, IngestInv, TypeOK
      <4>2. ~Shuffled(m) => Twins(m) \subseteq cached
        BY <4>1 DEF Together
      <4>3. \A n \in Twins(m) : Home(n) = Home(m)
        BY DEF Home, Twins
      <4>4. QED
        BY <3>2, <4>1, <4>2, <4>3 DEF Together, Takes, Members, Busy
    <3>3. CASE worker'[v] = Free
      BY <2>2, <3>3, FreeType
    <3>4. QED
      BY <1>4, <3>1, <3>2, <3>3 DEF Works, Moves, Rests, Reads, Sends, Looks, SameTicks, Busy
  <2>3. \A m : Twins(m)' = Twins(m) /\ (Shuffled(m)' <=> Shuffled(m))
    BY <2>1 DEF Twins, Shuffled
  <2>4. QED
    BY <2>1, <2>2, <2>3 DEF Together, Home, Old
<1>5. QED
  BY <1>1, <1>2, <1>3, <1>4, Kinds
-----------------------------------------------------------------------------
LEMMA LowerSize ==
  ASSUME NEW m \in Metric, pushes[m] > 0
  PROVE  /\ IsFiniteSet(Lower(m)) /\ Cardinality(Lower(m)) \in Nat
         /\ Cardinality(Lower(m)) < Cardinality(Twins(m)) /\ Cardinality(Twins(m)) \in Nat
<1>1. Lower(m) \subseteq Twins(m) /\ m \in Twins(m) /\ m \notin Lower(m)
  BY RankAssumption DEF Lower, Twins
<1>2. QED
  BY <1>1, TwinsSize, FS_Subset, FS_CardinalityType

\* Fast events have ticks of their own, unless another may get theirs.
LEMMA FastApart ==
  ASSUME NEW m \in Metric, NEW n \in Metric, pushes[m] > 0, pushes[n] > 0, NEW t,
         Tick(m, t), Tick(n, t), ~Shuffled(m), ~Crowded(m)
  PROVE  m = n
<1>1. /\ Cardinality(Twins(m)) \in Nat /\ Cardinality(Twins(n)) \in Nat
      /\ Stamp[m] \in Nat /\ Stamp[n] \in Nat /\ t \in Nat
  BY TwinsSize, HomeType DEF Tick
<1>2. Stamp[m] = Stamp[n]
  <2>1. ~(Stamp[m] < Stamp[n])
    BY <1>1 DEF Tick, Crowded, Runs
  <2>2. ~(Stamp[n] < Stamp[m])
    BY <1>1 DEF Tick, Crowded, Runs
  <2>3. QED
    BY <1>1, <2>1, <2>2
<1>3. SUFFICES ASSUME m # n
               PROVE  FALSE
  OBVIOUS
<1>4. Twins(m) = Twins(n) /\ m \in Twins(m) /\ n \in Twins(m)
  BY <1>2 DEF Twins
<1>5. ~Shuffled(n)
  BY <1>3, <1>4 DEF Shuffled
<1>6. Cardinality(Lower(m)) = Cardinality(Lower(n))
  <2>1. t = Stamp[m] + Cardinality(Lower(m)) /\ t = Stamp[n] + Cardinality(Lower(n))
    BY <1>5 DEF Tick, FastTick
  <2>2. QED
    BY <1>1, <1>2, <2>1, LowerSize
<1>7. ASSUME NEW k \in Metric, NEW l \in Metric, k \in Twins(l), Twins(k) = Twins(l),
             pushes[k] > 0, pushes[l] > 0, Rank[k] < Rank[l]
      PROVE  Cardinality(Lower(k)) < Cardinality(Lower(l))
  <2>1. Lower(k) \subseteq Lower(l) /\ k \in Lower(l) /\ k \notin Lower(k)
    <3>1. Rank[k] \in Nat /\ Rank[l] \in Nat /\ \A i \in Metric : Rank[i] \in Nat
      BY RankAssumption
    <3>2. \A i \in Twins(k) : i \in Metric
      BY DEF Twins
    <3>3. QED
      BY <1>7, <3>1, <3>2 DEF Lower
  <2>2. QED
    BY <1>7, <2>1, LowerSize, FS_Subset
<1>8. Rank[m] \in Nat /\ Rank[n] \in Nat /\ Rank[m] # Rank[n]
  BY <1>3, RankAssumption
<1>9. CASE Rank[m] < Rank[n]
  BY <1>4, <1>6, <1>7, <1>9, LowerSize
<1>10. CASE Rank[n] < Rank[m]
  BY <1>4, <1>6, <1>7, <1>10, LowerSize
<1>11. QED
  BY <1>8, <1>9, <1>10

\* What a worker would send.
LEMMA FastSent ==
  ASSUME IngestInv, Together, NEW w \in Worker, ~worker[w].slow, NEW m \in worker[w].batch
  PROVE  Tick(m, InterpolatedClock(w, m))
<1> DEFINE B == {n \in worker[w].batch : Timestamp(w, n) = Timestamp(w, m) /\ Rank[n] < Rank[m]}
<1>1. m \in Metric /\ pushes[m] > 0 /\ \A n \in worker[w].batch : n \in Metric /\ pushes[n] > 0
  BY DEF IngestInv, TypeOK, Work, Together
<1>2. ~Shuffled(m) => Twins(m) \subseteq worker[w].batch
  BY DEF Together
<1>3. \A n : Timestamp(w, n) = Stamp[n]
  BY DEF Timestamp
<1>4. B \subseteq Lower(m) /\ (~Shuffled(m) => B = Lower(m))
  BY <1>1, <1>2, <1>3 DEF Lower, Twins
<1>5. InterpolatedClock(w, m) = Stamp[m] + Cardinality(B)
  BY <1>3 DEF InterpolatedClock
<1> HIDE DEF B
<1>6. /\ Cardinality(B) \in Nat /\ Cardinality(B) < Cardinality(Twins(m))
      /\ Stamp[m] \in Nat /\ Cardinality(Twins(m)) \in Nat
  BY <1>1, <1>4, LowerSize, HomeType, FS_Subset, FS_CardinalityType
<1>7. ~Shuffled(m) => InterpolatedClock(w, m) = FastTick(m)
  BY <1>4, <1>5 DEF FastTick
<1>8. QED
  BY <1>5, <1>6, <1>7 DEF Tick

LEMMA PointFields ==
  ASSUME TypeOK, NEW w \in Worker, NEW M \in SUBSET worker[w].batch, NEW p \in Points(w, M)
  PROVE  /\ p.id \in M /\ p.host = worker[w].host /\ p.slow = worker[w].slow
         /\ p.at = InterpolatedClock(w, p.id)
BY DEF Points

\* A delivery leaves the tick of a metric of an old shard where it was.
LEMMA TickStays ==
  ASSUME IngestInv, NEW m \in Metric, pushMetric(m), NEW k \in Metric, Old(Home(k)),
         pushes[k] > 0, NEW t, Tick(k, t)
  PROVE  Tick(k, t)'
<1>1. /\ Stamp[k] \in Nat /\ Cardinality(Twins(k)) \in Nat /\ Cardinality(Twins(k))' \in Nat
      /\ Cardinality(Twins(k)) =< Cardinality(Twins(k))'
  BY HomeType, TwinsSize, Grows DEF Next
<1>2. ASSUME ~Shuffled(k)'
      PROVE  ~Shuffled(k) /\ Lower(k)' = Lower(k)
  <2>1. ~Shuffled(k)
    BY <1>2, ExposedStays DEF Next
  <2>2. CASE Stamp[k] # Stamp[m]
    <3>1. Twins(k)' = Twins(k)
      BY <2>2, Pushed
    <3>2. QED
      BY <2>1, <3>1 DEF Lower
  <2>3. CASE Stamp[k] = Stamp[m]
    <3>1. Twins(k)' = {k} /\ Twins(k) \subseteq {k}
      BY <1>2, <2>3, Pushed
    <3>2. ~(Rank[k] < Rank[k])
      BY RankAssumption
    <3>3. QED
      BY <2>1, <3>1, <3>2 DEF Lower
  <2>4. QED
    BY <2>2, <2>3
<1>3. ~Shuffled(k)' => t = FastTick(k)'
  BY <1>2 DEF Tick, FastTick
<1>4. t \in Nat /\ Stamp[k] =< t /\ t < Stamp[k] + Cardinality(Twins(k))'
  BY <1>1 DEF Tick
<1>5. QED
  BY <1>3, <1>4 DEF Tick

LEMMA FastRightNext ==
  ASSUME TicksInv, [Next]_vars
  PROVE  FastRight'
<1>0. stored \in SUBSET Point /\ now \in Nat
  BY DEF TicksInv, IngestInv, TypeOK
<1>1. ASSUME NEW m \in Metric, pushMetric(m)
      PROVE  FastRight'
  <2>1. UNCHANGED <<now, stored>> /\ \A n \in Metric : pushes[n] > 0 => pushes'[n] > 0
    BY <1>1, Pushed DEF TicksInv
  <2>2. ASSUME NEW p \in stored
        PROVE  pushes'[p.id] > 0 /\ Old(Home(p.id)) /\ (~p.slow => Tick(p.id, p.at)')
    BY <1>0, <1>1, <2>1, TickStays DEF TicksInv, FastRight, Point
  <2>3. QED
    BY <2>1, <2>2 DEF FastRight, Old, Home, Tick, FastTick
<1>2. CASE ClockTick
  <2>1. now' = now + Milli /\ UNCHANGED <<stored, pushes, late>>
    BY <1>2 DEF ClockTick, input
  <2>2. \A p \in stored : Old(Home(p.id)) => Old(Home(p.id))'
    BY <1>0, <2>1, HomeType, BoundAssumption DEF Old, Home, Point
  <2>3. QED
    BY <2>1, <2>2 DEF TicksInv, FastRight, Tick, FastTick, Lower, Twins, Shuffled
<1>3. ASSUME UNCHANGED <<now, pushes, late>>, Stores
      PROVE  FastRight'
  <2>1. ASSUME NEW w \in Worker, NEW M \in SUBSET worker[w].batch, NEW p \in Points(w, M)
        PROVE  pushes[p.id] > 0 /\ Old(Home(p.id)) /\ (~p.slow => Tick(p.id, p.at))
    <3>1. p.id \in worker[w].batch /\ p.slow = worker[w].slow /\ p.at = InterpolatedClock(w, p.id)
      BY PointFields DEF TicksInv, IngestInv
    <3>2. pushes[p.id] > 0 /\ Old(Home(p.id))
      BY <3>1 DEF TicksInv, Together, IngestInv, Lagged
    <3>3. QED
      BY <3>1, <3>2, FastSent DEF TicksInv
  <2>2. \A p \in stored' :
          pushes[p.id] > 0 /\ Old(Home(p.id)) /\ (~p.slow => Tick(p.id, p.at))
    <3>1. CASE stored' = stored
      BY <3>1 DEF TicksInv, FastRight
    <3>2. CASE stored' # stored
      <4>1. PICK w \in Worker : \E M \in SUBSET worker[w].batch : stored' = Update(Points(w, M))
        BY <1>3, <3>2 DEF Stores
      <4>2. PICK M \in SUBSET worker[w].batch : stored' = Update(Points(w, M))
        BY <4>1
      <4>3. \A p \in stored' : p \in stored \/ p \in Points(w, M)
        BY <4>2 DEF Update
      <4>4. QED
        BY <2>1, <4>3 DEF TicksInv, FastRight
    <3>3. QED
      BY <3>1, <3>2
  <2>3. \A m, t : Tick(m, t) => Tick(m, t)'
    BY <1>3 DEF Tick, FastTick, Lower, Twins, Shuffled
  <2>4. QED
    BY <1>3, <2>2, <2>3 DEF FastRight, Tick, FastTick, Old, Home
<1>4. QED
  BY <1>1, <1>2, <1>3, Kinds DEF TicksInv, Deletes, Works, Stores

LEMMA TicksInit == Init => TicksInv
<1> SUFFICES ASSUME Init
             PROVE  TicksInv
  OBVIOUS
<1>1. Together
  BY FreeType DEF Init, Together
<1>2. FastRight
  BY DEF Init, FastRight
<1>3. QED
  BY <1>1, <1>2, InitInv DEF TicksInv

LEMMA TicksNext == TicksInv /\ [Next]_vars => TicksInv'
BY NextInv, TogetherNext, FastRightNext DEF TicksInv

\* A fast metric that is ingested again, by whatever worker, with whatever batch
\* and after whatever fault, gets the point it had, unless it has twins of which
\* one came late.
THEOREM SamePoint == Spec => []AgainIsTheSame
<1>1. TicksInv => AgainIsTheSame
  BY DEF TicksInv, IngestInv, TypeOK, FastRight, Tick, AgainIsTheSame, Point
<1>2. QED
  BY TicksInit, TicksNext, <1>1, PTL DEF Spec
-----------------------------------------------------------------------------
\* The ticks of slow events follow the time their shard was read.
LEMMA SlowTicks ==
  ASSUME IngestInv, NEW w \in Worker, worker[w].slow, NEW m \in worker[w].batch
  PROVE  InterpolatedClock(w, m) \in Span(w)
<1> DEFINE B == {n \in worker[w].batch : Timestamp(w, n) = Timestamp(w, m) /\ Rank[n] < Rank[m]}
<1>1. worker[w].batch \subseteq Metric /\ worker[w].at \in Nat
  BY DEF IngestInv, TypeOK, Work
<1>2. IsFiniteSet(worker[w].batch) /\ Cardinality(worker[w].batch) \in Nat
  BY <1>1, BoundAssumption, FS_Subset, FS_CardinalityType
<1>3. B \subseteq worker[w].batch /\ m \notin B
  BY <1>1, RankAssumption
<1>4. Cardinality(B) \in Nat /\ Cardinality(B) < Cardinality(worker[w].batch)
  BY <1>2, <1>3, FS_Subset, FS_CardinalityType
<1>5. InterpolatedClock(w, m) = worker[w].at + Cardinality(B)
  BY DEF InterpolatedClock, Timestamp
<1>6. QED
  BY <1>1, <1>2, <1>4, <1>5 DEF Span, SlowSpan

\* A worker gives each of its metrics a tick of its own, if they are not near.
LEMMA TicksApart ==
  ASSUME IngestInv, Together, NEW w \in Worker,
         NEW m \in worker[w].batch, NEW n \in worker[w].batch, ~Exposed(m),
         InterpolatedClock(w, m) = InterpolatedClock(w, n)
  PROVE  m = n
<1>1. m \in Metric /\ n \in Metric /\ pushes[m] > 0 /\ pushes[n] > 0 /\ worker[w].at \in Nat
      /\ worker[w].batch \subseteq Metric
  BY DEF IngestInv, TypeOK, Work, Together
<1>2. CASE ~worker[w].slow
  <2>1. Tick(m, InterpolatedClock(w, m)) /\ Tick(n, InterpolatedClock(w, m))
    BY <1>2, FastSent
  <2>2. QED
    BY <1>1, <2>1, FastApart DEF Exposed
<1>3. CASE worker[w].slow
  <2> DEFINE B(k) == {l \in worker[w].batch : Timestamp(w, l) = Timestamp(w, k) /\ Rank[l] < Rank[k]}
  <2>1. \A k : InterpolatedClock(w, k) = worker[w].at + Cardinality(B(k))
    BY <1>3 DEF InterpolatedClock, Timestamp
  <2>2. \A k : B(k) = {l \in worker[w].batch : Rank[l] < Rank[k]}
    BY <1>3 DEF Timestamp
  <2>3. IsFiniteSet(worker[w].batch)
    BY <1>1, BoundAssumption, FS_Subset
  <2>4. \A k : IsFiniteSet(B(k)) /\ Cardinality(B(k)) \in Nat
    <3>1. \A k : B(k) \subseteq worker[w].batch
      OBVIOUS
    <3>2. QED
      BY <2>3, <3>1, FS_Subset, FS_CardinalityType
  <2>5. ASSUME NEW k \in worker[w].batch, NEW l \in worker[w].batch, Rank[k] < Rank[l]
        PROVE  Cardinality(B(k)) < Cardinality(B(l))
    <3>1. B(k) \subseteq B(l) /\ k \in B(l) /\ k \notin B(k)
      BY <1>1, <2>2, <2>5, RankAssumption
    <3>2. QED
      BY <2>4, <3>1, FS_Subset
  <2> HIDE DEF B
  <2>6. Cardinality(B(m)) = Cardinality(B(n))
    BY <1>1, <2>1, <2>4
  <2>7. Rank[m] \in Nat /\ Rank[n] \in Nat
    BY <1>1, RankAssumption
  <2>8. QED
    BY <1>1, <2>4, <2>5, <2>6, <2>7, RankAssumption
<1>4. QED
  BY <1>2, <1>3

LEMMA AllSent ==
  ASSUME IngestInv, Together, NEW w \in Worker, NEW M \in SUBSET worker[w].batch,
         NEW m \in M, ~Exposed(m)
  PROVE  m \in Ids(Points(w, M))
<1>1. \A l \in M : l \in Metric /\ l \in worker[w].batch
  BY DEF IngestInv, TypeOK, Work
<1>2. \A l \in M : Timestamp(w, l) \in Nat /\ Rank[l] \in Nat
  BY <1>1, HomeType, RankAssumption DEF Timestamp, IngestInv, TypeOK, Work
<1>3. \A l \in M : Before(w, m, l) => m # l
  BY <1>2 DEF Before
<1>4. \A l \in M : Before(w, m, l) => InterpolatedClock(w, l) # InterpolatedClock(w, m)
  BY <1>1, <1>3, TicksApart
<1> DEFINE p == [id |-> m, host |-> worker[w].host, slow |-> worker[w].slow,
                 at |-> InterpolatedClock(w, m)]
<1>5. p \in Points(w, M) /\ p.id = m
  BY <1>4 DEF Points
<1>6. QED
  BY <1>5 DEF Ids

\* A worker that sends its points replaces no point but those of its metrics,
\* or of metrics whose tick another may get.
LEMMA NoneLost ==
  ASSUME IngestInv, Together, FastRight, SlowRight,
         NEW w \in Worker, worker[w].phase = "stamped", NEW M \in SUBSET worker[w].batch
  PROVE  \A m \in Ids(stored) \cup M : m \in Ids(Update(Points(w, M))) \/ Exposed(m)
<1>1. stored \in SUBSET Point /\ worker[w].batch \subseteq Metric
  BY DEF IngestInv, TypeOK, Work
<1>2. ASSUME NEW p \in stored, NEW q \in Points(w, M), SameCell(p, q), ~Exposed(p.id)
      PROVE  p.id = q.id
  <2>1. /\ q.id \in worker[w].batch /\ q.slow = worker[w].slow
        /\ q.at = InterpolatedClock(w, q.id)
    BY PointFields DEF IngestInv
  <2>2. p.slow = q.slow /\ p.at = q.at /\ p.id \in Metric /\ q.id \in Metric /\ p.at \in Nat
    BY <1>1, <1>2, <2>1 DEF SameCell, Point
  <2>3. CASE ~q.slow
    <3>1. Tick(p.id, p.at) /\ pushes[p.id] > 0
      BY <2>2, <2>3 DEF FastRight
    <3>2. Tick(q.id, p.at) /\ pushes[q.id] > 0
      BY <2>1, <2>2, <2>3, FastSent DEF Together
    <3>3. QED
      BY <1>2, <2>2, <3>1, <3>2, FastApart DEF Exposed
  <2>4. CASE q.slow
    <3>1. p.at \in Span(w)
      BY <2>1, <2>2, <2>4, SlowTicks
    <3>2. Anew(w) /\ p.slow
      BY <2>1, <2>2, <2>4 DEF Anew
    <3>3. p.id \notin crossed
      BY <1>2 DEF Exposed
    <3>4. p.id \in worker[w].batch /\ p.at = InterpolatedClock(w, p.id)
      BY <3>1, <3>2, <3>3 DEF SlowRight
    <3>5. QED
      BY <1>2, <2>1, <2>2, <3>4, TicksApart
  <2>5. QED
    BY <2>3, <2>4 DEF IngestInv, TypeOK, Work
<1>3. \A m \in M : m \in Ids(Points(w, M)) \/ Exposed(m)
  BY AllSent
<1>4. ASSUME NEW p \in stored
      PROVE  p.id \in Ids(Update(Points(w, M))) \/ Exposed(p.id)
  <2>1. CASE \A q \in Points(w, M) : ~SameCell(p, q)
    BY <2>1 DEF Update, Ids
  <2>2. CASE \E q \in Points(w, M) : SameCell(p, q)
    BY <1>2, <2>2 DEF Update, Ids
  <2>3. QED
    BY <2>1, <2>2
<1>5. QED
  BY <1>3, <1>4 DEF Ids, Update

\* So Warp 10 keeps what it has.
LEMMA StoresKeeps ==
  ASSUME IngestInv, Together, FastRight, SlowRight, [Next]_vars
  PROVE  \A m \in Ids(stored) \ Ids(stored') : Exposed(m)
<1>1. Stores => \A m \in Ids(stored) \ Ids(stored') : Exposed(m)
  BY NoneLost DEF Stores
<1>2. QED
  BY <1>1, Kinds DEF pushMetric, ClockTick, Deletes, Works
-----------------------------------------------------------------------------
\* A worker that reads a slow shard finds its ticks free, or makes them known.
LEMMA ReadApart ==
  ASSUME IngestInv, NEW v \in Worker, Reads(v), worker'[v].slow
  PROVE  /\ \A p \in stored : p.slow =>
              \/ p.at \notin Span(v)'
              \/ p.id \in crossed' /\ worker'[v].batch \subseteq crossed'
         /\ \A u \in Worker : Anew(u) =>
              \/ Span(u) \cap Span(v)' = {}
              \/ worker[u].batch \cup worker'[v].batch \subseteq crossed'
<1>1. worker'[v].batch = worker[v].batch /\ Span(v)' = SlowSpan(now, worker[v].batch)
  BY DEF Reads, SameShard, Span, SlowSpan
<1>2. Met(v) # {} => Met(v) \cup worker[v].batch \subseteq crossed'
  BY DEF Reads
<1>3. ASSUME NEW p \in stored, p.slow, p.at \in Span(v)'
      PROVE  p.id \in Met(v)
  BY <1>1, <1>3 DEF Met, Within
<1>4. ASSUME NEW u \in Worker, Anew(u), Span(u) \cap Span(v)' # {}
      PROVE  worker[u].batch \subseteq Met(v) /\ worker[u].batch # {}
  <2>1. worker[u].batch \subseteq Met(v)
    BY <1>1, <1>4 DEF Met, Within, Span
  <2>2. ASSUME worker[u].batch = {}
        PROVE  FALSE
    <3>1. Cardinality(worker[u].batch) = 0
      BY <2>2, FS_EmptySet
    <3>2. worker[u].at \in Nat
      BY DEF IngestInv, TypeOK, Work
    <3>3. Span(u) = {}
      BY <3>1, <3>2 DEF Span, SlowSpan
    <3>4. QED
      BY <1>4, <3>3
  <2>3. QED
    BY <2>1, <2>2
<1>5. QED
  BY <1>1, <1>2, <1>3, <1>4

LEMMA SlowRightNext ==
  ASSUME IngestInv, SlowRight, [Next]_vars
  PROVE  SlowRight'
<1>0. crossed \subseteq crossed'
  BY Grows
<1>1. CASE UNCHANGED <<stored, worker>>
  BY <1>0, <1>1 DEF SlowRight, Anew, Span, SlowSpan, InterpolatedClock, Timestamp
<1>2. CASE Deletes
  <2>1. PICK w \in Worker : worker'[w] = Free /\ \A v \in Worker \ {w} : worker'[v] = worker[v]
    BY <1>2 DEF Deletes
  <2>2. stored' = stored
    BY <1>2 DEF Deletes
  <2>3. \A v \in Worker : Anew(v)' => /\ Anew(v) /\ worker'[v] = worker[v]
    BY <2>1, FreeType DEF Anew
  <2>4. QED
    BY <1>0, <2>2, <2>3 DEF SlowRight, Span, SlowSpan, InterpolatedClock, Timestamp
<1>3. CASE Works
  <2>1. \A v \in Worker : Anew(v)' => (Anew(v) /\ SameTicks(v)) \/ (Reads(v) /\ worker'[v].slow)
    BY <1>3, FreeType DEF Works, Moves, Anew, Rests, SameTicks, Takes, Reads, Sends, Looks
  \* A worker that goes on.
  <2>2. ASSUME NEW v \in Worker, SameTicks(v)
        PROVE  /\ Span(v)' = Span(v) /\ worker'[v].batch = worker[v].batch
               /\ \A m : InterpolatedClock(v, m)' = InterpolatedClock(v, m)
    BY <2>2 DEF SameTicks, SameShard, Span, SlowSpan, InterpolatedClock, Timestamp
  <2>3. \A p \in stored' : p \in stored
           \/ \E w \in Worker : /\ worker[w].phase = "stamped" /\ p.slow = worker[w].slow
                                /\ p.id \in worker[w].batch /\ p.at = InterpolatedClock(w, p.id)
    <3>1. CASE stored' = stored
      BY <3>1
    <3>2. CASE stored' # stored
      <4>1. PICK w \in Worker : \E M \in SUBSET worker[w].batch :
              worker[w].phase = "stamped" /\ stored' = Update(Points(w, M))
        BY <1>3, <3>2 DEF Works, Stores
      <4>2. PICK M \in SUBSET worker[w].batch :
              worker[w].phase = "stamped" /\ stored' = Update(Points(w, M))
        BY <4>1
      <4>3. \A p \in Points(w, M) : /\ p.slow = worker[w].slow /\ p.id \in worker[w].batch
                                    /\ p.at = InterpolatedClock(w, p.id)
        BY PointFields DEF IngestInv
      <4>4. QED
        BY <4>2, <4>3 DEF Update
    <3>3. QED
      BY <3>1, <3>2
  <2>4. ASSUME NEW v \in Worker, Anew(v)', NEW p \in stored', p.slow
        PROVE  \/ p.at \notin Span(v)'
               \/ p.id \in worker'[v].batch /\ p.at = InterpolatedClock(v, p.id)'
               \/ p.id \in crossed' /\ worker'[v].batch \subseteq crossed'
    <3>1. CASE p \in stored
      <4>1. CASE Anew(v) /\ SameTicks(v)
        <5>1. \/ p.at \notin Span(v)
              \/ p.id \in worker[v].batch /\ p.at = InterpolatedClock(v, p.id)
              \/ p.id \in crossed /\ worker[v].batch \subseteq crossed
          BY <2>4, <3>1, <4>1 DEF SlowRight
        <5>2. QED
          BY <1>0, <2>2, <4>1, <5>1
      <4>2. CASE Reads(v) /\ worker'[v].slow
        BY <2>4, <3>1, <4>2, ReadApart
      <4>3. QED
        BY <2>1, <2>4, <4>1, <4>2
    <3>2. ASSUME NEW w \in Worker, worker[w].phase = "stamped", p.slow = worker[w].slow,
                 p.id \in worker[w].batch, p.at = InterpolatedClock(w, p.id)
          PROVE  \/ p.at \notin Span(v)'
                 \/ p.id \in worker'[v].batch /\ p.at = InterpolatedClock(v, p.id)'
                 \/ p.id \in crossed' /\ worker'[v].batch \subseteq crossed'
      <4>1. Anew(w) /\ p.at \in Span(w)
        BY <2>4, <3>2, SlowTicks DEF Anew
      <4>2. CASE Anew(v) /\ SameTicks(v) /\ v = w
        BY <2>2, <3>2, <4>2
      <4>3. CASE Anew(v) /\ SameTicks(v) /\ v # w
        <5>1. Span(v) \cap Span(w) = {} \/ worker[v].batch \cup worker[w].batch \subseteq crossed
          BY <4>1, <4>3 DEF SlowRight
        <5>2. QED
          BY <1>0, <2>2, <3>2, <4>1, <4>3, <5>1
      <4>4. CASE Reads(v) /\ worker'[v].slow
        <5>1. \/ Span(w) \cap Span(v)' = {}
              \/ worker[w].batch \cup worker'[v].batch \subseteq crossed'
          BY <4>1, <4>4, ReadApart
        <5>2. QED
          BY <3>2, <4>1, <5>1
      <4>5. QED
        BY <2>1, <2>4, <4>2, <4>3, <4>4
    <3>3. QED
      BY <2>3, <3>1, <3>2
  <2>5. ASSUME NEW v \in Worker, NEW w \in Worker, Anew(v)', Anew(w)', v # w
        PROVE  \/ Span(v)' \cap Span(w)' = {}
               \/ worker'[v].batch \cup worker'[w].batch \subseteq crossed'
    <3>1. CASE Anew(v) /\ SameTicks(v) /\ Anew(w) /\ SameTicks(w)
      <4>1. Span(v) \cap Span(w) = {} \/ worker[v].batch \cup worker[w].batch \subseteq crossed
        BY <2>5, <3>1 DEF SlowRight
      <4>2. QED
        BY <1>0, <2>2, <3>1, <4>1
    <3>2. CASE Anew(v) /\ SameTicks(v) /\ Reads(w) /\ worker'[w].slow
      <4>1. \/ Span(v) \cap Span(w)' = {}
            \/ worker[v].batch \cup worker'[w].batch \subseteq crossed'
        BY <3>2, ReadApart
      <4>2. QED
        BY <2>2, <3>2, <4>1
    <3>3. CASE Reads(v) /\ worker'[v].slow /\ Anew(w) /\ SameTicks(w)
      <4>1. \/ Span(w) \cap Span(v)' = {}
            \/ worker[w].batch \cup worker'[v].batch \subseteq crossed'
        BY <3>3, ReadApart
      <4>2. QED
        BY <2>2, <3>3, <4>1
    <3>4. CASE Reads(v) /\ Reads(w)
      BY <2>5, <3>4 DEF Reads
    <3>5. QED
      BY <2>1, <2>5, <3>1, <3>2, <3>3, <3>4
  <2>6. QED
    BY <2>4, <2>5 DEF SlowRight
<1>4. QED
  BY <1>1, <1>2, <1>3, Kinds DEF pushMetric, ClockTick, task
-----------------------------------------------------------------------------
LEMMA KeptNext ==
  ASSUME KeptInv, [Next]_vars
  PROVE  KeptInv' /\ \A m \in Ids(stored) \ Ids(stored') : Exposed(m)
<1>1. TicksInv' /\ SlowRight' /\ \A m \in Ids(stored) \ Ids(stored') : Exposed(m)
  BY TicksNext, SlowRightNext, StoresKeeps DEF KeptInv, TicksInv
<1>2. /\ \A m \in Metric : Exposed(m) => Exposed(m)'
      /\ \A w \in Worker : worker[w].batch \subseteq Metric /\ worker[w].doomed \subseteq Metric
      /\ stored \in SUBSET Point
  BY ExposedStays DEF KeptInv, TicksInv, IngestInv, TypeOK, Work
<1>3. \A m \in Metric : Sent(m) => Sent(m)'
  BY <1>1, <1>2 DEF Sent
<1>4. ASSUME NEW m \in Metric, pushMetric(m)
      PROVE  Handed' /\ NothingDropped'
  <2>1. /\ cached' = cached \cup {m} /\ pushes' = [pushes EXCEPT ![m] = @ + 1]
        /\ raced \subseteq raced' /\ UNCHANGED <<stored, worker>>
    BY <1>4 DEF pushMetric, task
  <2>2. \A w \in Worker :
          worker[w].phase \in {"keys", "stamped", "landed"} /\ worker[w].shard = Home(m)
            /\ m \notin worker[w].batch => m \in raced'
    <3> SUFFICES ASSUME NEW w \in Worker, worker[w].phase \in {"keys", "stamped", "landed"},
                        worker[w].shard = Home(m), m \notin worker[w].batch
                 PROVE  m \in raced'
      OBVIOUS
    <3>1. \E v \in Worker : /\ worker[v].phase # "free"
                            /\ worker[v].shard = Home(m)
                            /\ m \notin (IF worker[v].phase = "doomed"
                                        THEN worker[v].doomed ELSE worker[v].batch)
      OBVIOUS
    <3>2. QED
      BY <1>4, <3>1 DEF pushMetric
  <2>3. \A w \in Worker : Members(worker[w].shard)' \subseteq
          Members(worker[w].shard) \cup {n \in {m} : worker[w].shard = Home(m)}
    BY <2>1 DEF Members, Home
  <2>4. ASSUME NEW w \in Worker, worker[w].phase \in {"keys", "stamped", "landed"},
               NEW n \in Members(worker[w].shard)'
        PROVE  n \in worker[w].batch \/ n \in raced'
    <3>1. CASE n \in Members(worker[w].shard)
      BY <2>1, <2>4, <3>1 DEF KeptInv, Handed
    <3>2. CASE n = m /\ worker[w].shard = Home(m)
      BY <2>2, <2>4, <3>2
    <3>3. QED
      BY <2>3, <2>4, <3>1, <3>2
  <2>5. ASSUME NEW w \in Worker
        PROVE  /\ worker[w].phase = "landed" => \A n \in worker[w].batch : Sent(n)'
               /\ worker[w].phase = "doomed" => \A n \in worker[w].doomed : Sent(n)' \/ n \in raced'
    BY <1>2, <1>3, <2>1 DEF KeptInv, Handed
  <2>6. Handed'
    BY <2>1, <2>4, <2>5 DEF Handed
  <2>7. \A n \in Metric \ {m} : pushes'[n] = pushes[n]
    BY <2>1 DEF KeptInv, TicksInv, IngestInv, TypeOK
  <2>8. NothingDropped'
    BY <1>2, <2>1, <2>7 DEF KeptInv, NothingDropped
  <2>9. QED
    BY <2>6, <2>8
<1>5. ASSUME ClockTick
      PROVE  Handed' /\ NothingDropped'
  BY <1>2, <1>3, <1>5 DEF ClockTick, redis, task, input, KeptInv, Handed, NothingDropped, Members, Home
<1>6. ASSUME Deletes
      PROVE  Handed' /\ NothingDropped'
  <2>1. PICK w \in Worker : /\ worker[w].phase = "doomed"
                            /\ cached' = cached \ Members(worker[w].shard) /\ worker'[w] = Free
                            /\ \A v \in Worker \ {w} : worker'[v] = worker[v]
    BY <1>6 DEF Deletes
  <2>2. UNCHANGED <<pushes, raced, stored>>
    BY <1>6 DEF Deletes
  <2>3. \A v \in Worker : Members(worker[v].shard)' \subseteq Members(worker'[v].shard)
    BY <2>1 DEF Members
  <2>4. \A v \in Worker : worker'[v].phase # "free" => worker'[v] = worker[v]
    BY <2>1, FreeType
  <2>5. Handed'
    BY <1>2, <1>3, <2>2, <2>3, <2>4 DEF KeptInv, Handed
  <2>6. \A m \in Members(worker[w].shard) : m \in Metric => Sent(m) \/ m \in raced
    BY <2>1 DEF KeptInv, Handed, TicksInv, IngestInv, Behind
  <2>7. NothingDropped'
    BY <1>2, <2>1, <2>2, <2>6 DEF KeptInv, NothingDropped, Sent
  <2>8. QED
    BY <2>5, <2>7
<1>7. ASSUME Works
      PROVE  Handed' /\ NothingDropped'
  <2>1. UNCHANGED <<pushes, raced, cached>> /\ Moves
    BY <1>7 DEF Works
  <2>2. NothingDropped'
    BY <1>1, <1>2, <2>1 DEF KeptInv, NothingDropped
  <2>3. ASSUME NEW v \in Worker
        PROVE  /\ worker'[v].phase \in {"keys", "stamped", "landed"} =>
                    \A m \in Members(worker'[v].shard) : m \in worker'[v].batch \/ m \in raced
               /\ worker'[v].phase = "landed" => \A m \in worker'[v].batch : Sent(m)'
               /\ worker'[v].phase = "doomed" => \A m \in worker'[v].doomed : Sent(m)' \/ m \in raced
    <3>1. CASE worker'[v] = Free
      BY <3>1, FreeType
    <3>2. CASE Rests(v) \/ Reads(v)
      BY <1>2, <1>3, <3>2 DEF Rests, Reads, SameTicks, SameShard, KeptInv, Handed
    <3>3. CASE Takes(v)
      BY <3>3 DEF Takes
    <3>4. CASE Sends(v)
      <4>1. \A m \in worker[v].batch : m \in Ids(stored') \/ Exposed(m)
        BY <3>4, NoneLost DEF Sends, KeptInv, TicksInv
      <4>2. \A m \in worker[v].batch : Sent(m)'
        BY <1>2, <4>1 DEF Sent
      <4>3. QED
        BY <3>4, <4>2 DEF Sends, SameTicks, SameShard, KeptInv, Handed
    <3>5. CASE Looks(v)
      <4>1. \A m \in Members(worker[v].shard) : Sent(m) \/ m \in raced
        BY <3>5 DEF Looks, KeptInv, Handed
      <4>2. Members(worker[v].shard) \subseteq Metric
        BY DEF Members, KeptInv, TicksInv, IngestInv, TypeOK
      <4>3. QED
        BY <1>3, <3>5, <4>1, <4>2 DEF Looks, SameTicks, SameShard, KeptInv, Handed
    <3>6. QED
      BY <2>1, <3>1, <3>2, <3>3, <3>4, <3>5 DEF Moves
  <2>4. Handed'
    BY <2>1, <2>3 DEF Handed, Members
  <2>5. QED
    BY <2>2, <2>4
<1>8. QED
  BY <1>1, <1>4, <1>5, <1>6, <1>7, Kinds DEF KeptInv, TicksInv

LEMMA KeptInit == Init => KeptInv
<1> SUFFICES ASSUME Init
             PROVE  KeptInv
  OBVIOUS
<1>1. SlowRight
  BY FreeType DEF Init, SlowRight, Anew
<1>2. Handed /\ NothingDropped
  BY FreeType DEF Init, Handed, NothingDropped
<1>3. QED
  BY <1>1, <1>2, TicksInit DEF KeptInv

\* A metric the API took is in the cache or in Warp 10 whatever throws, dies or
\* is delivered again and whenever, unless it reaches a shard that is being
\* deleted or another metric may get its tick.
THEOREM NeverDropped == Spec => []NothingDropped
<1>1. KeptInv /\ [Next]_vars => KeptInv'
  BY KeptNext
<1>2. KeptInv => NothingDropped
  BY DEF KeptInv
<1>3. QED
  BY KeptInit, <1>1, <1>2, PTL DEF Spec

\* And no ingestion, partial or repeated, takes a metric out of Warp 10 but one
\* whose tick another may get.
THEOREM NeverOverwritten == Spec => StoredStays
<1>1. KeptInv /\ [Next]_vars =>
        KeptInv' /\ [\A m \in Ids(stored) \ Ids(stored') : Exposed(m)]_vars
  BY KeptNext
<1>2. QED
  BY KeptInit, <1>1, PTL DEF Spec, StoredStays
=============================================================================
