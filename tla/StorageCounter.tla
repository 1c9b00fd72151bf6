--------------------------- MODULE StorageCounter ---------------------------
(***************************************************************************)
(* The size of an account as version 2 answers it without a query: a base  *)
(* that getStorage reads in Warp 10 and keeps for a day, and a counter of  *)
(* what was pushed since.  Pushes, the ingestion of shards, and several    *)
(* getStorage interleave.                                                  *)
(*                                                                         *)
(* A sum of sizes is modelled by the set of metrics it sums.               *)
(***************************************************************************)
EXTENDS Integers

CONSTANTS
  Metrics,  \* metrics of the account with a size
  Readers,  \* calls of getStorage that may overlap
  Nil       \* no key

ASSUME NilAssumption == \A S \in SUBSET Metrics : Nil # S

VARIABLES
  pushed,   \* progress of each metric
  shards,   \* metrics that are cached in shards
  warp,     \* metrics that are in Warp 10
  counter,  \* the counter
  base,     \* the base
  ttl,      \* whether the base expires
  reader,   \* the calls of getStorage
  strayed   \* history: the last base was set beside a push, or a count failed

storage == <<pushed, shards, warp, counter, base, ttl, reader, strayed>>

NewReader == [at |-> "idle", size |-> {}, clean |-> TRUE]

StorageTypeOK ==
  /\ pushed \in [Metrics -> {"new", "stored", "counted", "uncounted"}]
  /\ shards \in SUBSET Metrics /\ warp \in SUBSET Metrics
  /\ {counter, base} \subseteq {Nil} \cup SUBSET Metrics
  /\ ttl \in BOOLEAN
  /\ reader \in [Readers -> [at : {"idle", "query", "set", "expire"},
                             size : SUBSET Metrics, clean : BOOLEAN]]
  /\ strayed \in BOOLEAN

StorageInit ==
  /\ pushed = [m \in Metrics |-> "new"]
  /\ shards = {} /\ warp = {}
  /\ counter = Nil /\ base = Nil /\ ttl = FALSE
  /\ reader = [g \in Readers |-> NewReader]
  /\ strayed = FALSE

OrEmpty(key) == IF key = Nil THEN {} ELSE key
-----------------------------------------------------------------------------
\* pushMetric of the cache client: first the shard, then the counter.
AddToShard(m) ==
  /\ pushed[m] = "new"
  /\ pushed' = [pushed EXCEPT ![m] = "stored"]
  /\ shards' = shards \cup {m}
  /\ reader' = [g \in Readers |-> [reader[g] EXCEPT !.clean = FALSE]]
  /\ UNCHANGED <<warp, counter, base, ttl, strayed>>

UpdateCounters(m) ==
  /\ pushed[m] = "stored"
  /\ pushed' = [pushed EXCEPT ![m] = "counted"]
  /\ counter' = OrEmpty(counter) \cup {m}
  /\ UNCHANGED <<shards, warp, base, ttl, reader, strayed>>

\* The metric is in its shard, and a second try finds it there.
UpdateFailed(m) ==
  /\ pushed[m] = "stored"
  /\ pushed' = [pushed EXCEPT ![m] = "uncounted"]
  /\ strayed' = TRUE
  /\ UNCHANGED <<shards, warp, counter, base, ttl, reader>>

IngestShards ==
  /\ shards # {}
  /\ warp' = warp \cup shards
  /\ shards' = {}
  /\ UNCHANGED <<pushed, counter, base, ttl, reader, strayed>>
-----------------------------------------------------------------------------
\* fetchAccountSizeCounter: with a base the answer is there.
FetchCounter(g) ==
  /\ reader[g].at = "idle" /\ base = Nil
  /\ reader' = [reader EXCEPT ![g].at = "query"]
  /\ UNCHANGED <<pushed, shards, warp, counter, base, ttl, strayed>>

\* What was pushed and is not yet in Warp 10 will be in neither.
Clean == shards = {} /\ \A m \in Metrics : pushed[m] # "stored"

Query(g) ==
  /\ reader[g].at = "query"
  /\ reader' = [reader EXCEPT ![g] = [at |-> "set", size |-> warp, clean |-> Clean]]
  /\ UNCHANGED <<pushed, shards, warp, counter, base, ttl, strayed>>

\* No Warp 10 answers.
QueryFailed(g) ==
  /\ reader[g].at = "query"
  /\ reader' = [reader EXCEPT ![g] = NewReader]
  /\ UNCHANGED <<pushed, shards, warp, counter, base, ttl, strayed>>

ResetNot(key) == key  \* Slip
Reset(key) == {}

\* updateAccountCounterBase: one mset of both keys, then the time to live.
SetBase(g) ==
  /\ reader[g].at = "set"
  /\ counter' = Reset(counter) /\ base' = reader[g].size /\ ttl' = FALSE
  /\ strayed' = ~reader[g].clean
  /\ reader' = [reader EXCEPT ![g].at = "expire"]
  /\ UNCHANGED <<pushed, shards, warp>>

SetExpiration(g) ==
  /\ reader[g].at = "expire"
  /\ ttl' = (base # Nil)
  /\ reader' = [reader EXCEPT ![g] = NewReader]
  /\ UNCHANGED <<pushed, shards, warp, counter, base, strayed>>

\* The process dies, before or after it set the keys.
ReaderDies(g) ==
  /\ reader[g].at \in {"set", "expire"}
  /\ reader' = [reader EXCEPT ![g] = NewReader]
  /\ UNCHANGED <<pushed, shards, warp, counter, base, ttl, strayed>>

BaseExpires ==
  /\ base # Nil /\ ttl
  /\ base' = Nil /\ ttl' = FALSE
  /\ UNCHANGED <<pushed, shards, warp, counter, reader, strayed>>

StorageNext ==
  \/ \E m \in Metrics : AddToShard(m) \/ UpdateCounters(m) \/ UpdateFailed(m)
  \/ IngestShards \/ BaseExpires
  \/ \E g \in Readers : \/ FetchCounter(g) \/ Query(g) \/ QueryFailed(g)
                        \/ SetBase(g) \/ SetExpiration(g) \/ ReaderDies(g)

StorageSpec == StorageInit /\ [][StorageNext]_storage
-----------------------------------------------------------------------------
\* What getStorage answers while there is a base, base + counter, is each
\* metric that was stored and counted or tried to be, once; unless the base was
\* set from a query that a push overlapped, or a count has failed since.
StorageExact ==
  (base # Nil /\ ~strayed) =>
    /\ base \cup OrEmpty(counter) = {m \in Metrics : pushed[m] \in {"counted", "uncounted"}}
    /\ base \cap OrEmpty(counter) = {}
=============================================================================
