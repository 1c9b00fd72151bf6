------------------------------ MODULE V2_proofs ------------------------------
(***************************************************************************)
(* Proofs about the tasks and counters of version 2 beside the store: the  *)
(* size of an account, the disk usage, the migration of version 1, and the *)
(* reindex.                                                                *)
(***************************************************************************)
EXTENDS V2Tasks, Data_proofs

(***************************************************************************)
(* The size that getStorage answers, proved for any metrics and readers.   *)
(*                                                                         *)
(* StorageExact is not inductive by itself.  A reader that is about to set *)
(* the base carries what it read in Warp 10, and that must still be all    *)
(* that was pushed: of a clean query it is, because what is not new is in  *)
(* a shard or in Warp 10, and a push since would have soiled it.           *)
(***************************************************************************)
Done == {m \in Metrics : pushed[m] \in {"counted", "uncounted"}}

Cached == shards \cup warp = {m \in Metrics : pushed[m] # "new"}

ReadersClean ==
  \A g \in Readers :
    (reader[g].at = "set" /\ reader[g].clean) =>
      /\ reader[g].size = Done
      /\ \A m \in Metrics : pushed[m] # "stored"

StorageInv == StorageTypeOK /\ Cached /\ ReadersClean /\ StorageExact
-----------------------------------------------------------------------------
\* Nothing is pushed and no base is set at first.
LEMMA InitInv == StorageInit => StorageInv
<1> SUFFICES ASSUME StorageInit
             PROVE  StorageInv
  OBVIOUS
<1>1. NewReader \in [at : {"idle", "query", "set", "expire"},
                     size : SUBSET Metrics, clean : BOOLEAN]
  BY DEF NewReader
<1>2. StorageTypeOK
  BY <1>1 DEF StorageInit, StorageTypeOK
<1>3. Cached
  BY DEF StorageInit, Cached
<1>4. ReadersClean
  BY DEF StorageInit, ReadersClean, NewReader
<1>5. StorageExact
  BY DEF StorageInit, StorageExact
<1>6. QED
  BY <1>2, <1>3, <1>4, <1>5 DEF StorageInv

LEMMA AddToShardInv ==
  ASSUME StorageInv, NEW m \in Metrics, AddToShard(m)
  PROVE  StorageInv'
<1>1. StorageTypeOK'
  <2>1. reader' \in [Readers -> [at : {"idle", "query", "set", "expire"},
                                 size : SUBSET Metrics, clean : BOOLEAN]]
    BY DEF StorageInv, StorageTypeOK, AddToShard
  <2>2. QED
    BY <2>1 DEF StorageInv, StorageTypeOK, AddToShard
<1>2. Cached'
  BY DEF StorageInv, StorageTypeOK, Cached, AddToShard
<1>3. ReadersClean'
  <2>1. \A g \in Readers : reader'[g].clean = FALSE
    BY DEF StorageInv, StorageTypeOK, AddToShard
  <2>2. QED
    BY <2>1 DEF ReadersClean
<1>4. Done' = Done
  BY DEF StorageInv, StorageTypeOK, Done, AddToShard
<1>5. StorageExact'
  BY <1>4 DEF StorageInv, StorageExact, AddToShard, Done, OrEmpty
<1>6. QED
  BY <1>1, <1>2, <1>3, <1>5 DEF StorageInv

\* The metric is stored and not done, so that it is not in the base; and no
\* reader is clean as long as a metric is only stored.
LEMMA UpdateCountersInv ==
  ASSUME StorageInv, NEW m \in Metrics, UpdateCounters(m)
  PROVE  StorageInv'
<1>1. /\ StorageTypeOK' /\ counter' \in SUBSET Metrics /\ counter' # Nil
      /\ OrEmpty(counter)' = OrEmpty(counter) \cup {m}
  BY NilAssumption DEF StorageInv, StorageTypeOK, UpdateCounters, OrEmpty
<1>2. Cached'
  BY DEF StorageInv, StorageTypeOK, Cached, UpdateCounters
<1>3. ReadersClean'
  BY DEF StorageInv, ReadersClean, UpdateCounters
<1>4. m \notin Done /\ Done' = Done \cup {m}
  BY DEF StorageInv, StorageTypeOK, Done, UpdateCounters
<1>5. StorageExact'
  <2>1. StorageExact = ((base # Nil /\ ~strayed) =>
                          base \cup OrEmpty(counter) = Done /\ base \cap OrEmpty(counter) = {})
    BY DEF StorageExact, Done
  <2>2. StorageExact' = ((base # Nil /\ ~strayed) =>
                           /\ base \cup OrEmpty(counter)' = Done'
                           /\ base \cap OrEmpty(counter)' = {})
    BY DEF StorageExact, Done, UpdateCounters
  <2>3. QED
    BY <1>1, <1>4, <2>1, <2>2 DEF StorageInv
<1>6. QED
  BY <1>1, <1>2, <1>3, <1>5 DEF StorageInv

LEMMA UpdateFailedInv ==
  ASSUME StorageInv, NEW m \in Metrics, UpdateFailed(m)
  PROVE  StorageInv'
<1>1. StorageTypeOK'
  BY DEF StorageInv, StorageTypeOK, UpdateFailed
<1>2. Cached'
  BY DEF StorageInv, StorageTypeOK, Cached, UpdateFailed
<1>3. ReadersClean'
  BY DEF StorageInv, ReadersClean, UpdateFailed
<1>4. StorageExact'
  BY DEF StorageExact, UpdateFailed
<1>5. QED
  BY <1>1, <1>2, <1>3, <1>4 DEF StorageInv

LEMMA IngestShardsInv ==
  ASSUME StorageInv, IngestShards
  PROVE  StorageInv'
<1>1. StorageTypeOK'
  BY DEF StorageInv, StorageTypeOK, IngestShards
<1>2. Cached'
  BY DEF StorageInv, Cached, IngestShards
<1>3. ReadersClean' /\ StorageExact'
  BY DEF StorageInv, ReadersClean, StorageExact, Done, OrEmpty, IngestShards
<1>4. QED
  BY <1>1, <1>2, <1>3 DEF StorageInv

LEMMA BaseExpiresInv ==
  ASSUME StorageInv, BaseExpires
  PROVE  StorageInv'
  BY DEF StorageInv, StorageTypeOK, Cached, ReadersClean, StorageExact, Done, BaseExpires
-----------------------------------------------------------------------------
\* A reader that leaves the keys and the metrics alone, and is not about to set
\* the base, or is with what it has.
LEMMA ReaderStep ==
  ASSUME StorageInv, NEW g \in Readers,
         NEW r \in [at : {"idle", "query", "set", "expire"},
                    size : SUBSET Metrics, clean : BOOLEAN],
         reader' = [reader EXCEPT ![g] = r],
         (r.at = "set" /\ r.clean) =>
           r.size = Done /\ \A m \in Metrics : pushed[m] # "stored",
         UNCHANGED <<pushed, shards, warp, counter, base, strayed>>,
         ttl' \in BOOLEAN
  PROVE  StorageInv'
<1>1. StorageTypeOK'
  BY DEF StorageInv, StorageTypeOK
<1>2. Cached' /\ StorageExact' /\ Done' = Done
  BY DEF StorageInv, Cached, StorageExact, Done, OrEmpty
<1>3. ReadersClean'
  <2>1. SUFFICES ASSUME NEW h \in Readers, reader'[h].at = "set", reader'[h].clean
                 PROVE  reader'[h].size = Done /\ \A m \in Metrics : pushed[m] # "stored"
    BY <1>2 DEF ReadersClean
  <2>2. CASE h = g
    BY <2>1, <2>2 DEF StorageInv, StorageTypeOK
  <2>3. CASE h # g
    BY <2>1, <2>3 DEF StorageInv, StorageTypeOK, ReadersClean
  <2>4. QED
    BY <2>2, <2>3
<1>4. QED
  BY <1>1, <1>2, <1>3 DEF StorageInv

LEMMA FetchCounterInv ==
  ASSUME StorageInv, NEW g \in Readers, FetchCounter(g)
  PROVE  StorageInv'
<1>1. reader' = [reader EXCEPT ![g] = [reader[g] EXCEPT !.at = "query"]]
  BY DEF FetchCounter
<1>2. [reader[g] EXCEPT !.at = "query"] \in
        [at : {"idle", "query", "set", "expire"}, size : SUBSET Metrics, clean : BOOLEAN]
  BY DEF StorageInv, StorageTypeOK
<1>3. [reader[g] EXCEPT !.at = "query"].at # "set"
  BY DEF StorageInv, StorageTypeOK
<1>4. UNCHANGED <<pushed, shards, warp, counter, base, strayed>> /\ ttl' \in BOOLEAN
  BY DEF StorageInv, StorageTypeOK, FetchCounter
<1>5. QED
  BY <1>1, <1>2, <1>3, <1>4, ReaderStep

\* With no shard and nothing only stored, Warp 10 has all that is done.
LEMMA QueryInv ==
  ASSUME StorageInv, NEW g \in Readers, Query(g)
  PROVE  StorageInv'
<1> DEFINE r == [at |-> "set", size |-> warp, clean |-> Clean]
<1>1. Clean \in BOOLEAN
  BY DEF Clean
<1>2. r \in [at : {"idle", "query", "set", "expire"}, size : SUBSET Metrics, clean : BOOLEAN]
  BY <1>1 DEF StorageInv, StorageTypeOK
<1>3. ASSUME Clean
      PROVE  warp = Done /\ \A m \in Metrics : pushed[m] # "stored"
  BY <1>3 DEF Clean, StorageInv, StorageTypeOK, Cached, Done
<1>4. UNCHANGED <<pushed, shards, warp, counter, base, strayed>> /\ ttl' \in BOOLEAN
  BY DEF StorageInv, StorageTypeOK, Query
<1>5. reader' = [reader EXCEPT ![g] = r]
  BY DEF Query
<1>6. (r.at = "set" /\ r.clean) => r.size = Done /\ \A m \in Metrics : pushed[m] # "stored"
  BY <1>3
<1> HIDE DEF r
<1>7. QED
  BY <1>2, <1>4, <1>5, <1>6, ReaderStep

\* A call that ends, in any way.
LEMMA ReaderEnds ==
  ASSUME StorageInv, NEW g \in Readers, QueryFailed(g) \/ ReaderDies(g) \/ SetExpiration(g)
  PROVE  StorageInv'
<1>1. reader' = [reader EXCEPT ![g] = NewReader]
  BY DEF QueryFailed, ReaderDies, SetExpiration
<1>2. NewReader \in [at : {"idle", "query", "set", "expire"},
                     size : SUBSET Metrics, clean : BOOLEAN]
  BY DEF NewReader
<1>3. NewReader.at # "set"
  BY DEF NewReader
<1>4. UNCHANGED <<pushed, shards, warp, counter, base, strayed>> /\ ttl' \in BOOLEAN
  BY DEF StorageInv, StorageTypeOK, QueryFailed, ReaderDies, SetExpiration
<1>5. QED
  BY <1>1, <1>2, <1>3, <1>4, ReaderStep

LEMMA SetBaseInv ==
  ASSUME StorageInv, NEW g \in Readers, SetBase(g)
  PROVE  StorageInv'
<1>1. reader[g] \in [at : {"idle", "query", "set", "expire"},
                     size : SUBSET Metrics, clean : BOOLEAN]
  BY DEF StorageInv, StorageTypeOK
<1>2. StorageTypeOK'
  BY <1>1 DEF StorageInv, StorageTypeOK, SetBase, Reset
<1>3. Cached' /\ Done' = Done
  BY DEF StorageInv, Cached, Done, SetBase
<1>4. ReadersClean'
  <2>1. SUFFICES ASSUME NEW h \in Readers, reader'[h].at = "set", reader'[h].clean
                 PROVE  reader'[h].size = Done /\ \A m \in Metrics : pushed[m] # "stored"
    BY <1>3 DEF ReadersClean, SetBase
  <2>2. h # g /\ reader'[h] = reader[h]
    BY <1>1, <2>1 DEF StorageInv, StorageTypeOK, SetBase
  <2>3. QED
    BY <2>1, <2>2 DEF StorageInv, ReadersClean
<1>5. StorageExact'
  <2>1. SUFFICES ASSUME reader[g].clean
                 PROVE  /\ base' \cup OrEmpty(counter)' = Done
                        /\ base' \cap OrEmpty(counter)' = {}
    BY <1>1, <1>3 DEF StorageExact, Done, SetBase
  <2>2. base' = Done
    BY <2>1 DEF StorageInv, ReadersClean, SetBase
  <2>3. OrEmpty(counter)' = {}
    BY NilAssumption DEF OrEmpty, SetBase, Reset
  <2>4. QED
    BY <2>2, <2>3
<1>6. QED
  BY <1>2, <1>3, <1>4, <1>5 DEF StorageInv
-----------------------------------------------------------------------------
LEMMA NextInv == StorageInv /\ [StorageNext]_storage => StorageInv'
<1> SUFFICES ASSUME StorageInv, [StorageNext]_storage
             PROVE  StorageInv'
  OBVIOUS
<1>1. CASE UNCHANGED storage
  BY <1>1 DEF storage, StorageInv, StorageTypeOK, Cached, ReadersClean, StorageExact, Done, OrEmpty
<1>2. ASSUME NEW m \in Metrics, AddToShard(m) \/ UpdateCounters(m) \/ UpdateFailed(m)
      PROVE  StorageInv'
  BY <1>2, AddToShardInv, UpdateCountersInv, UpdateFailedInv
<1>3. ASSUME NEW g \in Readers,
             \/ FetchCounter(g) \/ Query(g) \/ QueryFailed(g)
             \/ SetBase(g) \/ SetExpiration(g) \/ ReaderDies(g)
      PROVE  StorageInv'
  BY <1>3, FetchCounterInv, QueryInv, ReaderEnds, SetBaseInv
<1>4. QED
  BY <1>1, <1>2, <1>3, IngestShardsInv, BaseExpiresInv DEF StorageNext

\* The types hold throughout, whichever pushes, ingestions and readers overlap.
THEOREM StorageTypes == StorageSpec => []StorageTypeOK
<1>1. StorageInv => StorageTypeOK
  BY DEF StorageInv
<1>2. QED
  BY InitInv, NextInv, <1>1, PTL DEF StorageSpec

\* What getStorage answers from the base and the counter is each stored metric
\* once, unless a push overlapped the query or a count failed since: for any
\* number of metrics and of readers that overlap, fail or die.
THEOREM StorageIsExact == StorageSpec => []StorageExact
<1>1. StorageInv => StorageExact
  BY DEF StorageInv
<1>2. QED
  BY InitInv, NextInv, <1>1, PTL DEF StorageSpec
-----------------------------------------------------------------------------
(***************************************************************************)
(* The disk usage and the expiration of records, proved for any retention, *)
(* chunk and usages.                                                       *)
(*                                                                         *)
(* ActiveKept is not inductive by itself.  What a slice deletes is counted *)
(* in a snapshot only if one is later than all slices: slices end before   *)
(* the retention, and while no pass of the snapshot task was missed there  *)
(* is a snapshot that is not older than that.                              *)
(***************************************************************************)
LEMMA SliceBounds ==
  ASSUME NEW s \in Int, NEW e \in Int, s < e
  PROVE  LET x == sliceTimeRange(s, e)
         IN  /\ x \in Seq(Int \X Int) /\ x # <<>>
             /\ \A i \in DOMAIN x : x[i][1] =< x[i][2] /\ x[i][2] =< e
<1> DEFINE L == {i \in 0..(e - s) : s + (i + 1) * Chunk - 1 < e}
           n == Cardinality(L)
           f(i) == IF i = n + 1 THEN <<s + n * Chunk, e>>
                   ELSE <<s + (i - 1) * Chunk, s + i * Chunk - 1>>
<1>0. Chunk \in Nat \ {0}
  BY DiskAssumption
<1>1. IsFiniteSet(L) /\ n \in Nat
  <2>1. IsFiniteSet(0..(e - s))
    BY FS_Interval
  <2>2. IsFiniteSet(L)
    BY <2>1, FS_Subset
  <2>3. QED
    BY <2>2, FS_CardinalityType
<1>2. ASSUME NEW i \in Nat, i < n
      PROVE  s + (i + 1) * Chunk - 1 < e
  <2>1. SUFFICES ASSUME ~(s + (i + 1) * Chunk - 1 < e)
                 PROVE  FALSE
    OBVIOUS
  <2>2. ASSUME NEW j \in L, j >= i
        PROVE  FALSE
    <3>1. (i + 1) * Chunk =< (j + 1) * Chunk
      BY <1>0, <2>2
    <3>2. QED
      BY <1>0, <2>1, <2>2, <3>1
  <2>3. L \subseteq 0..(i - 1)
    BY <2>2
  <2>4. IsFiniteSet(0..(i - 1)) /\ Cardinality(0..(i - 1)) = i
    BY FS_Interval
  <2>5. n =< i
    BY <2>3, <2>4, FS_Subset
  <2>6. QED
    BY <1>1, <1>2, <2>5
<1>3. sliceTimeRange(s, e) = [i \in 1..(n + 1) |-> f(i)]
  BY DEF sliceTimeRange
<1> HIDE DEF n
<1>4. ASSUME NEW i \in 1..(n + 1)
      PROVE  f(i) \in Int \X Int /\ f(i)[1] =< f(i)[2] /\ f(i)[2] =< e
  <2>1. CASE i = n + 1
    <3>1. CASE n = 0
      BY <1>0, <1>1, <2>1, <3>1
    <3>2. CASE n # 0
      <4>1. s + ((n - 1) + 1) * Chunk - 1 < e
        BY <1>1, <1>2, <3>2
      <4>2. n * Chunk \in Int /\ (n - 1) + 1 = n
        BY <1>0, <1>1
      <4>3. QED
        BY <1>1, <2>1, <4>1, <4>2
    <3>3. QED
      BY <3>1, <3>2
  <2>2. CASE i # n + 1
    <3>1. s + ((i - 1) + 1) * Chunk - 1 < e
      BY <1>1, <1>2, <2>2
    <3>2. i * Chunk \in Int /\ (i - 1) * Chunk \in Int /\ i * Chunk = (i - 1) * Chunk + Chunk
      BY <1>0, <1>1
    <3>3. (i - 1) + 1 = i
      OBVIOUS
    <3>4. QED
      BY <1>0, <1>1, <2>2, <3>1, <3>2, <3>3
  <2>3. QED
    BY <2>1, <2>2
<1> HIDE DEF f
<1> DEFINE x == [i \in 1..(n + 1) |-> f(i)]
<1>5. n + 1 \in Nat /\ \A i \in 1..(n + 1) : x[i] = f(i)
  BY <1>1
<1>6. x \in [1..(n + 1) -> Int \X Int] /\ DOMAIN x = 1..(n + 1)
  BY <1>4
<1>7. \A i \in DOMAIN x : x[i][1] =< x[i][2] /\ x[i][2] =< e
  BY <1>4, <1>5, <1>6
<1> HIDE DEF x
<1>8. x \in Seq(Int \X Int)
  BY <1>5, <1>6 DEF Seq
<1>9. 1 \in DOMAIN x
  BY <1>1, <1>6
<1>10. x # <<>>
  BY <1>9
<1>11. QED
  BY <1>3, <1>7, <1>8, <1>10 DEF x
-----------------------------------------------------------------------------
(***************************************************************************)
(* What a query sums, of any set of records.                               *)
(***************************************************************************)
DiskRecord == [time : Nat, snapshot : BOOLEAN, size : Int]

LatestIn(R, s) == s \in R /\ s.snapshot /\ \A r \in R : r.snapshot => r.time =< s.time

FromIn(R) ==
  LET snaps == {r \in R : r.snapshot}
  IN  IF snaps = {} THEN -1 ELSE Max({r.time : r \in snaps})

SummedIn(R) == {r \in R : IF r.snapshot THEN r.time = FromIn(R) ELSE r.time > FromIn(R)}

SumIn(R) == SumOver([r \in R |-> r.size], SummedIn(R))

LEMMA CurrentIs == Current = SumIn(records) /\ Current' = SumIn(records')
BY DEF Current, Summed, From, SumIn, SummedIn, FromIn

LEMMA LatestExists ==
  ASSUME NEW c \in Nat, NEW R, R \subseteq DiskRecord, \A r \in R : r.time =< c,
         NEW x \in R, x.snapshot
  PROVE  \E s : LatestIn(R, s)
<1> DEFINE T == {r.time : r \in {r \in R : r.snapshot}}
<1>1. T \subseteq 0..c /\ T # {}
  BY DEF DiskRecord
<1>2. Max(T) \in T /\ \A y \in T : Max(T) >= y
  BY <1>1, MaxIs
<1>3. PICK s \in R : s.snapshot /\ s.time = Max(T)
  BY <1>2
<1>4. \A r \in R : r.snapshot => s.time >= r.time
  BY <1>2, <1>3
<1>5. \A r \in R : r.time \in Nat
  BY DEF DiskRecord
<1>6. QED
  BY <1>3, <1>4, <1>5 DEF LatestIn

LEMMA FromLatest ==
  ASSUME NEW R, R \subseteq DiskRecord, NEW s, LatestIn(R, s)
  PROVE  FromIn(R) = s.time
<1> DEFINE T == {r.time : r \in {r \in R : r.snapshot}}
<1>0. /\ \A r \in R : r.time \in Nat
      /\ s \in R /\ s.snapshot /\ \A r \in R : r.snapshot => r.time =< s.time
  BY DEF DiskRecord, LatestIn
<1>1. T \subseteq Nat /\ s.time \in T /\ \A y \in T : s.time >= y
  BY <1>0
<1> HIDE DEF T
<1>2. ASSUME NEW x \in T, \A y \in T : x >= y
      PROVE  x = s.time
  <2>1. x >= s.time /\ s.time >= x
    BY <1>1, <1>2
  <2>2. x \in Nat /\ s.time \in Nat
    BY <1>1
  <2>3. QED
    BY <2>1, <2>2
<1>3. Max(T) = s.time
  BY <1>1, <1>2 DEF Max
<1>4. QED
  BY <1>3 DEF FromIn, LatestIn, T

LEMMA SumInType ==
  ASSUME NEW R, IsFiniteSet(R), R \subseteq DiskRecord
  PROVE  IsFiniteSet(SummedIn(R)) /\ SumIn(R) \in Int
<1>1. IsFiniteSet(SummedIn(R))
  BY FS_Subset DEF SummedIn
<1>2. \A x \in SummedIn(R) : [r \in R |-> r.size][x] \in Int
  BY DEF SummedIn, DiskRecord
<1>3. QED
  BY <1>1, <1>2, SumType DEF SumIn

\* Of two sets of which a query sums the same records the sums are the same.
LEMMA SameSum ==
  ASSUME NEW R, IsFiniteSet(R), R \subseteq DiskRecord, NEW Q,
         SummedIn(Q) = SummedIn(R)
  PROVE  SumIn(Q) = SumIn(R)
<1>1. IsFiniteSet(SummedIn(R)) /\ SummedIn(R) \subseteq R /\ SummedIn(R) \subseteq Q
  BY SumInType DEF SummedIn
<1> DEFINE f == [r \in R |-> r.size]
           g == [r \in Q |-> r.size]
           S == SummedIn(R)
<1>2. \A x \in S : f[x] \in Int /\ f[x] = g[x]
  BY <1>1 DEF DiskRecord
<1> HIDE DEF f, g, S
<1>3. SumOver(f, S) = SumOver(g, S)
  BY <1>1, <1>2, SumAgrees DEF S
<1>4. QED
  BY <1>3 DEF SumIn, f, g, S

LEMMA SumOfOne ==
  ASSUME NEW f, NEW x, f[x] \in Int
  PROVE  SumOver(f, {x}) = f[x]
<1>1. IsFiniteSet({}) /\ {} \cup {x} = {x} /\ x \notin {}
  BY FS_EmptySet
<1>2. \A y \in {} \cup {x} : f[y] \in Int
  OBVIOUS
<1>3. SumOver(f, {} \cup {x}) = f[x] + SumOver(f, {})
  BY <1>1, <1>2, SumAdds
<1>4. QED
  BY <1>1, <1>3, SumEmpty

\* Ones add up to their number.
LEMMA SumOnes ==
  ASSUME NEW S, IsFiniteSet(S), NEW f, \A x \in S : f[x] = 1
  PROVE  SumOver(f, S) = Cardinality(S)
<1>1. PICK g : Table(f, S, g)
  BY SumTable
<1> DEFINE N == {n \in Nat : \A s \in SUBSET S : Cardinality(s) = n => g[s] = n}
<1>2. 0 \in N
  BY <1>1, Sizes DEF Table, Sums, Step
<1>3. ASSUME NEW n \in Nat, n \in N
      PROVE  n + 1 \in N
  <2>1. SUFFICES ASSUME NEW s \in SUBSET S, Cardinality(s) = n + 1
                 PROVE  g[s] = n + 1
    OBVIOUS
  <2>2. s # {}
    BY <2>1, Sizes
  <2>3. Pick(s) \in s /\ Cardinality(s \ {Pick(s)}) = n /\ s \ {Pick(s)} \in SUBSET S
    BY <2>1, <2>2, PickIn, Sizes
  <2>4. g[s \ {Pick(s)}] = n /\ f[Pick(s)] = 1
    BY <1>3, <2>3
  <2>5. g[s] = Step(f, g, s)
    BY <1>1 DEF Table, Sums
  <2>6. QED
    BY <2>2, <2>4, <2>5 DEF Step
<1>4. QED
  <2> HIDE DEF N
  <2>1. Nat \subseteq N
    BY <1>2, <1>3, NatSetInduction
  <2>2. Cardinality(S) \in N
    BY <2>1, FS_CardinalityType
  <2>3. S \in SUBSET S
    OBVIOUS
  <2>4. g[S] = Cardinality(S)
    BY <2>2, <2>3 DEF N
  <2>5. QED
    BY <1>1, <2>4 DEF Table
-----------------------------------------------------------------------------
DiskTypes ==
  /\ clock \in Nat /\ written \in Nat /\ lapsed \in BOOLEAN
  /\ IsFiniteSet(records) /\ records \subseteq DiskRecord
  /\ slices \in Seq(Int \X Int)

First == [time |-> 0, snapshot |-> TRUE, size |-> 0]

\* A snapshot is of a past instant, but the one there is at first.
SnapshotsPast ==
  /\ \A r \in records : r.time =< clock /\ (r.snapshot /\ clock # 0 => r.time < clock)
  /\ \A r, s \in records : r.snapshot /\ s.snapshot /\ r.time = s.time => r = s
  /\ clock = 0 => records = {First} /\ slices = <<>> /\ written = 0 /\ ~lapsed

SlicesPast == \A n \in DOMAIN slices : slices[n][2] =< EndTimestamp

SnapshotRecent == ~lapsed => \E r \in records : r.snapshot /\ r.time > EndTimestamp

DiskInv == DiskTypes /\ SnapshotsPast /\ SlicesPast /\ SnapshotRecent /\ ActiveKept

LEMMA DiskBegins == DiskInit => DiskInv
<1> SUFFICES ASSUME DiskInit
             PROVE  DiskInv
  OBVIOUS
<1>1. records = {First} /\ clock = 0 /\ written = 0 /\ ~lapsed /\ slices = <<>>
  BY DEF DiskInit, First
<1>2. First \in DiskRecord /\ First.time = 0 /\ First.snapshot /\ First.size = 0
  BY DEF First, DiskRecord
<1>3. DiskTypes
  <2>1. IsFiniteSet(records)
    BY <1>1, FS_Singleton
  <2>2. <<>> \in Seq(Int \X Int)
    OBVIOUS
  <2>3. records \subseteq DiskRecord
    BY <1>1, <1>2
  <2>4. lapsed \in BOOLEAN
    BY DEF DiskInit
  <2>5. QED
    BY <1>1, <2>1, <2>2, <2>3, <2>4 DEF DiskTypes
<1>4. LatestIn(records, First)
  BY <1>1, <1>2 DEF LatestIn
<1>5. SummedIn(records) = {First}
  <2>1. FromIn(records) = 0
    BY <1>2, <1>3, <1>4, FromLatest DEF DiskTypes
  <2>2. QED
    BY <1>1, <1>2, <2>1 DEF SummedIn
<1>6. SumIn(records) = 0
  <2> DEFINE f == [r \in records |-> r.size]
  <2>1. f[First] = 0 /\ SumIn(records) = SumOver(f, {First})
    BY <1>1, <1>2, <1>5 DEF SumIn
  <2> HIDE DEF f
  <2>2. QED
    BY <2>1, SumOfOne
<1>7. SnapshotRecent
  BY <1>1, <1>2, DiskAssumption DEF SnapshotRecent, EndTimestamp
<1>8. QED
  BY <1>1, <1>2, <1>3, <1>6, <1>7, CurrentIs DEF DiskInv, SnapshotsPast, SlicesPast, ActiveKept

LEMMA DiskSame ==
  ASSUME DiskInv, UNCHANGED <<clock, records, slices, written, lapsed>>
  PROVE  DiskInv'
<1>1. Current' = Current
  BY CurrentIs
<1>2. QED
  BY <1>1 DEF DiskInv, DiskTypes, SnapshotsPast, SlicesPast, SnapshotRecent, ActiveKept, EndTimestamp

LEMMA CheckpointWritten ==
  ASSUME DiskInv, WriteCheckpoint
  PROVE  DiskInv'
<1> DEFINE x == [time |-> clock, snapshot |-> FALSE, size |-> 1]
<1>1. /\ records' = records \cup {x} /\ written' = written + 1
      /\ UNCHANGED <<clock, slices, lapsed>>
      /\ \A r \in records : r.time # clock
  BY DEF WriteCheckpoint
<1>2. /\ clock \in Nat /\ written \in Nat /\ IsFiniteSet(records) /\ records \subseteq DiskRecord
      /\ \A r \in records : r.time \in Nat /\ r.time =< clock
  BY DEF DiskInv, DiskTypes, SnapshotsPast, DiskRecord
<1>3. x \in DiskRecord /\ x.time = clock /\ ~x.snapshot /\ x.size = 1 /\ x \notin records
  BY <1>1, <1>2 DEF DiskRecord
<1> HIDE DEF x
<1>4. IsFiniteSet(records') /\ records' \subseteq DiskRecord
  <2>1. IsFiniteSet(records \cup {x})
    BY <1>2, FS_AddElement
  <2>2. QED
    BY <1>1, <1>2, <1>3, <2>1
<1>5. clock # 0
  <2>1. First.time = 0
    BY DEF First
  <2>2. clock = 0 => First \in records
    BY DEF DiskInv, SnapshotsPast
  <2>3. QED
    BY <1>1, <2>1, <2>2
<1>6. SnapshotsPast'
  BY <1>1, <1>2, <1>3, <1>5 DEF DiskInv, SnapshotsPast
<1>7. SnapshotRecent' /\ SlicesPast'
  BY <1>1 DEF DiskInv, SnapshotRecent, SlicesPast, EndTimestamp
<1>8. ASSUME ~lapsed
      PROVE  SumIn(records') = SumIn(records) + 1
  <2>1. PICK s : LatestIn(records, s)
    BY <1>2, <1>8, LatestExists DEF DiskInv, SnapshotRecent
  <2>2. LatestIn(records', s)
    BY <1>1, <1>3, <2>1 DEF LatestIn
  <2>3. FromIn(records) = s.time /\ FromIn(records') = s.time /\ s.time < clock
    BY <1>2, <1>4, <1>5, <2>1, <2>2, FromLatest DEF LatestIn, DiskInv, SnapshotsPast
  <2> DEFINE f == [r \in records |-> r.size]
             g == [r \in records' |-> r.size]
             S == SummedIn(records)
  <2>4. SummedIn(records') = S \cup {x} /\ x \notin S
    BY <1>1, <1>3, <2>3 DEF SummedIn
  <2>5. IsFiniteSet(S) /\ S \subseteq records
    BY <1>2, SumInType DEF SummedIn
  <2>6. \A y \in S : f[y] \in Int /\ f[y] = g[y]
    BY <1>1, <1>2, <2>5 DEF DiskRecord
  <2>7. g[x] = 1
    BY <1>1, <1>3
  <2>8. /\ SumIn(records) = SumOver(f, S)
        /\ SumIn(records') = SumOver(g, S \cup {x})
    BY <2>4 DEF SumIn
  <2> HIDE DEF f, g, S
  <2>9. SumOver(f, S) = SumOver(g, S) /\ SumOver(f, S) \in Int
    BY <2>5, <2>6, SumAgrees, SumType
  <2>10. \A y \in S \cup {x} : g[y] \in Int
    BY <2>6, <2>7
  <2>11. SumOver(g, S \cup {x}) = g[x] + SumOver(g, S)
    BY <2>4, <2>5, <2>10, SumAdds
  <2>12. QED
    BY <2>7, <2>8, <2>9, <2>11
<1>9. ActiveKept'
  BY <1>1, <1>2, <1>8, CurrentIs DEF DiskInv, ActiveKept
<1>10. QED
  BY <1>1, <1>2, <1>4, <1>6, <1>7, <1>9 DEF DiskInv, DiskTypes
LEMMA TimePasses ==
  ASSUME DiskInv, Pass
  PROVE  DiskInv'
<1> DEFINE x == [time |-> clock, snapshot |-> TRUE, size |-> Current]
<1>1. /\ clock' = clock + 1 /\ UNCHANGED <<slices, written>>
      /\ records' = records \/ records' = records \cup {x}
      /\ lapsed' = (lapsed \/ \A r \in records' : r.snapshot => r.time =< clock' - Retention)
  BY DEF Pass
<1>2. /\ clock \in Nat /\ written \in Nat /\ IsFiniteSet(records) /\ records \subseteq DiskRecord
      /\ Current \in Int /\ Retention \in Nat /\ lapsed \in BOOLEAN
      /\ \A r \in records : r.time \in Nat /\ r.time =< clock
  BY SumInType, CurrentIs, DiskAssumption DEF DiskInv, DiskTypes, SnapshotsPast, DiskRecord
<1>3. x \in DiskRecord /\ x.time = clock /\ x.snapshot /\ x.size = Current
  BY <1>2 DEF DiskRecord
\* At the first instant there is only the first snapshot.
<1>4. clock = 0 => x = First /\ records = {First}
  BY DEF DiskInv, SnapshotsPast, ActiveKept, First
<1> HIDE DEF x
<1>5. IsFiniteSet(records') /\ records' \subseteq DiskRecord
  <2>1. IsFiniteSet(records \cup {x})
    BY <1>2, FS_AddElement
  <2>2. QED
    BY <1>1, <1>2, <1>3, <2>1
<1>6. DiskTypes'
  BY <1>1, <1>2, <1>5 DEF DiskInv, DiskTypes
<1>7. SnapshotsPast'
  <2>1. \A r \in records' : r.time =< clock
    BY <1>1, <1>2, <1>3
  <2>2. \A r, s \in records' : r.snapshot /\ s.snapshot /\ r.time = s.time => r = s
    BY <1>1, <1>2, <1>3, <1>4 DEF DiskInv, SnapshotsPast
  <2>3. \A r \in records' : r.time \in Nat
    BY <1>5 DEF DiskRecord
  <2>4. QED
    BY <1>1, <1>2, <2>1, <2>2, <2>3 DEF SnapshotsPast
<1>8. SlicesPast'
  <2>1. \A n \in DOMAIN slices : slices[n][2] \in Int
    BY DEF DiskInv, DiskTypes
  <2>2. QED
    BY <1>1, <1>2, <2>1 DEF DiskInv, SlicesPast, EndTimestamp
<1>9. SnapshotRecent'
  <2>1. \A r \in records' : r.time \in Nat
    BY <1>5 DEF DiskRecord
  <2>2. ASSUME ~lapsed'
        PROVE  \E r \in records' : r.snapshot /\ r.time > clock' - Retention
    <3>1. PICK r \in records' : r.snapshot /\ ~(r.time =< clock' - Retention)
      BY <1>1, <2>2
    <3>2. QED
      BY <1>1, <1>2, <2>1, <3>1
  <2>3. QED
    BY <2>2 DEF SnapshotRecent, EndTimestamp
<1>10. ASSUME ~lapsed, records' = records \cup {x}
       PROVE  SumIn(records') = Current
  <2>1. LatestIn(records', x)
    BY <1>2, <1>3, <1>10 DEF LatestIn
  <2>2. FromIn(records') = clock
    BY <1>3, <1>5, <2>1, FromLatest
  <2>3. SummedIn(records') = {x}
    BY <1>2, <1>3, <1>4, <1>10, <2>2 DEF SummedIn, DiskInv, SnapshotsPast
  <2> DEFINE g == [r \in records' |-> r.size]
  <2>4. g[x] = Current
    BY <1>3, <1>10
  <2>5. SumIn(records') = SumOver(g, {x})
    BY <2>3 DEF SumIn
  <2> HIDE DEF g
  <2>6. QED
    BY <1>2, <2>4, <2>5, SumOfOne
<1>11. ActiveKept'
  BY <1>1, <1>10, CurrentIs DEF DiskInv, ActiveKept
<1>12. QED
  BY <1>6, <1>7, <1>8, <1>9, <1>11 DEF DiskInv

LEMMA MetricsExpire ==
  ASSUME DiskInv, ExpireMetrics
  PROVE  DiskInv'
<1>1. UNCHANGED <<clock, records, written, lapsed>>
  BY DEF ExpireMetrics
<1> DEFINE T == {r.time : r \in records}
<1>2. clock \in Nat /\ Retention \in Nat \ {0} /\ T # {} /\ T \subseteq Nat
  BY DiskAssumption DEF DiskInv, DiskTypes, DiskRecord, ExpireMetrics
<1> HIDE DEF T
<1>3. Oldest \in Nat /\ Oldest =< EndTimestamp /\ EndTimestamp \in Int
  <2>1. Min(T) \in T
    BY <1>2, MinIs
  <2>2. QED
    BY <1>2, <2>1 DEF T, Oldest, ExpireMetrics, EndTimestamp
<1> DEFINE x == sliceTimeRange(Oldest - 1, EndTimestamp)
<1>4. x \in Seq(Int \X Int) /\ \A i \in DOMAIN x : x[i][2] =< EndTimestamp
  BY <1>3, SliceBounds
<1>5. slices' = x
  BY DEF ExpireMetrics
<1> HIDE DEF x
<1>6. EndTimestamp' = EndTimestamp
  BY <1>1 DEF EndTimestamp
<1>7. Current' = Current
  BY <1>1, CurrentIs
<1>8. clock # 0
  BY <1>2, <1>3 DEF EndTimestamp
<1>9. QED
  BY <1>1, <1>4, <1>5, <1>6, <1>7, <1>8
  DEF DiskInv, DiskTypes, SnapshotsPast, SlicesPast, SnapshotRecent, ActiveKept

\* What is deleted is older than the latest snapshot.
LEMMA SliceDeleted ==
  ASSUME DiskInv, DeleteSlice
  PROVE  DiskInv'
<1>1. /\ slices # <<>> /\ slices' = Tail(slices)
      /\ records' = {r \in records : r.time \notin Head(slices)[1]..Head(slices)[2]}
      /\ UNCHANGED <<clock, written, lapsed>>
  BY DEF DeleteSlice
<1>2. /\ clock \in Nat /\ IsFiniteSet(records) /\ records \subseteq DiskRecord
      /\ slices \in Seq(Int \X Int) /\ EndTimestamp \in Int
      /\ \A r \in records : r.time \in Nat /\ r.time =< clock
  BY DiskAssumption DEF DiskInv, DiskTypes, SnapshotsPast, DiskRecord, EndTimestamp
<1>3. IsFiniteSet(records') /\ records' \subseteq records
  BY <1>1, <1>2, FS_Subset
<1>4. slices' \in Seq(Int \X Int) /\ SlicesPast'
  <2>1. \A n \in DOMAIN slices' : n + 1 \in DOMAIN slices /\ slices'[n] = slices[n + 1]
    BY <1>1, <1>2
  <2>2. slices' \in Seq(Int \X Int)
    BY <1>1, <1>2
  <2>3. QED
    BY <1>1, <2>1, <2>2 DEF DiskInv, SlicesPast, EndTimestamp
<1>5. clock # 0
  BY <1>1 DEF DiskInv, SnapshotsPast
<1>6. SnapshotsPast' /\ DiskTypes'
  BY <1>1, <1>2, <1>3, <1>4, <1>5 DEF DiskInv, SnapshotsPast, DiskTypes
\* A record after the retention stays.
<1>7. \A r \in records : r.time > EndTimestamp => r \in records'
  <2>1. Head(slices)[2] =< EndTimestamp /\ Head(slices)[2] \in Int /\ Head(slices)[1] \in Int
    <3>1. 1 \in DOMAIN slices /\ Head(slices) = slices[1]
      BY <1>1, <1>2
    <3>2. QED
      BY <1>2, <3>1 DEF DiskInv, SlicesPast
  <2>2. QED
    BY <1>1, <1>2, <2>1
<1>8. EndTimestamp' = EndTimestamp
  BY <1>1 DEF EndTimestamp
<1>9. SnapshotRecent'
  BY <1>1, <1>7, <1>8 DEF DiskInv, SnapshotRecent
<1>10. ASSUME ~lapsed
       PROVE  SumIn(records') = SumIn(records)
  <2>1. PICK y \in records : y.snapshot /\ y.time > EndTimestamp
    BY <1>10 DEF DiskInv, SnapshotRecent
  <2>2. PICK s : LatestIn(records, s)
    BY <1>2, <2>1, LatestExists
  <2>3. s.time > EndTimestamp
    BY <1>2, <2>1, <2>2 DEF LatestIn
  <2>4. LatestIn(records', s)
    BY <1>3, <1>7, <2>2, <2>3 DEF LatestIn
  <2>5. FromIn(records) = s.time /\ FromIn(records') = s.time
    BY <1>2, <1>3, <2>2, <2>4, FromLatest
  <2>6. \A r \in SummedIn(records) : r \in records'
    BY <1>2, <1>7, <2>2, <2>3, <2>5 DEF SummedIn, LatestIn
  <2>7. SummedIn(records') = SummedIn(records)
    BY <1>3, <2>5, <2>6 DEF SummedIn
  <2>8. QED
    BY <1>2, <2>7, SameSum
<1>11. ActiveKept'
  BY <1>1, <1>10, CurrentIs DEF DiskInv, ActiveKept
<1>12. QED
  BY <1>4, <1>6, <1>9, <1>11 DEF DiskInv

LEMMA DiskStep == DiskInv /\ [DiskNext]_disk => DiskInv'
<1> SUFFICES ASSUME DiskInv, [DiskNext]_disk
             PROVE  DiskInv'
  OBVIOUS
<1>1. CASE WriteCheckpoint
  BY <1>1, CheckpointWritten
<1>2. CASE Pass
  BY <1>2, TimePasses
<1>3. CASE Expiring
  BY <1>3, MetricsExpire, SliceDeleted DEF Expiring
<1>4. CASE DiskFills \/ CheckHardLimit \/ ManualLock \/ UNCHANGED disk
  BY <1>4, DiskSame DEF DiskFills, CheckHardLimit, ManualLock, disk
\* The slices are given up.
<1>5. CASE DeleteFailed
  <2>1. UNCHANGED <<clock, records, written, lapsed>> /\ slices' = <<>>
    BY <1>5 DEF DeleteFailed
  <2>2. <<>> \in Seq(Int \X Int)
    OBVIOUS
  <2>3. Current' = Current
    BY <2>1, CurrentIs
  <2>4. QED
    BY <2>1, <2>2, <2>3
    DEF DiskInv, DiskTypes, SnapshotsPast, SlicesPast, SnapshotRecent, ActiveKept, EndTimestamp
<1>6. QED
  BY <1>1, <1>2, <1>3, <1>4, <1>5 DEF DiskNext

\* Whatever slices are deleted or fail, and whatever is written meanwhile, a query
\* gives what it gave, as long as there always was a snapshot within the retention.
THEOREM ActiveKeptCorrect == DiskSpec => []ActiveKept
<1>1. DiskInv => ActiveKept
  BY DEF DiskInv
<1>2. QED
  BY <1>1, DiskBegins, DiskStep, PTL DEF DiskSpec
-----------------------------------------------------------------------------
\* What a snapshot has and what was written since is not more than was written, of
\* every snapshot: the latest one may be deleted.
CheckpointsAfter(R, t) == {r \in R : ~r.snapshot /\ r.time > t}

Bounded(R, n) ==
  /\ \A r \in R : ~r.snapshot => r.size = 1
  /\ Cardinality(CheckpointsAfter(R, -1)) =< n
  /\ \A r \in R : r.snapshot => r.size \in Nat /\ r.size + Cardinality(CheckpointsAfter(R, r.time)) =< n

LEMMA CheckpointsFinite ==
  ASSUME NEW R, IsFiniteSet(R), NEW Q, Q \subseteq R, NEW t
  PROVE  /\ IsFiniteSet(CheckpointsAfter(R, t))
         /\ Cardinality(CheckpointsAfter(R, t)) \in Nat /\ Cardinality(CheckpointsAfter(Q, t)) \in Nat
         /\ Cardinality(CheckpointsAfter(Q, t)) =< Cardinality(CheckpointsAfter(R, t))
<1>1. CheckpointsAfter(Q, t) \subseteq CheckpointsAfter(R, t) /\ CheckpointsAfter(R, t) \subseteq R
  BY DEF CheckpointsAfter
<1>2. IsFiniteSet(CheckpointsAfter(R, t)) /\ IsFiniteSet(CheckpointsAfter(Q, t))
  BY <1>1, FS_Subset
<1>3. QED
  BY <1>1, <1>2, FS_Subset, FS_CardinalityType

LEMMA SumBounded ==
  ASSUME NEW R, IsFiniteSet(R), R \subseteq DiskRecord, NEW c \in Nat, \A r \in R : r.time =< c,
         \A r, s \in R : r.snapshot /\ s.snapshot /\ r.time = s.time => r = s,
         NEW n \in Nat, Bounded(R, n)
  PROVE  SumIn(R) \in 0..n
<1> DEFINE f == [r \in R |-> r.size]
<1>1. \A x \in R : f[x] = x.size /\ x.size \in Int /\ x.time \in Nat /\ x.snapshot \in BOOLEAN
  BY DEF DiskRecord
<1>2. SumIn(R) = SumOver(f, SummedIn(R))
  BY DEF SumIn
<1> HIDE DEF f
<1>3. CASE \E x \in R : x.snapshot
  <2>1. PICK s : LatestIn(R, s)
    BY <1>3, LatestExists
  <2>2. FromIn(R) = s.time /\ s \in R /\ s.snapshot
    BY <2>1, FromLatest DEF LatestIn
  <2>3. PICK L : L = CheckpointsAfter(R, s.time) /\ IsFiniteSet(L) /\ L \subseteq R
    BY CheckpointsFinite DEF CheckpointsAfter
  <2>4. s \notin L /\ SummedIn(R) = L \cup {s}
    BY <1>1, <2>2, <2>3 DEF SummedIn, CheckpointsAfter
  <2>5. \A x \in L : f[x] = 1
    BY <1>1, <2>3 DEF Bounded, CheckpointsAfter
  <2>6. SumOver(f, L) = Cardinality(L) /\ Cardinality(L) \in Nat
    BY <2>3, <2>5, SumOnes, FS_CardinalityType
  <2>7. \A y \in L \cup {s} : f[y] \in Int
    BY <1>1, <2>2, <2>3
  <2>8. SumOver(f, L \cup {s}) = f[s] + SumOver(f, L)
    BY <2>3, <2>4, <2>7, SumAdds
  <2>9. f[s] = s.size /\ s.size \in Nat /\ s.size + Cardinality(L) =< n
    BY <1>1, <2>2, <2>3 DEF Bounded
  <2>10. QED
    BY <1>2, <2>4, <2>6, <2>8, <2>9
<1>4. CASE ~ \E x \in R : x.snapshot
  <2>1. FromIn(R) = -1
    BY <1>4 DEF FromIn
  <2>2. PICK L : L = CheckpointsAfter(R, -1) /\ IsFiniteSet(L) /\ L \subseteq R
    BY CheckpointsFinite DEF CheckpointsAfter
  <2>3. SummedIn(R) = L
    BY <1>4, <2>1, <2>2 DEF SummedIn, CheckpointsAfter
  <2>4. \A x \in L : f[x] = 1
    BY <1>1, <2>2 DEF Bounded, CheckpointsAfter
  <2>5. SumOver(f, L) = Cardinality(L) /\ Cardinality(L) \in Nat
    BY <2>2, <2>4, SumOnes, FS_CardinalityType
  <2>6. Cardinality(L) =< n
    BY <2>2 DEF Bounded
  <2>7. QED
    BY <1>2, <2>3, <2>5, <2>6
<1>5. QED
  BY <1>3, <1>4
-----------------------------------------------------------------------------
DiskBounds ==
  /\ clock =< MaxClock /\ usage \in Usages /\ updates \in BOOLEAN
  /\ manual \in 0..MaxManual /\ misses \in 0..MaxMisses
  /\ \A n \in DOMAIN slices : slices[n][1] =< slices[n][2]
  /\ Bounded(records, written)

\* The schedule is lost only without metrics.
Halts == metricsOn \in BOOLEAN /\ halted \in {FALSE, ~metricsOn}

LEMMA HaltsStep ==
  ASSUME Halts, [DiskNext]_disk
  PROVE  Halts'
<1>1. metricsOn' = metricsOn /\ (halted' = halted \/ halted' = ~metricsOn)
  BY DEF DiskNext, WriteCheckpoint, Pass, Expiring, ExpireMetrics, DeleteSlice, DeleteFailed,
         DiskFills, CheckHardLimit, ManualLock, disk, counts
<1>2. QED
  BY <1>1 DEF Halts

LEMMA BoundedBegins ==
  ASSUME DiskInit
  PROVE  DiskBounds
<1>1. records = {First} /\ written = 0 /\ slices = <<>>
  BY DEF DiskInit, First
<1>2. First.snapshot /\ First.size = 0
  BY DEF First
<1>3. \A t : CheckpointsAfter({First}, t) = {}
  BY <1>2 DEF CheckpointsAfter
<1>4. \A t : Cardinality(CheckpointsAfter({First}, t)) = 0
  BY <1>3, FS_EmptySet
<1>5. Bounded(records, written)
  BY <1>1, <1>2, <1>4 DEF Bounded
<1>6. updates \in BOOLEAN
  BY DEF DiskInit
<1>7. clock =< MaxClock /\ manual \in 0..MaxManual /\ misses \in 0..MaxMisses
  BY DiskAssumption DEF DiskInit
<1>8. \A n \in DOMAIN slices : slices[n][1] =< slices[n][2]
  BY <1>1
<1>9. usage \in Usages
  BY DEF DiskInit
<1>10. QED
  BY <1>5, <1>6, <1>7, <1>8, <1>9 DEF DiskBounds

LEMMA CheckpointBounded ==
  ASSUME DiskInv, DiskBounds, WriteCheckpoint
  PROVE  DiskBounds'
<1>1. PICK x : x = [time |-> clock, snapshot |-> FALSE, size |-> 1]
  OBVIOUS
<1>2. PICK R, n : R = records /\ n = written
  OBVIOUS
<1>3. /\ ~x.snapshot /\ x.size = 1 /\ records' = R \cup {x} /\ written' = n + 1
      /\ UNCHANGED <<clock, slices, updates, usage, manual, misses>>
  BY <1>1, <1>2 DEF WriteCheckpoint, counts
<1>4. Bounded(R, n) /\ IsFiniteSet(R) /\ n \in Nat
  BY <1>2 DEF DiskInv, DiskTypes, DiskBounds
<1>5. ASSUME NEW t
      PROVE  /\ Cardinality(CheckpointsAfter(R \cup {x}, t)) =< Cardinality(CheckpointsAfter(R, t)) + 1
             /\ Cardinality(CheckpointsAfter(R \cup {x}, t)) \in Nat
             /\ Cardinality(CheckpointsAfter(R, t)) \in Nat
  <2>1. PICK L, M : L = CheckpointsAfter(R, t) /\ M = CheckpointsAfter(R \cup {x}, t)
    OBVIOUS
  <2>2. IsFiniteSet(L) /\ Cardinality(L) \in Nat
    BY <1>4, <2>1, CheckpointsFinite
  <2>3. M \subseteq L \cup {x}
    BY <2>1 DEF CheckpointsAfter
  <2>4. /\ IsFiniteSet(L \cup {x})
        /\ Cardinality(L \cup {x}) = IF x \in L THEN Cardinality(L) ELSE Cardinality(L) + 1
    BY <2>2, FS_AddElement
  <2>5. Cardinality(M) =< Cardinality(L \cup {x}) /\ IsFiniteSet(M)
    BY <2>3, <2>4, FS_Subset
  <2>6. Cardinality(M) \in Nat
    BY <2>5, FS_CardinalityType
  <2>7. QED
    BY <2>1, <2>2, <2>4, <2>5, <2>6
<1>6. Bounded(R \cup {x}, n + 1)
  <2>1. \A r \in R \cup {x} : ~r.snapshot => r.size = 1
    BY <1>3, <1>4 DEF Bounded
  <2>2. Cardinality(CheckpointsAfter(R \cup {x}, -1)) =< n + 1
    <3>1. PICK k, m : /\ k = Cardinality(CheckpointsAfter(R, -1))
                      /\ m = Cardinality(CheckpointsAfter(R \cup {x}, -1))
      OBVIOUS
    <3>2. k \in Nat /\ m \in Nat /\ m =< k + 1
      BY <1>5, <3>1
    <3>3. k =< n
      BY <1>4, <3>1 DEF Bounded
    <3>4. QED
      BY <1>4, <3>1, <3>2, <3>3
  <2>3. ASSUME NEW r \in R \cup {x}, r.snapshot
        PROVE  r.size \in Nat /\ r.size + Cardinality(CheckpointsAfter(R \cup {x}, r.time)) =< n + 1
    <3>1. r \in R
      BY <1>3, <2>3
    <3>2. r.size \in Nat /\ r.size + Cardinality(CheckpointsAfter(R, r.time)) =< n
      BY <1>4, <2>3, <3>1 DEF Bounded
    <3>3. PICK k, m : /\ k = Cardinality(CheckpointsAfter(R, r.time))
                      /\ m = Cardinality(CheckpointsAfter(R \cup {x}, r.time))
      OBVIOUS
    <3>4. k \in Nat /\ m \in Nat /\ m =< k + 1
      BY <1>5, <3>3
    <3>5. QED
      BY <1>4, <3>2, <3>3, <3>4
  <2>4. QED
    BY <2>1, <2>2, <2>3 DEF Bounded
<1>7. QED
  BY <1>3, <1>6 DEF DiskBounds

LEMMA SnapshotBounded ==
  ASSUME DiskInv, DiskBounds, Pass
  PROVE  DiskBounds'
<1>1. PICK R, n, c, x : R = records /\ n = written /\ c = clock /\ x = [time |-> c, snapshot |-> TRUE, size |-> Current]
  OBVIOUS
<1>2. /\ c < MaxClock /\ clock' = c + 1 /\ UNCHANGED <<slices, updates, usage, manual, misses, written>>
      /\ records' = R \/ records' = R \cup {x}
  BY <1>1 DEF Pass, counts
<1>3. /\ Bounded(R, n) /\ IsFiniteSet(R) /\ R \subseteq DiskRecord /\ n \in Nat /\ c \in Nat
      /\ \A r \in R : r.time =< c
      /\ \A r, s \in R : r.snapshot /\ s.snapshot /\ r.time = s.time => r = s
  BY <1>1 DEF DiskInv, DiskTypes, DiskBounds, SnapshotsPast
<1>4. Current \in 0..n
  BY <1>1, <1>3, SumBounded, CurrentIs
<1>5. x.snapshot /\ x.time = c /\ x.size \in 0..n
  BY <1>1, <1>4
<1>6. \A t : CheckpointsAfter(R \cup {x}, t) = CheckpointsAfter(R, t)
  BY <1>5 DEF CheckpointsAfter
<1>7. Cardinality(CheckpointsAfter(R, c)) = 0
  <2>1. \A r \in R : r.time \in Nat
    BY <1>3 DEF DiskRecord
  <2>2. CheckpointsAfter(R, c) = {}
    BY <1>3, <2>1 DEF CheckpointsAfter
  <2>3. QED
    BY <2>2, FS_EmptySet
<1>8. Bounded(R \cup {x}, n)
  <2>1. ASSUME NEW r \in R \cup {x}, r.snapshot
        PROVE  r.size \in Nat /\ r.size + Cardinality(CheckpointsAfter(R \cup {x}, r.time)) =< n
    <3>1. CASE r \in R
      BY <1>3, <1>6, <2>1, <3>1 DEF Bounded
    <3>2. CASE r = x
      BY <1>3, <1>5, <1>6, <1>7, <3>2
    <3>3. QED
      BY <3>1, <3>2
  <2>2. QED
    BY <1>3, <1>5, <1>6, <2>1 DEF Bounded
<1>9. Bounded(records', written')
  BY <1>1, <1>2, <1>3, <1>8
<1>10. clock' =< MaxClock
  BY <1>2, <1>3, DiskAssumption
<1>11. QED
  BY <1>2, <1>9, <1>10 DEF DiskBounds

LEMMA DeletionBounded ==
  ASSUME DiskInv, DiskBounds, DeleteSlice
  PROVE  DiskBounds'
<1>1. PICK R, n, Q : R = records /\ n = written /\ Q = records' /\ Q \subseteq R
  BY DEF DeleteSlice
<1>2. Bounded(R, n) /\ IsFiniteSet(R) /\ n \in Nat
  BY <1>1 DEF DiskInv, DiskTypes, DiskBounds
<1>3. \A t : /\ Cardinality(CheckpointsAfter(Q, t)) =< Cardinality(CheckpointsAfter(R, t))
             /\ Cardinality(CheckpointsAfter(Q, t)) \in Nat /\ Cardinality(CheckpointsAfter(R, t)) \in Nat
  BY <1>1, <1>2, CheckpointsFinite
<1>4. Bounded(Q, n)
  <2>1. \A r \in Q : ~r.snapshot => r.size = 1
    BY <1>1, <1>2 DEF Bounded
  <2>2. Cardinality(CheckpointsAfter(Q, -1)) =< n
    <3>1. Cardinality(CheckpointsAfter(R, -1)) =< n
      BY <1>2 DEF Bounded
    <3>2. QED
      BY <1>2, <1>3, <3>1
  <2>3. ASSUME NEW r \in Q, r.snapshot
        PROVE  r.size \in Nat /\ r.size + Cardinality(CheckpointsAfter(Q, r.time)) =< n
    <3>1. r.size \in Nat /\ r.size + Cardinality(CheckpointsAfter(R, r.time)) =< n
      BY <1>1, <1>2, <2>3 DEF Bounded
    <3>2. QED
      BY <1>2, <1>3, <3>1
  <2>4. QED
    BY <2>1, <2>2, <2>3 DEF Bounded
<1>5. UNCHANGED <<clock, updates, usage, manual, misses, written>> /\ slices' = Tail(slices) /\ slices # <<>>
  BY DEF DeleteSlice, counts
<1>6. \A n2 \in DOMAIN slices' : slices'[n2][1] =< slices'[n2][2]
  <2>1. slices \in Seq(Int \X Int)
    BY DEF DiskInv, DiskTypes
  <2>2. \A k \in DOMAIN slices' : k + 1 \in DOMAIN slices /\ slices'[k] = slices[k + 1]
    BY <1>5, <2>1
  <2>3. QED
    BY <2>2 DEF DiskBounds
<1>7. QED
  BY <1>1, <1>4, <1>5, <1>6 DEF DiskBounds

LEMMA SlicingBounded ==
  ASSUME DiskInv, DiskBounds, ExpireMetrics
  PROVE  DiskBounds'
<1>1. UNCHANGED <<clock, records, updates, usage, manual, misses, written>>
  BY DEF ExpireMetrics, counts
<1> DEFINE T == {r.time : r \in records}
<1>2. clock \in Nat /\ Retention \in Nat \ {0} /\ T # {} /\ T \subseteq Nat
  BY DiskAssumption DEF DiskInv, DiskTypes, DiskRecord, ExpireMetrics
<1> HIDE DEF T
<1>3. Oldest \in Nat /\ Oldest =< EndTimestamp /\ EndTimestamp \in Int
  <2>1. Min(T) \in T
    BY <1>2, MinIs
  <2>2. QED
    BY <1>2, <2>1 DEF T, Oldest, ExpireMetrics, EndTimestamp
<1>4. PICK x : x = sliceTimeRange(Oldest - 1, EndTimestamp) /\ \A i \in DOMAIN x : x[i][1] =< x[i][2]
  BY <1>3, SliceBounds
<1>5. slices' = x
  BY <1>4 DEF ExpireMetrics
<1>6. QED
  BY <1>1, <1>4, <1>5 DEF DiskBounds

LEMMA BoundsStep ==
  ASSUME DiskInv, DiskBounds, [DiskNext]_disk
  PROVE  DiskBounds'
<1>1. CASE DiskFills \/ CheckHardLimit \/ ManualLock \/ DeleteFailed \/ UNCHANGED disk
  <2>1. UNCHANGED <<clock, records, written>>
    BY <1>1 DEF DiskFills, CheckHardLimit, ManualLock, DeleteFailed, disk
  <2>2. slices' = slices \/ slices' = <<>>
    BY <1>1 DEF DiskFills, CheckHardLimit, ManualLock, DeleteFailed, disk
  <2>3. usage' \in Usages
    BY <1>1 DEF DiskBounds, DiskFills, CheckHardLimit, ManualLock, DeleteFailed, disk
  <2>4. updates' \in BOOLEAN
    <3>1. updates \in BOOLEAN
      BY DEF DiskBounds
    <3>2. CASE CheckHardLimit \/ ManualLock
      BY <3>2 DEF CheckHardLimit, ManualLock
    <3>3. CASE DiskFills \/ DeleteFailed \/ UNCHANGED disk
      BY <3>1, <3>3 DEF DiskFills, DeleteFailed, disk
    <3>4. QED
      BY <1>1, <3>2, <3>3
  <2>5. manual' \in 0..MaxManual /\ misses' \in 0..MaxMisses
    BY <1>1, DiskAssumption DEF DiskBounds, DiskFills, CheckHardLimit, ManualLock, DeleteFailed, disk, counts
  <2>6. \A n \in DOMAIN slices' : slices'[n][1] =< slices'[n][2]
    BY <2>2 DEF DiskBounds
  <2>7. QED
    BY <2>1, <2>3, <2>4, <2>5, <2>6 DEF DiskBounds
<1>2. QED
  BY <1>1, CheckpointBounded, SnapshotBounded, DeletionBounded, SlicingBounded DEF DiskNext, Expiring

\* However the expiration and the locks interleave with what is written, slices are
\* ranges, the checks leave updates on or off, and a snapshot never counts more than
\* was written, even if later ones were deleted.
THEOREM DiskTypesCorrect == DiskSpec => []DiskTypeOK
<1> DEFINE IInv == DiskInv /\ DiskBounds /\ Halts
<1>1. DiskInit => IInv
  BY DiskBegins, BoundedBegins DEF DiskInit, Halts
<1>2. IInv /\ [DiskNext]_disk => IInv'
  BY DiskStep, BoundsStep, HaltsStep
<1>3. IInv => DiskTypeOK
  <2>1. SUFFICES ASSUME DiskInv, DiskBounds, Halts
                 PROVE  DiskTypeOK
    OBVIOUS
  <2>2. ASSUME NEW r \in records
        PROVE  r.time \in 0..MaxClock /\ r.size \in 0..written
    <3>1. r.time \in Nat /\ r.snapshot \in BOOLEAN /\ r.time =< clock /\ clock \in Nat /\ written \in Nat /\ clock =< MaxClock
      BY <2>1 DEF DiskInv, DiskTypes, SnapshotsPast, DiskRecord, DiskBounds
    <3>2. r.time \in 0..MaxClock
      BY <3>1, DiskAssumption
    <3>3. PICK R, n : R = records /\ n = written /\ Bounded(R, n) /\ IsFiniteSet(R) /\ n \in Nat
      BY <2>1 DEF DiskInv, DiskTypes, DiskBounds
    <3>4. CASE r.snapshot
      <4>1. r.size \in Nat /\ r.size + Cardinality(CheckpointsAfter(R, r.time)) =< n
        BY <3>3, <3>4 DEF Bounded
      <4>2. Cardinality(CheckpointsAfter(R, r.time)) \in Nat
        BY <3>3, CheckpointsFinite
      <4>3. QED
        BY <3>2, <3>3, <4>1, <4>2
    <3>5. CASE ~r.snapshot
      <4>1. r.size = 1 /\ Cardinality(CheckpointsAfter(R, -1)) =< n
        BY <3>3, <3>5 DEF Bounded
      <4>2. r \in CheckpointsAfter(R, -1)
        BY <3>1, <3>3, <3>5 DEF CheckpointsAfter
      <4>3. Cardinality(CheckpointsAfter(R, -1)) \in Nat /\ Cardinality(CheckpointsAfter(R, -1)) # 0
        BY <3>3, <4>2, CheckpointsFinite, FS_EmptySet
      <4>4. QED
        BY <3>2, <3>3, <4>1, <4>3
    <3>6. QED
      BY <3>4, <3>5
  <2>3. clock \in 0..MaxClock
    BY <2>1, DiskAssumption DEF DiskInv, DiskTypes, DiskBounds
  <2>4. metricsOn \in BOOLEAN /\ halted \in {FALSE, ~metricsOn}
    BY <2>1 DEF Halts
  <2>5. QED
    BY <2>1, <2>2, <2>3, <2>4 DEF DiskTypeOK, DiskBounds
<1> HIDE DEF IInv
<1>4. QED
  BY <1>1, <1>2, <1>3, PTL DEF DiskSpec
-----------------------------------------------------------------------------
(***************************************************************************)
(* The migration, proved for any history, any series of version 2 and any  *)
(* order of failures and restarts.                                         *)
(***************************************************************************)
Time(n) == History[n][1]
Value(n) == IF n = 0 THEN 0 ELSE History[n][2]

\* The metrics of version 1.
LEMMA HistoryIs ==
  /\ Len(History) \in Nat /\ DOMAIN History = 1..Len(History)
  /\ \A n \in 1..Len(History) : /\ Time(n) \in Nat /\ Time(n) < Present
                               /\ Delta(n) = Value(n) - Value(n - 1)
  /\ \A n \in 0..Len(History) : Value(n) \in Int
  /\ \A m, n \in 1..Len(History) : m < n => Time(m) < Time(n)
  /\ Total = Value(Len(History))
<1>1. Len(History) \in Nat /\ DOMAIN History = 1..Len(History)
  BY MigrateAssumption
<1>2. \A n \in 1..Len(History) : History[n][1] \in Nat /\ History[n][2] \in Int
  BY MigrateAssumption
<1>3. ASSUME NEW n \in 1..Len(History)
      PROVE  /\ Time(n) \in Nat /\ Time(n) < Present
             /\ Delta(n) = Value(n) - Value(n - 1)
  <2>1. Time(n) \in Nat /\ Time(n) < Present
    BY <1>1, <1>2, MigrateAssumption DEF Time
  <2>2. n = 1 <=> n - 1 = 0
    BY <1>1
  <2>3. Delta(n) = Value(n) - Value(n - 1)
    BY <1>1, <2>2 DEF Value, Delta
  <2>4. QED
    BY <2>1, <2>3
<1>4. \A n \in 0..Len(History) : Value(n) \in Int
  BY <1>2 DEF Value
<1>5. \A m, n \in 1..Len(History) : m < n => Time(m) < Time(n)
  BY <1>1, MigrateAssumption DEF Time
<1>6. Total = Value(Len(History))
  BY <1>1, MigrateAssumption DEF Total, Value
<1>7. QED
  BY <1>1, <1>3, <1>4, <1>5, <1>6

LEMMA SameMetric ==
  ASSUME NEW m \in 1..Len(History), NEW n \in 1..Len(History), Time(m) = Time(n)
  PROVE  m = n
BY HistoryIs

\* The changes between two metrics add up to the change from one to the other.
LEMMA Telescope ==
  ASSUME NEW f, NEW k \in 0..Len(History), NEW n \in k..Len(History),
         \A j \in (k + 1)..n : f[Time(j)] = Delta(j)
  PROVE  SumOver(f, {Time(j) : j \in (k + 1)..n}) = Value(n) - Value(k)
<1> DEFINE T(i) == {Time(j) : j \in (k + 1)..(k + i)}
           I == {i \in Nat : k + i =< n => /\ IsFiniteSet(T(i))
                                         /\ SumOver(f, T(i)) = Value(k + i) - Value(k)}
<1>0. Len(History) \in Nat /\ k \in Nat /\ n \in Nat /\ Value(k) \in Int
  BY HistoryIs
<1>1. 0 \in I
  <2>1. T(0) = {}
    BY <1>0
  <2>2. Value(k + 0) - Value(k) = 0
    BY <1>0
  <2> HIDE DEF T
  <2>3. QED
    BY <2>1, <2>2, SumEmpty, FS_EmptySet
<1>2. ASSUME NEW i \in Nat, i \in I
      PROVE  i + 1 \in I
  <2> DEFINE j == k + i + 1
  <2>1. SUFFICES ASSUME j =< n
                 PROVE  /\ IsFiniteSet(T(i + 1))
                        /\ SumOver(f, T(i + 1)) = Value(j) - Value(k)
    <3>1. k + (i + 1) = j
      BY <1>0
    <3>2. QED
      BY <3>1
  <2>2. j \in 1..Len(History) /\ j \in (k + 1)..n /\ j - 1 = k + i /\ k + i =< n
    BY <1>0, <2>1
  <2>3. IsFiniteSet(T(i)) /\ SumOver(f, T(i)) = Value(k + i) - Value(k)
    BY <1>2, <2>2
  <2>4. T(i + 1) = T(i) \cup {Time(j)}
    <3>1. (k + 1)..(k + (i + 1)) = ((k + 1)..(k + i)) \cup {j}
      BY <1>0
    <3>2. QED
      BY <3>1
  <2>5. Time(j) \notin T(i)
    BY <1>0, <2>2, SameMetric
  <2>6. \A y \in T(i) \cup {Time(j)} : f[y] \in Int
    <3>1. \A l \in (k + 1)..n : f[Time(l)] \in Int
      <4>1. ASSUME NEW l \in (k + 1)..n
            PROVE  f[Time(l)] \in Int
        <5>1. l \in 1..Len(History) /\ l \in 0..Len(History) /\ l - 1 \in 0..Len(History)
          BY <1>0
        <5>2. Delta(l) = Value(l) - Value(l - 1) /\ Value(l) \in Int /\ Value(l - 1) \in Int
          BY <5>1, HistoryIs
        <5>3. QED
          BY <5>2
      <4>2. QED
        BY <4>1
    <3>2. QED
      BY <1>0, <2>2, <3>1
  <2>7. f[Time(j)] = Value(j) - Value(k + i) /\ Value(j) \in Int /\ Value(k + i) \in Int
    BY <1>0, <2>2, HistoryIs
  <2> HIDE DEF T, j
  <2>8. SumOver(f, T(i) \cup {Time(j)}) = f[Time(j)] + SumOver(f, T(i))
    BY <2>3, <2>5, <2>6, SumAdds
  <2>9. IsFiniteSet(T(i) \cup {Time(j)})
    BY <2>3, FS_AddElement
  <2>10. SumOver(f, T(i + 1)) = Value(j) - Value(k)
    <3>1. SumOver(f, T(i + 1)) = f[Time(j)] + SumOver(f, T(i))
      BY <2>4, <2>8
    <3>2. QED
      BY <1>0, <2>3, <2>7, <3>1
  <2>11. QED
    BY <2>4, <2>9, <2>10
<1> HIDE DEF I
<1>3. Nat \subseteq I
  BY <1>1, <1>2, NatSetInduction
<1>4. n - k \in Nat /\ k + (n - k) = n
  BY <1>0
<1>5. n - k \in I
  BY <1>3, <1>4
<1>6. SumOver(f, T(n - k)) = Value(n) - Value(k)
  BY <1>0, <1>4, <1>5 DEF I
<1>7. T(n - k) = {Time(j) : j \in (k + 1)..n}
  BY <1>4
<1>8. QED
  BY <1>6, <1>7
-----------------------------------------------------------------------------
(***************************************************************************)
(* What a query sums, of any series.                                       *)
(***************************************************************************)
TimesOf(S, class) == {k[2] : k \in {x \in DOMAIN S : x[1] = class}}
ValuesOf(S, class) == [t \in TimesOf(S, class) |-> S[<<class, t>>]]
Between(S, class, from, to) == {t \in TimesOf(S, class) : from < t /\ t =< to}
SumOf(S, class, from, to) == SumOver(ValuesOf(S, class), Between(S, class, from, to))

LastOf(S, time) ==
  LET snaps == {t \in TimesOf(S, "snapshot") : t =< time}
  IN  IF snaps = {} THEN -1 ELSE Max(snaps)

BaseOf(S, from) == IF from = -1 THEN 0 ELSE S[<<"snapshot", from>>]
FoldedOf(S, from, to) == SumOf(S, "checkpoint", from, to) + SumOf(S, "correction", from, to)

AtOf(S, time) == BaseOf(S, LastOf(S, time)) + FoldedOf(S, LastOf(S, time), time)

LEMMA AtIs ==
  /\ \A time : At(time) = AtOf(series, time)
  /\ \A time : At(time)' = AtOf(series', time')
  /\ \A class : Times(class) = TimesOf(series, class)
  /\ \A class : Times(class)' = TimesOf(series', class)
  /\ \A time : LastSnapshot(time) = LastOf(series, time)
  /\ \A from : Base(from) = BaseOf(series, from)
  /\ \A from, to : Folded(from, to) = FoldedOf(series, from, to)
<1>1. \A class : Times(class) = TimesOf(series, class) /\ Times(class)' = TimesOf(series', class)
  BY DEF Times, TimesOf
<1>2. \A class, from, to : SumAfter(class, from, to) = SumOf(series, class, from, to)
  BY DEF SumAfter, Times, SumOf, Between, ValuesOf, TimesOf
<1>3. \A from, to : Folded(from, to) = FoldedOf(series, from, to)
  BY <1>2 DEF Folded, FoldedOf
<1>4. \A time : LastSnapshot(time) = LastOf(series, time)
  BY DEF LastSnapshot, LastOf, Times, TimesOf
<1>5. \A from : Base(from) = BaseOf(series, from)
  BY DEF Base, BaseOf
<1>6. \A time : At(time) = AtOf(series, time)
  BY <1>3, <1>4, <1>5 DEF At, AtOf
<1>7. \A time : At(time)' = AtOf(series', time')
  BY DEF At, Base, Folded, LastSnapshot, SumAfter, Times, AtOf, BaseOf, FoldedOf, LastOf,
         SumOf, Between, ValuesOf, TimesOf
<1>8. QED
  BY <1>1, <1>3, <1>4, <1>5, <1>6, <1>7

Series(S, c) ==
  /\ IsFiniteSet(DOMAIN S)
  /\ \A k \in DOMAIN S : k \in Classes \X Nat /\ k[2] =< c /\ S[k] \in Int

LEMMA InTimes ==
  ASSUME NEW c, NEW S, Series(S, c), NEW class
  PROVE  /\ \A t : t \in TimesOf(S, class) <=> <<class, t>> \in DOMAIN S
         /\ \A t \in TimesOf(S, class) : t \in Nat /\ t =< c /\ S[<<class, t>>] \in Int
<1>1. \A k \in DOMAIN S : k = <<k[1], k[2]>> /\ k[2] \in Nat /\ k[2] =< c
  BY DEF Series
<1>2. \A t \in TimesOf(S, class) : <<class, t>> \in DOMAIN S /\ t \in Nat /\ t =< c
  BY <1>1 DEF TimesOf
<1>3. \A t : <<class, t>> \in DOMAIN S => t \in TimesOf(S, class)
  BY DEF TimesOf
<1>4. QED
  BY <1>2, <1>3 DEF Series

\* The instant of the snapshot that a query starts from, or -1.
IsFrom(S, time, from) ==
  \/ from = -1 /\ \A t \in TimesOf(S, "snapshot") : ~(t =< time)
  \/ /\ from \in TimesOf(S, "snapshot") /\ from =< time
     /\ \A t \in TimesOf(S, "snapshot") : t =< time => t =< from

LEMMA FromExists ==
  ASSUME NEW c \in Nat, NEW S, Series(S, c), NEW time \in Nat
  PROVE  \E from \in Nat \cup {-1} : IsFrom(S, time, from)
<1> DEFINE snaps == {t \in TimesOf(S, "snapshot") : t =< time}
<1>0. \A t \in TimesOf(S, "snapshot") : t \in Nat
  BY InTimes
<1>1. snaps \subseteq 0..time
  BY <1>0
<1>2. CASE snaps = {}
  BY <1>2 DEF IsFrom
<1>3. CASE snaps # {}
  <2>1. Max(snaps) \in snaps /\ \A y \in snaps : Max(snaps) >= y
    BY <1>1, <1>3, MaxIs
  <2>2. Max(snaps) \in Nat /\ \A y \in snaps : y =< Max(snaps)
    BY <1>1, <2>1
  <2>3. QED
    BY <2>1, <2>2 DEF IsFrom
<1>4. QED
  BY <1>2, <1>3

LEMMA LastIs ==
  ASSUME NEW c \in Nat, NEW S, Series(S, c), NEW time \in Nat, NEW from, IsFrom(S, time, from)
  PROVE  LastOf(S, time) = from
<1> DEFINE snaps == {t \in TimesOf(S, "snapshot") : t =< time}
<1>1. \A t \in TimesOf(S, "snapshot") : t \in Nat
  BY InTimes
<1>2. CASE snaps = {}
  <2>1. from = -1
    BY <1>2 DEF IsFrom
  <2>2. QED
    BY <1>2, <2>1 DEF LastOf
<1>3. CASE snaps # {}
  <2>1. from \in snaps /\ \A y \in snaps : from >= y
    BY <1>1, <1>3 DEF IsFrom
  <2>2. \A x \in snaps : (\A y \in snaps : x >= y) => x = from
    BY <1>1, <2>1
  <2> HIDE DEF snaps
  <2>3. Max(snaps) = from
    BY <2>1, <2>2 DEF Max
  <2>4. QED
    BY <1>3, <2>3 DEF LastOf, snaps
<1>4. QED
  BY <1>2, <1>3

LEMMA AtFrom ==
  ASSUME NEW c \in Nat, NEW S, Series(S, c), NEW time \in Nat, NEW from, IsFrom(S, time, from)
  PROVE  AtOf(S, time) = BaseOf(S, from) + FoldedOf(S, from, time)
BY LastIs DEF AtOf

LEMMA Betweens ==
  ASSUME NEW c \in Nat, NEW S, Series(S, c), NEW class, NEW from, NEW to
  PROVE  /\ IsFiniteSet(Between(S, class, from, to))
         /\ \A t \in Between(S, class, from, to) :
              t \in Nat /\ ValuesOf(S, class)[t] = S[<<class, t>>]
                       /\ ValuesOf(S, class)[t] \in Int
         /\ SumOf(S, class, from, to) \in Int
<1>0. /\ \A t \in TimesOf(S, class) : t \in Nat /\ t =< c
      /\ \A t \in TimesOf(S, class) : S[<<class, t>>] \in Int
  <2>1. ASSUME NEW t \in TimesOf(S, class)
        PROVE  t \in Nat /\ t =< c
    BY InTimes
  <2>2. ASSUME NEW t \in TimesOf(S, class)
        PROVE  S[<<class, t>>] \in Int
    BY InTimes
  <2>3. QED
    BY <2>1, <2>2
<1>1. Between(S, class, from, to) \subseteq 0..c
  <2>1. \A t \in Between(S, class, from, to) : t \in Nat /\ t =< c
    BY <1>0 DEF Between
  <2>2. QED
    BY <2>1
<1>2. IsFiniteSet(0..c)
  BY FS_Interval
<1>3. IsFiniteSet(Between(S, class, from, to))
  BY <1>1, <1>2, FS_Subset
<1>4. \A t \in Between(S, class, from, to) :
        t \in Nat /\ ValuesOf(S, class)[t] = S[<<class, t>>] /\ ValuesOf(S, class)[t] \in Int
  BY <1>0 DEF Between, ValuesOf
<1>5. QED
  BY <1>3, <1>4, SumType DEF SumOf

LEMMA FoldedType ==
  ASSUME NEW c \in Nat, NEW S, Series(S, c), NEW from, NEW to
  PROVE  FoldedOf(S, from, to) \in Int
<1>1. SumOf(S, "checkpoint", from, to) \in Int
  BY Betweens
<1>2. SumOf(S, "correction", from, to) \in Int
  BY Betweens
<1>3. QED
  BY <1>1, <1>2 DEF FoldedOf

LEMMA BaseType ==
  ASSUME NEW c \in Nat, NEW S, Series(S, c), NEW time, NEW from, IsFrom(S, time, from)
  PROVE  BaseOf(S, from) \in Int
<1>1. from # -1 => <<"snapshot", from>> \in DOMAIN S
  BY InTimes DEF IsFrom
<1>2. QED
  BY <1>1 DEF BaseOf, Series

\* What was summed in two parts.
LEMMA SumParts ==
  ASSUME NEW c \in Nat, NEW S, Series(S, c), NEW class,
         NEW from \in Int, NEW mid \in Int, NEW to \in Int, from =< mid, mid =< to
  PROVE  SumOf(S, class, from, to) = SumOf(S, class, from, mid) + SumOf(S, class, mid, to)
<1> DEFINE A == Between(S, class, from, mid)
           B == Between(S, class, mid, to)
           f == ValuesOf(S, class)
<1>1. \A t \in TimesOf(S, class) : t \in Nat
  BY InTimes
<1>2. A \cap B = {} /\ Between(S, class, from, to) = A \cup B
  BY <1>1 DEF Between
<1>3. IsFiniteSet(A) /\ \A t \in A : f[t] \in Int
  BY Betweens
<1>4. IsFiniteSet(B) /\ \A t \in B : f[t] \in Int
  BY Betweens
<1>5. \A t \in A \cup B : f[t] \in Int
  BY <1>3, <1>4
<1>6. SumOf(S, class, from, to) = SumOver(f, A \cup B)
  BY <1>2 DEF SumOf
<1> HIDE DEF A, B, f
<1>7. SumOver(f, A \cup B) = SumOver(f, A) + SumOver(f, B)
  BY <1>2, <1>3, <1>4, <1>5, SumSplits
<1>8. QED
  BY <1>6, <1>7 DEF A, B, f, SumOf

LEMMA FoldedParts ==
  ASSUME NEW c \in Nat, NEW S, Series(S, c),
         NEW from \in Int, NEW mid \in Int, NEW to \in Int, from =< mid, mid =< to
  PROVE  FoldedOf(S, from, to) = FoldedOf(S, from, mid) + FoldedOf(S, mid, to)
<1>1. SumOf(S, "checkpoint", from, to)
        = SumOf(S, "checkpoint", from, mid) + SumOf(S, "checkpoint", mid, to)
  BY SumParts
<1>2. SumOf(S, "correction", from, to)
        = SumOf(S, "correction", from, mid) + SumOf(S, "correction", mid, to)
  BY SumParts
<1>3. /\ SumOf(S, "checkpoint", from, mid) \in Int /\ SumOf(S, "checkpoint", mid, to) \in Int
      /\ SumOf(S, "correction", from, mid) \in Int /\ SumOf(S, "correction", mid, to) \in Int
  <2>1. \A class : SumOf(S, class, from, mid) \in Int
    BY Betweens
  <2>2. \A class : SumOf(S, class, mid, to) \in Int
    BY Betweens
  <2>3. QED
    BY <2>1, <2>2
<1>4. QED
  BY <1>1, <1>2, <1>3 DEF FoldedOf

\* A query about a later instant gives the same where nothing is in between.
LEMMA AtLater ==
  ASSUME NEW c \in Nat, NEW S, Series(S, c), NEW u \in Nat, NEW v \in Nat, c =< u, c =< v
  PROVE  AtOf(S, u) = AtOf(S, v)
<1>1. ASSUME NEW class, NEW t \in TimesOf(S, class)
      PROVE  t =< u /\ t =< v
  <2>1. t \in Nat /\ t =< c
    BY InTimes
  <2>2. QED
    BY <2>1
<1>2. \A class, from : Between(S, class, from, u) = Between(S, class, from, v)
  BY <1>1 DEF Between
<1>3. PICK from \in Nat \cup {-1} : IsFrom(S, u, from)
  BY FromExists
<1>4. IsFrom(S, v, from)
  BY <1>1, <1>3 DEF IsFrom
<1>5. FoldedOf(S, from, u) = FoldedOf(S, from, v)
  BY <1>2 DEF FoldedOf, SumOf
<1>6. AtOf(S, u) = BaseOf(S, from) + FoldedOf(S, from, u)
  BY <1>3, AtFrom
<1>7. AtOf(S, v) = BaseOf(S, from) + FoldedOf(S, from, v)
  BY <1>4, AtFrom
<1>8. QED
  BY <1>5, <1>6, <1>7
-----------------------------------------------------------------------------
(***************************************************************************)
(* The invariant of the migration.  While no snapshot was taken between    *)
(* its begin and its correction, the series are those that version 2 had,  *)
(* metrics of version 1 in the one or the other class, corrections that no *)
(* query reads, and the snapshots that were taken after it.                *)
(***************************************************************************)
Counted == {"metrics", "mark", "isCorrected", "correct", "markCorrected"}

Tasks == [at : Stages, ingest : BOOLEAN, latest : Nat \cup {None},
          oldest : Nat \cup {None}, next : 1..(Len(History) + 1), correction : Int]

\* Snapshots are at the master at the latest.
Behind ==
  /\ master \in -1..instant /\ repaired \in 0..instant
  /\ \A t \in TimesOf(series, "snapshot") : t =< master
  /\ task.oldest # None => task.oldest =< master
  /\ first # None => first \in Nat /\ first =< master

MigrateTypes ==
  /\ instant \in Nat /\ Present =< instant
  /\ Series(series, instant)
  /\ marks \subseteq {"migrated", "corrected"}
  /\ task \in Tasks
  /\ task.at = "oldest" => TimesOf(series, "snapshot") # {}
  /\ spoiled \in BOOLEAN /\ dropped \in BOOLEAN
  /\ Behind

LatestOf(S) == IF TimesOf(S, "snapshot") = {} THEN None ELSE Max(TimesOf(S, "snapshot"))

\* The series of version 2 when the migration began.
Start(S) ==
  /\ Series(S, Present)
  /\ \A k \in DOMAIN S : /\ k[1] # "repair" /\ k[2] < Present
                          /\ \A n \in 1..Len(History) : k[2] # Time(n)
  /\ own = [value |-> AtOf(S, Present),
            oldest |-> IF TimesOf(S, "snapshot") = {} THEN None ELSE Min(TimesOf(S, "snapshot")),
            latest |-> LatestOf(S)]

OfHistory(k) ==
  \E n \in 1..Len(History) :
    /\ k[2] = Time(n)
    /\ \/ k[1] = "checkpoint" /\ series[k] = Delta(n)
       \/ /\ k[1] = "snapshot" /\ series[k] = Value(n)
          /\ own.oldest # None /\ Time(n) < own.oldest

\* What came after the migration began and is not of the history.
Later(k) ==
  \/ k[1] = "snapshot" /\ first # None /\ first =< k[2]
  \/ k[1] = "repair" /\ Present =< k[2] /\ series[k] = Missed

Content(S) ==
  /\ \A k \in DOMAIN S : k \in DOMAIN series /\ series[k] = S[k]
  /\ \A k \in DOMAIN series : k \in DOMAIN S \/ OfHistory(k) \/ Later(k)
  /\ "corrected" \notin marks => first = None

Has(n) == <<"checkpoint", Time(n)>> \in DOMAIN series \/ <<"snapshot", Time(n)>> \in DOMAIN series

Progress ==
  /\ "migrated" \in marks => \A n \in 1..Len(History) : Has(n)
  /\ "corrected" \in marks => "migrated" \in marks
  /\ task.at \in {"latest", "oldest", "metrics", "mark"} =>
       /\ task.ingest = ("migrated" \notin marks)
       /\ task.ingest => \A n \in 1..Len(History) : n < task.next => Has(n)
  /\ task.at \in {"isCorrected", "correct", "markCorrected"} => "migrated" \in marks
  /\ task.at \in {"correct", "markCorrected"} => "corrected" \notin marks
  /\ task.at \in {"latest", "oldest"} => task.next = 1
  /\ task.at \in Counted \ {"metrics"} => task.next = Len(History) + 1

Aims(S) ==
  "corrected" \notin marks =>
    /\ task.at \in Counted \cup {"oldest"} => task.latest = LatestOf(S)
    /\ task.at = "latest" => task.latest = None
    /\ task.oldest # None => own.oldest # None /\ task.oldest =< own.oldest

\* The correction is what version 1 had at the last metric that predates the
\* latest snapshot.
CorrectionIs ==
  \E k \in 0..(task.next - 1) :
    /\ task.correction = Value(k)
    /\ \A m \in 1..(task.next - 1) : m =< k <=> Predates(Time(m))

Settled == ("migrated" \in marks /\ ~dropped) => At(instant) = own.value + Total - Missed

Body(S) ==
  Start(S) /\ Content(S) /\ Progress /\ Aims(S) /\ CorrectionIs /\ Settled
-----------------------------------------------------------------------------
LEMMA NoTaskIs ==
  /\ NoTask \in Tasks
  /\ NoTask.at = "idle" /\ NoTask.latest = None /\ NoTask.oldest = None
  /\ NoTask.next = 1 /\ NoTask.correction = 0
<1>1. 1 \in 1..(Len(History) + 1)
  BY HistoryIs
<1>2. QED
  BY <1>1 DEF NoTask, Tasks, Stages

\* The snapshots of version 2 when the migration began.
LEMMA StartIs ==
  ASSUME NEW S, Start(S), MigrateAssumption
  PROVE  /\ TimesOf(S, "snapshot") = {} => own.oldest = None /\ LatestOf(S) = None
         /\ TimesOf(S, "snapshot") # {} =>
              /\ own.oldest \in TimesOf(S, "snapshot") /\ LatestOf(S) \in TimesOf(S, "snapshot")
              /\ own.oldest \in Nat /\ LatestOf(S) \in Nat
              /\ LatestOf(S) < Present
              /\ own.oldest # None /\ LatestOf(S) # None
              /\ own.oldest =< LatestOf(S)
              /\ \A t \in TimesOf(S, "snapshot") : own.oldest =< t /\ t =< LatestOf(S)
         /\ \A t \in TimesOf(S, "snapshot") :
              t \in Nat /\ t < Present /\ <<"snapshot", t>> \in DOMAIN S
         /\ LatestOf(S) \in Nat \cup {None} /\ own.latest = LatestOf(S)
<1> DEFINE T == TimesOf(S, "snapshot")
<1>1. \A t \in T : t \in Nat /\ t =< Present /\ <<"snapshot", t>> \in DOMAIN S
  BY InTimes DEF Start
<1>2. \A t \in T : t < Present
  BY <1>1 DEF Start
<1>3. T = {} => own.oldest = None /\ LatestOf(S) = None
  BY DEF Start, LatestOf
<1>4. ASSUME T # {}
      PROVE  /\ own.oldest \in T /\ LatestOf(S) \in T
             /\ \A t \in T : own.oldest =< t /\ t =< LatestOf(S)
  <2>0. Present \in Nat
    BY MigrateAssumption
  <2>1. T \subseteq Nat /\ T \subseteq 0..Present
    <3>1. ASSUME NEW t \in T
          PROVE  t \in Nat /\ t \in 0..Present
      <4>1. t \in Nat /\ t =< Present
        BY <1>1
      <4> HIDE DEF T
      <4>2. QED
        BY <2>0, <4>1
    <3>2. QED
      BY <3>1
  <2>2. own.oldest = Min(T) /\ LatestOf(S) = Max(T)
    BY <1>4 DEF Start, LatestOf
  <2> HIDE DEF T
  <2>3. Min(T) \in T /\ \A y \in T : Min(T) =< y
    BY <1>4, <2>1, MinIs
  <2>4. Max(T) \in T /\ \A y \in T : Max(T) >= y
    BY <1>4, <2>1, MaxIs
  <2>5. \A y \in T : y =< Max(T)
    BY <2>1, <2>4
  <2>6. QED
    BY <2>2, <2>3, <2>4, <2>5
<1> HIDE DEF T
<1>5. None \notin Nat
  BY MigrateAssumption
<1>6. T # {} => /\ own.oldest \in Nat /\ LatestOf(S) \in Nat /\ LatestOf(S) < Present
                /\ own.oldest # None /\ LatestOf(S) # None /\ own.oldest =< LatestOf(S)
  BY <1>1, <1>2, <1>4, <1>5
<1>7. own.latest = LatestOf(S)
  BY DEF Start
<1>8. QED
  BY <1>1, <1>2, <1>3, <1>4, <1>6, <1>7 DEF T

\* Until the correction is marked the snapshots that are ingested are older.
LEMMA SnapshotsSame ==
  ASSUME MigrateTypes, NEW S, Start(S), Content(S), "corrected" \notin marks
  PROVE  /\ TimesOf(series, "snapshot") = {} <=> TimesOf(S, "snapshot") = {}
         /\ \A t \in TimesOf(series, "snapshot") :
              t \in TimesOf(S, "snapshot")
                \/ (own.oldest # None /\ t < own.oldest
                     /\ \E n \in 1..Len(History) : t = Time(n) /\ series[<<"snapshot", t>>] = Value(n))
         /\ TimesOf(S, "snapshot") \subseteq TimesOf(series, "snapshot")
<1>1. \A t : /\ t \in TimesOf(series, "snapshot") <=> <<"snapshot", t>> \in DOMAIN series
             /\ t \in TimesOf(S, "snapshot") <=> <<"snapshot", t>> \in DOMAIN S
  BY InTimes DEF MigrateTypes, Start
<1>2. ASSUME NEW t \in TimesOf(series, "snapshot"), t \notin TimesOf(S, "snapshot")
      PROVE  /\ own.oldest # None /\ t < own.oldest
             /\ \E n \in 1..Len(History) : t = Time(n) /\ series[<<"snapshot", t>>] = Value(n)
  <2> DEFINE k == <<"snapshot", t>>
  <2>1. k \in DOMAIN series /\ k \notin DOMAIN S /\ k[1] = "snapshot" /\ k[2] = t
    BY <1>1, <1>2
  <2>2. ~Later(k)
    BY <2>1 DEF Content, Later
  <2>3. OfHistory(k)
    BY <2>1, <2>2 DEF Content
  <2>4. QED
    BY <2>1, <2>3 DEF OfHistory
<1>3. TimesOf(S, "snapshot") \subseteq TimesOf(series, "snapshot")
  BY <1>1 DEF Content
<1>4. QED
  BY <1>2, <1>3, StartIs, MigrateAssumption
-----------------------------------------------------------------------------
LEMMA SeriesLater ==
  ASSUME NEW c \in Nat, NEW d \in Nat, c =< d, NEW S, Series(S, c)
  PROVE  Series(S, d)
<1>1. ASSUME NEW k \in DOMAIN S
      PROVE  k \in Classes \X Nat /\ k[2] =< d /\ S[k] \in Int
  <2>1. k \in Classes \X Nat /\ k[2] =< c /\ S[k] \in Int
    BY DEF Series
  <2>2. k[2] \in Nat
    BY <2>1
  <2>3. k[2] =< d
    BY <2>1, <2>2
  <2>4. QED
    BY <2>1, <2>3
<1>2. QED
  BY <1>1 DEF Series

LEMMA Writes ==
  ASSUME NEW c \in Nat, Series(series, c),
         NEW class \in Classes, NEW t \in Nat, t =< c, NEW v \in Int
  PROVE  /\ DOMAIN Ingested(class, t, v) = DOMAIN series \cup {<<class, t>>}
         /\ Ingested(class, t, v)[<<class, t>>] = v
         /\ \A k \in DOMAIN series :
              k # <<class, t>> => Ingested(class, t, v)[k] = series[k]
         /\ Series(Ingested(class, t, v), c)
<1> DEFINE R == Ingested(class, t, v)
           new == <<class, t>>
<1>1. /\ DOMAIN R = DOMAIN series \cup {new}
      /\ R[new] = v
      /\ \A k \in DOMAIN series : k # new => R[k] = series[k]
  BY DEF Ingested
<1>2. new \in Classes \X Nat /\ new[2] = t
  OBVIOUS
<1> HIDE DEF R, new
<1>3. IsFiniteSet(DOMAIN R)
  BY <1>1, FS_AddElement DEF Series
<1>4. \A k \in DOMAIN R : k \in Classes \X Nat /\ k[2] =< c /\ R[k] \in Int
  <2>1. \A k \in DOMAIN series : k \in Classes \X Nat /\ k[2] =< c /\ series[k] \in Int
    BY DEF Series
  <2>2. \A k \in DOMAIN R : k = new \/ (k \in DOMAIN series /\ k # new)
    BY <1>1
  <2>3. QED
    BY <1>1, <1>2, <2>1, <2>2
<1>5. Series(R, c)
  BY <1>3, <1>4 DEF Series
<1>6. QED
  BY <1>1, <1>5 DEF R, new

LEMMA TimesAre ==
  ASSUME MigrateTypes, NEW class
  PROVE  /\ Times(class) \subseteq 0..instant
         /\ Times(class) # {} =>
              /\ Max(Times(class)) \in Times(class) /\ Min(Times(class)) \in Times(class)
              /\ Max(Times(class)) \in Nat /\ Min(Times(class)) \in Nat
              /\ \A t \in Times(class) : Min(Times(class)) =< t /\ t =< Max(Times(class))
<1> DEFINE T == Times(class)
<1>0. T = TimesOf(series, class)
  BY AtIs
<1> HIDE DEF T
<1>1. ASSUME NEW t \in T
      PROVE  t \in Nat /\ t =< instant
  <2>1. t \in TimesOf(series, class)
    BY <1>0
  <2>2. QED
    BY <2>1, InTimes DEF MigrateTypes
<1>2. instant \in Nat
  BY DEF MigrateTypes
<1>3. \A t \in T : t \in 0..instant
  BY <1>1, <1>2
<1>4. T \subseteq 0..instant /\ T \subseteq Nat
  BY <1>1, <1>3
<1>5. ASSUME T # {}
      PROVE  /\ Max(T) \in T /\ Min(T) \in T
             /\ \A t \in T : Min(T) =< t /\ Max(T) >= t
  <2>1. Max(T) \in T /\ \A y \in T : Max(T) >= y
    BY <1>2, <1>4, <1>5, MaxIs
  <2>2. Min(T) \in T /\ \A y \in T : Min(T) =< y
    BY <1>4, <1>5, MinIs
  <2>3. QED
    BY <2>1, <2>2
<1>6. T # {} => /\ Max(T) \in Nat /\ Min(T) \in Nat
                /\ \A t \in T : Min(T) =< t /\ t =< Max(T)
  BY <1>4, <1>5
<1>7. QED
  BY <1>4, <1>5, <1>6 DEF T

LEMMA MetricIs ==
  ASSUME MigrateTypes, NEW n \in 1..Len(History)
  PROVE  /\ Delta(n) \in Int /\ Corrected(n) \in Int
         /\ Time(n) \in Nat /\ Time(n) < instant /\ Time(n) < Present
<1>1. Delta(n) \in Int
  <2>1. n \in 0..Len(History) /\ n - 1 \in 0..Len(History)
    BY HistoryIs
  <2>2. Value(n) \in Int /\ Value(n - 1) \in Int
    BY <2>1, HistoryIs
  <2>3. QED
    BY <2>2, HistoryIs
<1>2. task.correction \in Int
  BY DEF MigrateTypes, Tasks
<1>3. Corrected(n) \in Int
  BY <1>1, <1>2 DEF Corrected
<1>4. Time(n) \in Nat /\ Time(n) < Present
  BY HistoryIs
<1>5. instant \in Nat /\ Present =< instant /\ Present \in Nat
  BY MigrateAssumption DEF MigrateTypes
<1>6. QED
  BY <1>1, <1>3, <1>4, <1>5

LEMMA MigratedIs ==
  ASSUME MigrateTypes, NEW n \in 1..Len(History)
  PROVE  \E class \in {"checkpoint", "snapshot"}, v \in Int :
           /\ Migrated(n) = Ingested(class, Time(n), v)
           /\ class = "snapshot" => IsOld(n) /\ v = Corrected(n)
           /\ class = "checkpoint" => v = Delta(n)
BY MetricIs DEF Migrated, Time, Old

LEMMA AtType ==
  ASSUME MigrateTypes, NEW time \in Nat
  PROVE  At(time) \in Int
<1>0. instant \in Nat /\ Series(series, instant)
  BY DEF MigrateTypes
<1>1. PICK from \in Nat \cup {-1} : IsFrom(series, time, from)
  BY <1>0, FromExists
<1>2. FoldedOf(series, from, time) \in Int
  BY <1>0, FoldedType
<1>3. BaseOf(series, from) \in Int
  BY <1>0, <1>1, BaseType
<1>4. AtOf(series, time) = BaseOf(series, from) + FoldedOf(series, from, time)
  BY <1>0, <1>1, AtFrom
<1>5. QED
  BY <1>2, <1>3, <1>4, AtIs
-----------------------------------------------------------------------------
LEMMA ToIs ==
  ASSUME task \in Tasks, NEW stage \in Stages, To(stage)
  PROVE  /\ task' \in Tasks /\ task'.at = stage
         /\ task'.ingest = task.ingest /\ task'.latest = task.latest
         /\ task'.oldest = task.oldest /\ task'.next = task.next
         /\ task'.correction = task.correction
BY DEF To, Tasks

LEMMA IsMigratedIs ==
  ASSUME IsMigrated
  PROVE  /\ task' \in Tasks /\ task'.at = "latest"
         /\ task'.ingest = ("migrated" \notin marks)
         /\ task'.latest = None /\ task'.oldest = None
         /\ task'.next = 1 /\ task'.correction = 0
<1>1. ("migrated" \notin marks) \in BOOLEAN
  OBVIOUS
<1>2. task' = [NoTask EXCEPT !.at = "latest", !.ingest = "migrated" \notin marks]
  BY DEF IsMigrated
<1>3. "latest" \in Stages
  BY DEF Stages
<1>4. QED
  BY <1>1, <1>2, <1>3, NoTaskIs DEF Tasks

LEMMA FindLatestIs ==
  ASSUME MigrateTypes, FindLatestSnapshot
  PROVE  /\ task' \in Tasks
         /\ task'.ingest = task.ingest /\ task'.oldest = task.oldest
         /\ task'.next = task.next /\ task'.correction = task.correction
         /\ Times("snapshot") = {} => task'.at = "metrics" /\ task'.latest = task.latest
         /\ Times("snapshot") # {} =>
              task'.at = "oldest" /\ task'.latest = Max(Times("snapshot"))
<1>0. task \in Tasks /\ "metrics" \in Stages /\ "oldest" \in Stages
  BY DEF MigrateTypes, Stages
<1>1. CASE Times("snapshot") = {}
  <2>1. task' = [task EXCEPT !.at = "metrics"]
    BY <1>1 DEF FindLatestSnapshot
  <2>2. QED
    BY <1>0, <1>1, <2>1 DEF Tasks
<1>2. CASE Times("snapshot") # {}
  <2>1. task' = [task EXCEPT !.at = "oldest", !.latest = Max(Times("snapshot"))]
    BY <1>2 DEF FindLatestSnapshot
  <2>2. Max(Times("snapshot")) \in Nat
    BY <1>2, TimesAre
  <2>3. QED
    BY <1>0, <1>2, <2>1, <2>2 DEF Tasks
<1>3. QED
  BY <1>1, <1>2

LEMMA FindOldestIs ==
  ASSUME MigrateTypes, FindOldestSnapshot
  PROVE  /\ task' \in Tasks /\ task'.at = "metrics"
         /\ task'.ingest = task.ingest /\ task'.latest = task.latest
         /\ task'.next = task.next /\ task'.correction = task.correction
         /\ task'.oldest = Min(Times("snapshot"))
<1>0. task \in Tasks /\ "metrics" \in Stages
  BY DEF MigrateTypes, Stages
<1>1. Times("snapshot") # {}
  BY AtIs DEF MigrateTypes, FindOldestSnapshot
<1>2. Min(Times("snapshot")) \in Nat
  BY <1>1, TimesAre
<1>3. task' = [task EXCEPT !.at = "metrics", !.oldest = Min(Times("snapshot"))]
  BY DEF FindOldestSnapshot
<1>4. QED
  BY <1>0, <1>2, <1>3 DEF Tasks

LEMMA MetricNext ==
  ASSUME MigrateTypes, MigrateMetric, ~(task.next > Len(History))
  PROVE  /\ task.next \in 1..Len(History)
         /\ task' \in Tasks /\ task'.at = "metrics"
         /\ task'.ingest = task.ingest /\ task'.latest = task.latest
         /\ task'.oldest = task.oldest /\ task'.next = task.next + 1
         /\ task'.correction = Corrected(task.next)
<1>0. task \in Tasks /\ task.at = "metrics"
  BY DEF MigrateTypes, MigrateMetric
<1>1. task.next \in 1..Len(History) /\ task.next + 1 \in 1..(Len(History) + 1)
  BY <1>0, HistoryIs DEF Tasks
<1>2. Corrected(task.next) \in Int
  BY <1>1, MetricIs
<1>3. task' = [task EXCEPT !.next = @ + 1, !.correction = Corrected(task.next)]
  BY DEF MigrateMetric
<1> DEFINE n == task.next
           v == Corrected(n)
<1>4. n \in 1..Len(History) /\ n + 1 \in 1..(Len(History) + 1) /\ v \in Int
  BY <1>1, <1>2
<1>5. task' = [task EXCEPT !.next = n + 1, !.correction = v]
  BY <1>3
<1> HIDE DEF n, v
<1>6. task' \in Tasks /\ task'.at = task.at
      /\ task'.ingest = task.ingest /\ task'.latest = task.latest
      /\ task'.oldest = task.oldest /\ task'.next = n + 1 /\ task'.correction = v
  BY <1>0, <1>4, <1>5 DEF Tasks
<1>7. QED
  BY <1>0, <1>1, <1>6 DEF n, v

\* One record of the resource is ingested.
Wrote(class, t, v) ==
  /\ DOMAIN series' = DOMAIN series \cup {<<class, t>>}
  /\ series'[<<class, t>>] = v
  /\ \A k \in DOMAIN series : k # <<class, t>> => series'[k] = series[k]
  /\ Series(series', instant)

LEMMA WritesMetric ==
  ASSUME MigrateTypes, NEW n \in 1..Len(History), series' = Migrated(n)
  PROVE  \E class \in {"checkpoint", "snapshot"}, v \in Int :
           /\ Wrote(class, Time(n), v)
           /\ class = "snapshot" => IsOld(n) /\ v = Corrected(n)
           /\ class = "checkpoint" => v = Delta(n)
<1>1. PICK class \in {"checkpoint", "snapshot"}, v \in Int :
           /\ Migrated(n) = Ingested(class, Time(n), v)
           /\ class = "snapshot" => IsOld(n) /\ v = Corrected(n)
           /\ class = "checkpoint" => v = Delta(n)
  BY MigratedIs
<1>2. Time(n) \in Nat /\ Time(n) =< instant /\ instant \in Nat /\ Series(series, instant)
  BY MetricIs DEF MigrateTypes
<1>3. class \in Classes
  BY DEF Classes
<1>4. Wrote(class, Time(n), v)
  <2> DEFINE t == Time(n)
             R == Ingested(class, t, v)
  <2>1. t \in Nat /\ t =< instant
    BY <1>2
  <2> HIDE DEF t
  <2>2. /\ DOMAIN R = DOMAIN series \cup {<<class, t>>}
        /\ R[<<class, t>>] = v
        /\ \A k \in DOMAIN series : k # <<class, t>> => R[k] = series[k]
        /\ Series(R, instant)
    BY <1>2, <1>3, <2>1, Writes
  <2>3. series' = R
    BY <1>1 DEF t
  <2> HIDE DEF R
  <2>4. Wrote(class, t, v)
    BY <2>2, <2>3 DEF Wrote
  <2>5. QED
    BY <2>4 DEF t
<1>5. QED
  BY <1>1, <1>4

LEMMA WritesCorrection ==
  ASSUME MigrateTypes, series' = Ingested("repair", instant, task.correction)
  PROVE  Wrote("repair", instant, task.correction)
<1>1. instant \in Nat /\ instant =< instant /\ Series(series, instant) /\ task.correction \in Int
  BY DEF MigrateTypes, Tasks
<1>2. "repair" \in Classes
  BY DEF Classes
<1>3. QED
  BY <1>1, <1>2, Writes DEF Wrote

\* What a snapshot of the resource holds.
Folds(end) == Base(LastSnapshot(end)) + Folded(master, end)

LEMMA WritesSnapshot ==
  ASSUME MigrateTypes, NEW end \in (master + 1)..instant,
         series' = Ingested("snapshot", end, Folds(end))
  PROVE  Wrote("snapshot", end, Folds(end)) /\ Folds(end) \in Int /\ end \in Nat /\ master < end
<1>1. /\ instant \in Nat /\ Series(series, instant) /\ master \in -1..instant
  BY DEF MigrateTypes, Behind
<1>2. end \in Nat /\ end =< instant /\ master < end
  BY <1>1
<1>3. PICK from \in Nat \cup {-1} : IsFrom(series, end, from)
  BY <1>1, <1>2, FromExists
<1>4. BaseOf(series, from) \in Int
  BY <1>1, <1>3, BaseType
<1>5. LastOf(series, end) = from
  BY <1>1, <1>2, <1>3, LastIs
<1>6. FoldedOf(series, master, end) \in Int
  BY <1>1, FoldedType
<1>7. Folds(end) = BaseOf(series, from) + FoldedOf(series, master, end)
  BY <1>5, AtIs DEF Folds
<1>8. Folds(end) \in Int
  BY <1>4, <1>6, <1>7
<1>9. "snapshot" \in Classes
  BY DEF Classes
<1> DEFINE v == Folds(end)
<1>10. series' = Ingested("snapshot", end, v) /\ v \in Int
  BY <1>8
<1> HIDE DEF v
<1>11. Wrote("snapshot", end, v)
  BY <1>1, <1>2, <1>9, <1>10, Writes DEF Wrote
<1>12. QED
  BY <1>2, <1>8, <1>11 DEF v

\* A snapshot is taken, or the master moves only.
LEMMA Snapshots ==
  ASSUME MigrateTypes, TakeSnapshot
  PROVE  /\ UNCHANGED <<repaired, marks, task, mistakes, own>> /\ instant' = instant + 1
         /\ \E end \in (master + 1)..instant :
              /\ master' = end /\ end \in Nat /\ master < end
              /\ \/ Since(master, end) = {} /\ UNCHANGED <<series, spoiled, dropped, first>>
                 \/ /\ Wrote("snapshot", end, Folds(end))
                    /\ spoiled' = (spoiled \/ "corrected" \notin marks)
                    /\ dropped' = (dropped \/ Since(LastSnapshot(end), master) # {})
                    /\ first' = IF first = None THEN end ELSE first
<1>1. PICK end \in (master + 1)..instant :
        /\ instant' = instant + 1
        /\ master' = end
        /\ IF Since(master, end) = {}
           THEN UNCHANGED <<series, spoiled, dropped, first>>
           ELSE /\ series' = Ingested("snapshot", end,
                                     Base(LastSnapshot(end)) + Folded(master, end))
                /\ spoiled' = (spoiled \/ "corrected" \notin marks)
                /\ dropped' = (dropped \/ Since(LastSnapshot(end), master) # {})
                /\ first' = IF first = None THEN end ELSE first
        /\ UNCHANGED <<repaired, marks, task, mistakes, own>>
  BY DEF TakeSnapshot
<1>2. end \in Nat /\ master < end
  BY DEF MigrateTypes, Behind
<1>3. CASE Since(master, end) = {}
  BY <1>1, <1>2, <1>3
<1>4. CASE Since(master, end) # {}
  <2>1. series' = Ingested("snapshot", end, Folds(end))
    BY <1>1, <1>4 DEF Folds
  <2>2. Wrote("snapshot", end, Folds(end))
    BY <2>1, WritesSnapshot
  <2>3. QED
    BY <1>1, <1>2, <1>4, <2>2
<1>5. QED
  BY <1>3, <1>4

LEMMA Clock ==
  ASSUME MigrateTypes, instant' = instant \/ instant' = instant + 1,
         series' = series \/ \E class, t, v : Wrote(class, t, v)
  PROVE  /\ instant' \in Nat /\ Present =< instant'
         /\ Series(series', instant') /\ Series(series', instant)
<1>1. instant \in Nat /\ Present =< instant /\ Present \in Nat
  BY MigrateAssumption DEF MigrateTypes
<1>2. instant' \in Nat /\ Present =< instant' /\ instant =< instant'
  BY <1>1
<1>3. Series(series', instant)
  BY DEF Wrote, MigrateTypes
<1>4. QED
  BY <1>1, <1>2, <1>3, SeriesLater

\* What a step does with the series.
LEMMA StepWrites ==
  ASSUME MigrateTypes, MigrateNext
  PROVE  /\ series' = series \/ \E class, t, v : Wrote(class, t, v)
         /\ instant' = instant \/ instant' = instant + 1
         /\ own' = own
<1> USE DEF world, tasks, past
<1>1. CASE IsMigrated \/ FindLatestSnapshot \/ FindOldestSnapshot \/ MarkMigrated
             \/ IsCorrected \/ MarkCorrected \/ RequestFails \/ RepairRecords
  BY <1>1 DEF IsMigrated, FindLatestSnapshot, FindOldestSnapshot, MarkMigrated, IsCorrected,
              MarkCorrected, RequestFails, RepairRecords, Mistake
<1>2. CASE MigrateMetric
  <2>1. CASE task.next > Len(History)
    BY <1>2, <2>1 DEF MigrateMetric
  <2>2. CASE ~(task.next > Len(History)) /\ task.ingest
    <3>1. task.next \in 1..Len(History) /\ series' = Migrated(task.next)
      BY <1>2, <2>2, MetricNext DEF MigrateMetric
    <3>2. \E class, t, v : Wrote(class, t, v)
      BY <3>1, WritesMetric
    <3>3. QED
      BY <1>2, <3>2 DEF MigrateMetric
  <2>3. CASE ~(task.next > Len(History)) /\ ~task.ingest
    BY <1>2, <2>3 DEF MigrateMetric
  <2>4. QED
    BY <2>1, <2>2, <2>3
<1>3. CASE IngestCorrection
  <2>1. Wrote("repair", instant, task.correction)
    BY <1>3, WritesCorrection DEF IngestCorrection
  <2>2. QED
    BY <1>3, <2>1 DEF IngestCorrection
<1>4. CASE AnswerLost
  <2>1. instant' = instant + 1 /\ own' = own
    BY <1>4 DEF AnswerLost, Mistake
  <2>2. CASE series' = series
    BY <2>1, <2>2
  <2>3. CASE series' = Ingested("repair", instant, task.correction)
    BY <2>1, <2>3, WritesCorrection
  <2>4. CASE /\ task.at = "metrics" /\ task.next =< Len(History)
             /\ series' = Migrated(task.next)
    <3>1. task.next \in 1..Len(History)
      BY <2>4, HistoryIs DEF MigrateTypes, Tasks
    <3>2. \E class, t, v : Wrote(class, t, v)
      BY <2>4, <3>1, WritesMetric
    <3>3. QED
      BY <2>1, <3>2
  <2>5. QED
    BY <1>4, <2>2, <2>3, <2>4 DEF AnswerLost
<1>5. CASE TakeSnapshot
  BY <1>5, Snapshots
<1>6. QED
  BY <1>1, <1>2, <1>3, <1>4, <1>5 DEF MigrateNext, Migrating

LEMMA StepTasks ==
  ASSUME MigrateTypes, MigrateNext
  PROVE  task' \in Tasks
<1>0. /\ task \in Tasks /\ NoTask \in Tasks
      /\ {"mark", "isCorrected", "correct", "markCorrected"} \subseteq Stages
  BY NoTaskIs DEF MigrateTypes, Stages
<1>1. CASE IsMigrated
  BY <1>1, IsMigratedIs
<1>2. CASE FindLatestSnapshot
  BY <1>2, FindLatestIs
<1>3. CASE FindOldestSnapshot
  BY <1>3, FindOldestIs
<1>4. CASE MigrateMetric
  <2>1. CASE task.next > Len(History)
    BY <1>0, <1>4, <2>1, ToIs DEF MigrateMetric
  <2>2. CASE ~(task.next > Len(History))
    BY <1>4, <2>2, MetricNext
  <2>3. QED
    BY <2>1, <2>2
<1>5. CASE MarkMigrated \/ IsCorrected \/ IngestCorrection
  BY <1>0, <1>5, ToIs DEF MarkMigrated, IsCorrected, IngestCorrection
<1>6. CASE MarkCorrected \/ RequestFails \/ AnswerLost
  BY <1>0, <1>6 DEF MarkCorrected, RequestFails, AnswerLost, Mistake
<1>7. CASE TakeSnapshot \/ RepairRecords
  BY <1>0, <1>7, Snapshots DEF RepairRecords
<1>8. QED
  BY <1>1, <1>2, <1>3, <1>4, <1>5, <1>6, <1>7 DEF MigrateNext, Migrating

\* What a step does with the clock, the masters and the snapshots.
LEMMA StepBehind ==
  ASSUME MigrateTypes, MigrateNext
  PROVE  Behind'
<1> USE DEF world, tasks, past
<1>0. /\ instant \in Nat /\ master \in -1..instant /\ repaired \in 0..instant
      /\ \A t \in TimesOf(series, "snapshot") : t =< master
      /\ task.oldest # None => task.oldest =< master
      /\ first # None => first \in Nat /\ first =< master
      /\ task \in Tasks
  BY DEF MigrateTypes, Behind
<1>1. instant' \in Nat /\ instant =< instant'
  <2>1. instant' = instant \/ instant' = instant + 1
    BY StepWrites
  <2>2. QED
    BY <1>0, <2>1
<1>2. ASSUME NEW n \in 1..Len(History), series' = Migrated(n)
      PROVE  \A t \in TimesOf(series', "snapshot") : t =< master
  <2>1. PICK class \in {"checkpoint", "snapshot"}, v \in Int :
          Wrote(class, Time(n), v) /\ (class = "snapshot" => IsOld(n))
    BY <1>2, WritesMetric
  <2>2. class = "snapshot" => Time(n) =< master
    <3>1. ASSUME IsOld(n)
          PROVE  Time(n) =< master
      <4>1. task.oldest # None /\ Time(n) < task.oldest
        BY <3>1 DEF IsOld, Time
      <4>2. task.oldest \in Nat /\ task.oldest =< master /\ Time(n) \in Nat
        BY <1>0, <4>1, HistoryIs DEF Tasks
      <4>3. QED
        BY <1>0, <4>1, <4>2
    <3>2. QED
      BY <2>1, <3>1
  <2>3. \A t \in TimesOf(series', "snapshot") :
          t \in TimesOf(series, "snapshot") \/ (class = "snapshot" /\ t = Time(n))
    BY <2>1 DEF Wrote, TimesOf
  <2>4. QED
    BY <1>0, <2>2, <2>3
<1>3. ASSUME NEW t, NEW v, Wrote("repair", t, v)
      PROVE  TimesOf(series', "snapshot") = TimesOf(series, "snapshot")
  BY <1>3 DEF Wrote, TimesOf
<1>4. CASE TakeSnapshot
  <2>1. PICK end \in (master + 1)..instant :
          /\ master' = end /\ end \in Nat /\ master < end
          /\ \/ series' = series /\ first' = first
             \/ /\ Wrote("snapshot", end, Folds(end))
                /\ first' = IF first = None THEN end ELSE first
    BY <1>4, Snapshots
  <2>2. repaired' = repaired /\ task' = task /\ instant' = instant + 1
    BY <1>4, Snapshots
  <2>3. \A t \in TimesOf(series', "snapshot") : t \in TimesOf(series, "snapshot") \/ t = end
    BY <2>1 DEF Wrote, TimesOf
  <2>4. \A t \in TimesOf(series, "snapshot") : t \in Nat
    BY InTimes DEF MigrateTypes
  <2>5. \A t \in TimesOf(series', "snapshot") : t =< end
    BY <1>0, <2>1, <2>3, <2>4
  <2>6. task.oldest # None => task.oldest =< end
    <3>1. task.oldest # None => task.oldest \in Nat
      BY <1>0 DEF Tasks
    <3>2. QED
      BY <1>0, <2>1, <3>1
  <2>7. first' # None => first' \in Nat /\ first' =< end
    BY <1>0, <2>1
  <2>8. end \in -1..instant' /\ repaired \in 0..instant'
    BY <1>0, <2>1, <2>2
  <2>9. QED
    BY <2>1, <2>2, <2>5, <2>6, <2>7, <2>8 DEF Behind
<1>5. CASE RepairRecords
  BY <1>0, <1>5 DEF RepairRecords, Behind
<1>6. ASSUME ~TakeSnapshot, ~RepairRecords
      PROVE  master' = master /\ repaired' = repaired /\ first' = first
  BY <1>6 DEF MigrateNext, Migrating, IsMigrated, FindLatestSnapshot, FindOldestSnapshot,
     MigrateMetric, MarkMigrated, IsCorrected, IngestCorrection, MarkCorrected, RequestFails,
     AnswerLost
<1>7. ASSUME ~TakeSnapshot, ~RepairRecords
      PROVE  \A t \in TimesOf(series', "snapshot") : t =< master
  <2>1. CASE series' = series
    BY <1>0, <2>1
  <2>2. CASE MigrateMetric /\ series' # series
    <3>1. ~(task.next > Len(History)) /\ series' = Migrated(task.next)
      BY <2>2 DEF MigrateMetric
    <3>2. task.next \in 1..Len(History)
      BY <2>2, <3>1, MetricNext
    <3>3. QED
      BY <1>2, <3>1, <3>2
  <2>3. CASE series' = Ingested("repair", instant, task.correction)
    BY <1>0, <1>3, <2>3, WritesCorrection
  <2>4. CASE AnswerLost /\ series' = Migrated(task.next) /\ task.next =< Len(History)
    <3>1. task.next \in 1..Len(History)
      BY <2>4, HistoryIs DEF MigrateTypes, Tasks
    <3>2. QED
      BY <1>2, <2>4, <3>1
  <2>5. QED
    BY <1>7, <2>1, <2>2, <2>3, <2>4 DEF MigrateNext, Migrating, IsMigrated, FindLatestSnapshot,
       FindOldestSnapshot, MarkMigrated, IsCorrected, IngestCorrection, MarkCorrected,
       RequestFails, AnswerLost
<1>8. ASSUME ~TakeSnapshot, ~RepairRecords
      PROVE  task'.oldest # None => task'.oldest =< master
  <2>1. CASE FindOldestSnapshot
    <3>1. Times("snapshot") # {} /\ task'.oldest = Min(Times("snapshot"))
      BY <2>1, FindOldestIs, AtIs DEF MigrateTypes, FindOldestSnapshot
    <3>2. Min(Times("snapshot")) \in TimesOf(series, "snapshot")
      BY <3>1, TimesAre, AtIs
    <3>3. QED
      BY <1>0, <3>1, <3>2
  <2>2. CASE IsMigrated \/ MarkCorrected \/ RequestFails \/ AnswerLost
    <3>1. task'.oldest = None
      BY <2>2, IsMigratedIs, NoTaskIs DEF MarkCorrected, RequestFails, AnswerLost, Mistake
    <3>2. QED
      BY <3>1
  <2>3. CASE FindLatestSnapshot
    BY <1>0, <2>3, FindLatestIs
  <2>4. CASE MigrateMetric
    <3>1. task'.oldest = task.oldest
      BY <1>0, <2>4, MetricNext, ToIs DEF MigrateMetric, Stages
    <3>2. QED
      BY <1>0, <3>1
  <2>5. CASE MarkMigrated \/ IsCorrected \/ IngestCorrection
    <3>1. task'.oldest = task.oldest \/ task'.oldest = None
      BY <1>0, <2>5, ToIs, NoTaskIs DEF MarkMigrated, IsCorrected, IngestCorrection, Stages
    <3>2. QED
      BY <1>0, <3>1
  <2>6. QED
    BY <1>8, <2>1, <2>2, <2>3, <2>4, <2>5 DEF MigrateNext, Migrating
<1>9. ASSUME ~TakeSnapshot, ~RepairRecords
      PROVE  Behind'
  <2>1. master \in -1..instant' /\ repaired \in 0..instant'
    BY <1>0, <1>1
  <2>2. QED
    BY <1>0, <1>6, <1>7, <1>8, <1>9, <2>1 DEF Behind
<1>10. QED
  BY <1>4, <1>5, <1>9

LEMMA StepTypes ==
  ASSUME MigrateTypes, MigrateNext
  PROVE  MigrateTypes'
<1>1. /\ instant' \in Nat /\ Present =< instant' /\ Series(series', instant')
  BY StepWrites, Clock
<1>2. task' \in Tasks
  BY StepTasks
<1>3. marks' \subseteq {"migrated", "corrected"}
  <2>1. marks' = marks \/ marks' = marks \cup {"migrated"} \/ marks' = marks \cup {"corrected"}
    BY DEF MigrateNext, Migrating, IsMigrated, FindLatestSnapshot, FindOldestSnapshot,
           MigrateMetric, MarkMigrated, IsCorrected, IngestCorrection, MarkCorrected,
           RequestFails, AnswerLost, TakeSnapshot, RepairRecords
  <2>2. marks \subseteq {"migrated", "corrected"}
    BY DEF MigrateTypes
  <2>3. QED
    BY <2>1, <2>2
<1>4. spoiled' \in BOOLEAN /\ dropped' \in BOOLEAN
  <2>1. CASE TakeSnapshot
    <3>1. PICK end \in (master + 1)..instant :
            \/ spoiled' = spoiled /\ dropped' = dropped
            \/ /\ spoiled' = (spoiled \/ "corrected" \notin marks)
               /\ dropped' = (dropped \/ Since(LastSnapshot(end), master) # {})
      BY <2>1, Snapshots
    <3>2. spoiled \in BOOLEAN /\ dropped \in BOOLEAN
      BY DEF MigrateTypes
    <3>3. /\ (spoiled \/ "corrected" \notin marks) \in BOOLEAN
          /\ (dropped \/ Since(LastSnapshot(end), master) # {}) \in BOOLEAN
      OBVIOUS
    <3>4. QED
      BY <3>1, <3>2, <3>3
  <2>2. CASE ~TakeSnapshot
    <3>1. spoiled' = spoiled /\ dropped' = dropped
      BY <2>2 DEF MigrateNext, Migrating, IsMigrated, FindLatestSnapshot, FindOldestSnapshot,
           MigrateMetric, MarkMigrated, IsCorrected, IngestCorrection, MarkCorrected,
           RequestFails, AnswerLost, RepairRecords, world, tasks, past
    <3>2. QED
      BY <3>1 DEF MigrateTypes
  <2>3. QED
    BY <2>1, <2>2
<1>5. Behind'
  BY StepBehind
<1>6. task'.at = "oldest" => TimesOf(series', "snapshot") # {}
  <2>1. ASSUME task'.at = "oldest"
        PROVE  \/ FindLatestSnapshot
               \/ TakeSnapshot \/ RepairRecords
    <3>0. task \in Tasks
      BY DEF MigrateTypes
    <3>1. CASE MigrateMetric
      <4>1. task'.at \in {"mark", "metrics"}
        BY <3>0, <3>1, MetricNext, ToIs DEF MigrateMetric, Stages
      <4>2. QED
        BY <2>1, <4>1
    <3>2. CASE MarkMigrated \/ IsCorrected \/ IngestCorrection
      <4>1. task'.at \in {"isCorrected", "correct", "markCorrected", "idle"}
        BY <3>0, <3>2, ToIs, NoTaskIs DEF MarkMigrated, IsCorrected, IngestCorrection, Stages
      <4>2. QED
        BY <2>1, <4>1
    <3>3. CASE MarkCorrected \/ RequestFails \/ AnswerLost
      BY <2>1, <3>3, NoTaskIs DEF MarkCorrected, RequestFails, AnswerLost, Mistake
    <3>4. CASE IsMigrated \/ FindOldestSnapshot
      BY <2>1, <3>4, IsMigratedIs, FindOldestIs
    <3>5. QED
      BY <3>1, <3>2, <3>3, <3>4 DEF MigrateNext, Migrating
  <2>2. ASSUME FindLatestSnapshot, task'.at = "oldest"
        PROVE  TimesOf(series', "snapshot") # {}
    <3>1. Times("snapshot") # {} /\ series' = series
      BY <2>2, FindLatestIs DEF FindLatestSnapshot
    <3>2. QED
      BY <3>1, AtIs
  <2>3. ASSUME TakeSnapshot \/ RepairRecords, task'.at = "oldest"
        PROVE  TimesOf(series', "snapshot") # {}
    <3>1. task.at = "oldest" /\ TimesOf(series, "snapshot") # {}
      BY <2>3, Snapshots DEF RepairRecords, MigrateTypes
    <3>2. series' = series \/ \E class, t, v : Wrote(class, t, v)
      BY StepWrites
    <3>3. QED
      BY <3>1, <3>2 DEF Wrote, TimesOf
  <2>4. QED
    BY <2>1, <2>2, <2>3
<1>7. QED
  BY <1>1, <1>2, <1>3, <1>4, <1>5, <1>6 DEF MigrateTypes
-----------------------------------------------------------------------------
LEMMA KeptStart ==
  ASSUME NEW S, Start(S), own' = own
  PROVE  Start(S)'
BY DEF Start, AtOf, SumOf, Between, ValuesOf, BaseOf, TimesOf, Series

LEMMA Quiet ==
  ASSUME NEW S, Content(S), own' = own, series' = series, first' = first,
         "corrected" \notin marks' => "corrected" \notin marks
  PROVE  Content(S)' /\ \A n : Has(n) => Has(n)'
<1>1. \A k : (OfHistory(k)' <=> OfHistory(k)) /\ (Later(k)' <=> Later(k))
  <2>1. \A k : OfHistory(k)' <=> OfHistory(k)
    BY DEF OfHistory, Time, Value, Delta
  <2>2. Missed' = Missed
    BY DEF Missed
  <2>3. \A k : Later(k)' <=> Later(k)
    BY <2>2 DEF Later
  <2>4. QED
    BY <2>1, <2>3
<1>2. \A k \in DOMAIN S : k \in DOMAIN series' /\ series'[k] = S[k]
  BY DEF Content
<1>3. \A k \in DOMAIN series' : k \in DOMAIN S \/ OfHistory(k)' \/ Later(k)'
  BY <1>1 DEF Content
<1>4. "corrected" \notin marks' => first' = None
  BY DEF Content
<1>5. Content(S)'
  BY <1>2, <1>3, <1>4 DEF Content
<1>6. QED
  BY <1>5 DEF Has, Time

LEMMA WroteContent ==
  ASSUME MigrateTypes, NEW S, Content(S), own' = own, marks' = marks,
         NEW class, NEW t, NEW v, Wrote(class, t, v), <<class, t>> \notin DOMAIN S,
         \/ \E n \in 1..Len(History) :
              /\ t = Time(n)
              /\ \/ class = "checkpoint" /\ v = Delta(n)
                 \/ /\ class = "snapshot" /\ v = Value(n)
                    /\ own.oldest # None /\ Time(n) < own.oldest
         \/ class = "snapshot" /\ first' # None /\ first' =< t
         \/ class = "repair" /\ Present =< t /\ v = Missed,
         first # None => first' = first,
         "corrected" \notin marks => first' = None
  PROVE  Content(S)' /\ \A n : Has(n) => Has(n)'
<1>0. PICK new : new = <<class, t>> /\ new[1] = class /\ new[2] = t
  OBVIOUS
<1>1. /\ DOMAIN series' = DOMAIN series \cup {new}
      /\ series'[new] = v
      /\ \A k \in DOMAIN series : k # new => series'[k] = series[k]
  BY <1>0 DEF Wrote
<1>m. Missed' = Missed
  BY DEF Missed
<1>2. \A k \in DOMAIN series : k # new /\ OfHistory(k) => OfHistory(k)'
  <2>1. ASSUME NEW k \in DOMAIN series, k # new, OfHistory(k)
        PROVE  OfHistory(k)'
    <3>1. series'[k] = series[k]
      BY <1>1, <2>1
    <3>2. PICK n \in 1..Len(History) :
            /\ k[2] = Time(n)
            /\ \/ k[1] = "checkpoint" /\ series[k] = Delta(n)
               \/ /\ k[1] = "snapshot" /\ series[k] = Value(n)
                  /\ own.oldest # None /\ Time(n) < own.oldest
      BY <2>1 DEF OfHistory
    <3>3. QED
      BY <3>1, <3>2 DEF OfHistory, Time, Value, Delta
  <2>2. QED
    BY <2>1
<1>a. \A k \in DOMAIN series : k # new /\ Later(k) => Later(k)'
  <2>1. ASSUME NEW k \in DOMAIN series, k # new, Later(k)
        PROVE  Later(k)'
    <3>1. series'[k] = series[k]
      BY <1>1, <2>1
    <3>2. QED
      BY <1>m, <2>1, <3>1 DEF Later
  <2>2. QED
    BY <2>1
<1>3. new \in DOMAIN series' /\ (OfHistory(new)' \/ Later(new)')
  <2>1. CASE \/ class = "snapshot" /\ first' # None /\ first' =< t
             \/ class = "repair" /\ Present =< t /\ v = Missed
    <3>1. \/ new[1] = "snapshot" /\ first' # None /\ first' =< new[2]
          \/ new[1] = "repair" /\ Present =< new[2] /\ series'[new] = Missed'
      BY <1>0, <1>1, <1>m, <2>1
    <3>2. Later(new)'
      BY <3>1 DEF Later
    <3>3. QED
      BY <1>1, <3>2
  <2>2. CASE \E n \in 1..Len(History) :
               /\ t = Time(n)
               /\ \/ class = "checkpoint" /\ v = Delta(n)
                  \/ /\ class = "snapshot" /\ v = Value(n)
                     /\ own.oldest # None /\ Time(n) < own.oldest
    <3>1. PICK n \in 1..Len(History) :
               /\ t = Time(n)
               /\ \/ class = "checkpoint" /\ v = Delta(n)
                  \/ /\ class = "snapshot" /\ v = Value(n)
                     /\ own.oldest # None /\ Time(n) < own.oldest
      BY <2>2
    <3>2. /\ new[2] = Time(n)
          /\ \/ new[1] = "checkpoint" /\ series'[new] = Delta(n)
             \/ /\ new[1] = "snapshot" /\ series'[new] = Value(n)
                /\ own'.oldest # None /\ Time(n) < own'.oldest
      BY <1>0, <1>1, <3>1
    <3>3. OfHistory(new)'
      BY <3>2 DEF OfHistory, Time, Value, Delta
    <3>4. QED
      BY <1>1, <3>3
  <2>3. QED
    BY <2>1, <2>2
<1>4. \A k \in DOMAIN S : k \in DOMAIN series' /\ series'[k] = S[k]
  <2>1. \A k \in DOMAIN S : k \in DOMAIN series /\ series[k] = S[k] /\ k # new
    BY <1>0 DEF Content
  <2>2. QED
    BY <1>1, <2>1
<1>5. \A k \in DOMAIN series' : k \in DOMAIN S \/ OfHistory(k)' \/ Later(k)'
  <2>1. \A k \in DOMAIN series : k \in DOMAIN S \/ OfHistory(k) \/ Later(k)
    BY DEF Content
  <2>2. QED
    BY <1>1, <1>2, <1>a, <1>3, <2>1
<1>6. Content(S)'
  BY <1>4, <1>5 DEF Content
<1>7. ASSUME NEW n
      PROVE  Has(n) => Has(n)'
  BY <1>0, <1>1 DEF Has, Time
<1>8. QED
  BY <1>6, <1>7

LEMMA SameCorrection ==
  ASSUME CorrectionIs, task'.next = task.next, task'.correction = task.correction,
         task'.latest = task.latest
  PROVE  CorrectionIs'
<1>1. \A t : Predates(t)' <=> Predates(t)
  BY DEF Predates
<1>2. QED
  BY <1>1 DEF CorrectionIs, Value, Time

LEMMA NoCorrection ==
  ASSUME task'.next = 1, task'.correction = 0
  PROVE  CorrectionIs'
<1>1. 0 \in 0..(1 - 1) /\ \A m : ~(m \in 1..(1 - 1))
  OBVIOUS
<1>2. Value(0) = 0
  BY DEF Value
<1>3. QED
  BY <1>1, <1>2 DEF CorrectionIs, Value

LEMMA Restarted ==
  ASSUME MigrateTypes, NEW S, task' = NoTask,
         "migrated" \in marks' => \A n \in 1..Len(History) : Has(n)',
         "corrected" \in marks' => "migrated" \in marks'
  PROVE  Progress' /\ Aims(S)' /\ CorrectionIs'
<1>1. /\ task'.at = "idle" /\ task'.latest = None /\ task'.oldest = None
      /\ task'.next = 1 /\ task'.correction = 0
  BY NoTaskIs
<1>2. Progress'
  BY <1>1 DEF Progress, Counted
<1>3. Aims(S)'
  BY <1>1 DEF Aims, Counted
<1>4. QED
  BY <1>1, <1>2, <1>3, NoCorrection

LEMMA SettledStep ==
  ASSUME MigrateTypes, Settled, series' = series, own' = own,
         "migrated" \in marks' /\ ~dropped' => "migrated" \in marks /\ ~dropped,
         instant' = instant \/ instant' = instant + 1
  PROVE  Settled'
<1>1. instant \in Nat /\ instant' \in Nat /\ instant =< instant' /\ Series(series, instant)
  BY DEF MigrateTypes
<1>2. AtOf(series, instant') = AtOf(series, instant)
  BY <1>1, AtLater
<1>3. At(instant)' = AtOf(series', instant') /\ At(instant) = AtOf(series, instant)
  BY AtIs
<1>4. At(instant)' = At(instant)
  BY <1>2, <1>3
<1>5. Missed' = Missed /\ Total' = Total
  BY DEF Missed, Total
<1>6. QED
  BY <1>4, <1>5 DEF Settled

\* No query sums the other classes.
LEMMA Unread ==
  ASSUME MigrateTypes, NEW class, NEW t, NEW v, Wrote(class, t, v), NEW other, other # class
  PROVE  /\ TimesOf(series', other) = TimesOf(series, other)
         /\ ValuesOf(series', other) = ValuesOf(series, other)
         /\ \A from, to : SumOf(series', other, from, to) = SumOf(series, other, from, to)
<1>1. TimesOf(series', other) = TimesOf(series, other)
  BY DEF Wrote, TimesOf
<1>2. \A u \in TimesOf(series, other) : series'[<<other, u>>] = series[<<other, u>>]
  <2>1. ASSUME NEW u \in TimesOf(series, other)
        PROVE  series'[<<other, u>>] = series[<<other, u>>]
    <3>1. <<other, u>> # <<class, t>>
      OBVIOUS
    <3>2. <<other, u>> \in DOMAIN series
      BY <2>1, InTimes DEF MigrateTypes
    <3>3. QED
      BY <3>1, <3>2 DEF Wrote
  <2>2. QED
    BY <2>1
<1>3. ValuesOf(series', other) = ValuesOf(series, other)
  BY <1>1, <1>2 DEF ValuesOf
<1>4. QED
  BY <1>1, <1>3 DEF SumOf, Between
-----------------------------------------------------------------------------
\* The instants of the metrics after the k-th one, up to the n-th one.
HistoryTimes(k, n) == {Time(j) : j \in (k + 1)..n}

LEMMA HistoryTimesFinite ==
  ASSUME NEW k \in 0..Len(History), NEW n \in k..Len(History)
  PROVE  IsFiniteSet(HistoryTimes(k, n)) /\ \A t \in HistoryTimes(k, n) : t \in Nat /\ t < Present
<1>0. Len(History) \in Nat /\ Present \in Nat
  BY HistoryIs, MigrateAssumption
<1>1. \A t \in HistoryTimes(k, n) : t \in Nat /\ t < Present
  <2>1. \A j \in (k + 1)..n : j \in 1..Len(History)
    BY <1>0
  <2>2. QED
    BY <2>1, HistoryIs DEF HistoryTimes
<1>2. \A t \in HistoryTimes(k, n) : t \in 0..Present
  BY <1>0, <1>1
<1>3. IsFiniteSet(0..Present)
  BY <1>0, FS_Interval
<1>4. QED
  BY <1>1, <1>2, <1>3, FS_Subset

\* What is ingested at the instant of a metric.
LEMMA HistoryRecord ==
  ASSUME NEW S, Start(S), Content(S), NEW j \in 1..Len(History)
  PROVE  /\ \A class : <<class, Time(j)>> \notin DOMAIN S
         /\ <<"checkpoint", Time(j)>> \in DOMAIN series =>
              series[<<"checkpoint", Time(j)>>] = Delta(j)
         /\ <<"snapshot", Time(j)>> \in DOMAIN series /\ ~(first # None /\ first =< Time(j)) =>
              series[<<"snapshot", Time(j)>>] = Value(j)
         /\ <<"correction", Time(j)>> \notin DOMAIN series
<1>1. Time(j) \in Nat /\ Time(j) < Present /\ Present \in Nat
  BY HistoryIs, MigrateAssumption
<1>2. ASSUME NEW k \in DOMAIN S
      PROVE  k[2] # Time(j)
  BY DEF Start
<1>3. \A class : <<class, Time(j)>> \notin DOMAIN S
  BY <1>2
<1>4. ASSUME NEW class, <<class, Time(j)>> \in DOMAIN series
      PROVE  \/ class = "checkpoint" /\ series[<<class, Time(j)>>] = Delta(j)
             \/ class = "snapshot" /\ series[<<class, Time(j)>>] = Value(j)
             \/ class = "snapshot" /\ first # None /\ first =< Time(j)
  <2>1. PICK k \in DOMAIN series : k = <<class, Time(j)>> /\ k[1] = class /\ k[2] = Time(j)
    BY <1>4
  <2>2. k \notin DOMAIN S
    BY <1>2, <2>1
  <2>3. CASE Later(k)
    <3>1. ~(Present =< k[2])
      BY <1>1, <2>1
    <3>2. QED
      BY <2>1, <2>3, <3>1 DEF Later
  <2>4. CASE OfHistory(k)
    <3>1. PICK n \in 1..Len(History) :
            /\ k[2] = Time(n)
            /\ \/ k[1] = "checkpoint" /\ series[k] = Delta(n)
               \/ k[1] = "snapshot" /\ series[k] = Value(n)
      BY <2>4 DEF OfHistory
    <3>2. n = j
      BY <2>1, <3>1, SameMetric
    <3>3. QED
      BY <2>1, <3>1, <3>2
  <2>5. QED
    BY <2>2, <2>3, <2>4 DEF Content
<1>5. QED
  BY <1>3, <1>4

LEMMA FromSame ==
  ASSUME MigrateTypes, NEW S, Start(S), Content(S), "corrected" \notin marks,
         NEW from, IsFrom(S, Present, from)
  PROVE  IsFrom(series, instant, from) /\ BaseOf(series, from) = BaseOf(S, from)
<1> DEFINE T == TimesOf(S, "snapshot")
           R == TimesOf(series, "snapshot")
<1>0. Present \in Nat /\ instant \in Nat /\ Present =< instant
  BY MigrateAssumption DEF MigrateTypes
<1>1. \A t \in T : t \in Nat /\ t < Present /\ <<"snapshot", t>> \in DOMAIN S
  BY StartIs, MigrateAssumption
<1>2. \A t \in R : t \in Nat
  BY InTimes DEF MigrateTypes
<1>3. T \subseteq R /\ (R = {} <=> T = {})
  BY SnapshotsSame
<1>4. \A t \in R : t \in T \/ (T # {} /\ t < own.oldest /\ own.oldest \in T)
  BY SnapshotsSame, StartIs, MigrateAssumption
<1>5. BaseOf(series, from) = BaseOf(S, from)
  <2>1. from # -1 => <<"snapshot", from>> \in DOMAIN S
    BY <1>1 DEF IsFrom
  <2>2. \A k \in DOMAIN S : series[k] = S[k]
    BY DEF Content
  <2>3. QED
    BY <2>1, <2>2 DEF BaseOf
<1>6. IsFrom(series, instant, from)
  <2>0. \A t \in T : t \in Nat /\ t =< Present /\ t =< instant
    <3>1. ASSUME NEW t \in T
          PROVE  t \in Nat /\ t =< Present /\ t =< instant
      <4>1. t \in Nat /\ t < Present
        BY <1>1
      <4> HIDE DEF T
      <4>2. QED
        BY <1>0, <4>1
    <3>2. QED
      BY <3>1
  <2>1. \/ from = -1 /\ \A t \in T : ~(t =< Present)
        \/ /\ from \in T /\ from =< Present
           /\ \A t \in T : t =< Present => t =< from
    BY DEF IsFrom
  <2>2. T = {} => from = -1
    BY <2>1
  <2>3. T # {} => from \in T /\ \A t \in T : t =< from
    <3>1. \A t \in T : t =< Present
      BY <2>0
    <3>2. QED
      BY <2>1, <3>1
  <2> HIDE DEF T, R
  <2>4. \A t \in R : T # {} /\ t =< from
    <3>1. ASSUME NEW t \in R
          PROVE  T # {} /\ t =< from
      <4>1. CASE t \in T
        BY <2>3, <4>1
      <4>2. CASE T # {} /\ t < own.oldest /\ own.oldest \in T
        <5>1. own.oldest \in Nat /\ own.oldest =< from /\ from \in Nat /\ t \in Nat
          BY <1>1, <1>2, <2>3, <4>2
        <5>2. QED
          BY <4>2, <5>1
      <4>3. QED
        BY <1>4, <4>1, <4>2
    <3>2. QED
      BY <3>1
  <2>5. T # {} => from \in R /\ from =< instant
    BY <1>3, <2>0, <2>3
  <2>6. QED
    BY <1>3, <2>2, <2>4, <2>5 DEF IsFrom, T, R
<1>7. QED
  BY <1>5, <1>6

LEMMA CheckpointsSum ==
  ASSUME MigrateTypes, NEW S, Start(S), Content(S), \A n \in 1..Len(History) : Has(n),
         NEW from \in Nat \cup {-1}, IsFrom(series, instant, from),
         NEW k \in 0..Len(History), \A j \in 1..Len(History) : j =< k <=> Time(j) =< from
  PROVE  SumOf(series, "checkpoint", from, instant)
           = SumOf(S, "checkpoint", from, Present) + (Value(Len(History)) - Value(k))
<1> DEFINE N == Len(History)
           A == Between(S, "checkpoint", from, Present)
           B == HistoryTimes(k, N)
           f == ValuesOf(series, "checkpoint")
           h == ValuesOf(S, "checkpoint")
           C == Between(series, "checkpoint", from, instant)
<1>0. /\ Present \in Nat /\ instant \in Nat /\ Present =< instant
      /\ N \in Nat /\ k \in Nat /\ N \in k..N
      /\ Series(S, Present) /\ Series(series, instant)
  BY MigrateAssumption, HistoryIs DEF MigrateTypes, Start
<1>1. /\ \A t : t \in TimesOf(series, "checkpoint") <=> <<"checkpoint", t>> \in DOMAIN series
      /\ \A t : t \in TimesOf(series, "snapshot") <=> <<"snapshot", t>> \in DOMAIN series
      /\ \A t : t \in TimesOf(S, "checkpoint") <=> <<"checkpoint", t>> \in DOMAIN S
  BY <1>0, InTimes
<1>2. ASSUME NEW t \in A
      PROVE  /\ t \in Nat /\ t < Present /\ from < t /\ t \in C
             /\ f[t] = h[t] /\ h[t] \in Int /\ t \notin B
  <2>0. t \in TimesOf(S, "checkpoint") /\ from < t
    BY <1>2 DEF Between
  <2>1. t \in TimesOf(S, "checkpoint") /\ from < t /\ t \in Nat /\ h[t] \in Int
        /\ h[t] = S[<<"checkpoint", t>>]
    <3>1. \A u \in A : u \in Nat /\ h[u] = S[<<"checkpoint", u>>] /\ h[u] \in Int
      BY <1>0, Betweens
    <3>2. QED
      BY <1>2, <2>0, <3>1
  <2>2. PICK x \in DOMAIN S : x = <<"checkpoint", t>> /\ x[2] = t
    BY <1>1, <2>1
  <2>3. t < Present
    BY <2>2 DEF Start
  <2>4. x \in DOMAIN series /\ series[x] = S[x]
    BY DEF Content
  <2>5. t \in TimesOf(series, "checkpoint")
    BY <1>1, <2>2, <2>4
  <2>6. t =< instant
    BY <1>0, <2>1, <2>3
  <2>7. f[t] = h[t]
    BY <2>1, <2>2, <2>4, <2>5 DEF ValuesOf
  <2>8. t \notin B
    <3>1. \A j \in (k + 1)..N : j \in 1..N
      BY <1>0
    <3>2. \A j \in 1..N : Time(j) # t
      BY <2>2 DEF Start
    <3>3. QED
      BY <3>1, <3>2 DEF HistoryTimes
  <2>9. t \in C
    BY <2>1, <2>5, <2>6 DEF Between
  <2>10. QED
    BY <2>1, <2>3, <2>7, <2>8, <2>9
<1>3. ASSUME NEW j \in (k + 1)..N
      PROVE  Time(j) \in C /\ f[Time(j)] = Delta(j)
  <2>1. j \in 1..N /\ ~(j =< k)
    BY <1>0
  <2>2. Time(j) \in Nat /\ Time(j) < Present /\ ~(Time(j) =< from)
    BY <2>1, HistoryIs
  <2>3. Time(j) =< instant /\ from < Time(j)
    BY <1>0, <2>2
  <2>4. <<"snapshot", Time(j)>> \notin DOMAIN series
    <3>1. ASSUME Time(j) \in TimesOf(series, "snapshot")
          PROVE  FALSE
      BY <2>2, <2>3, <3>1 DEF IsFrom
    <3>2. QED
      BY <1>1, <3>1
  <2>5. <<"checkpoint", Time(j)>> \in DOMAIN series
    BY <2>1, <2>4 DEF Has
  <2>6. series[<<"checkpoint", Time(j)>>] = Delta(j)
    BY <2>1, <2>5, HistoryRecord
  <2>7. Time(j) \in TimesOf(series, "checkpoint")
    BY <1>1, <2>5
  <2>8. QED
    BY <2>3, <2>6, <2>7 DEF Between, ValuesOf
<1>4. C \subseteq A \cup B
  <2>1. ASSUME NEW t \in C, t \notin A
        PROVE  t \in B
    <3>0. \A u \in C : u \in Nat
      BY <1>0, Betweens
    <3>1. t \in TimesOf(series, "checkpoint") /\ from < t /\ t \in Nat
      <4>1. t \in TimesOf(series, "checkpoint") /\ from < t
        BY <2>1 DEF Between
      <4>2. t \in Nat
        BY <2>1, <3>0
      <4>3. QED
        BY <4>1, <4>2
    <3>2. PICK x \in DOMAIN series : x = <<"checkpoint", t>> /\ x[1] = "checkpoint" /\ x[2] = t
      <4>1. <<"checkpoint", t>> \in DOMAIN series
        BY <1>1, <3>1
      <4>2. QED
        BY <4>1
    <3>3. x \notin DOMAIN S
      <4>1. ASSUME x \in DOMAIN S
            PROVE  FALSE
        <5>1. t < Present /\ t =< Present
          BY <1>0, <3>1, <3>2, <4>1 DEF Start
        <5>2. t \in TimesOf(S, "checkpoint")
          BY <1>1, <3>2, <4>1
        <5>3. t \in A
          BY <3>1, <5>1, <5>2 DEF Between
        <5>4. QED
          BY <2>1, <5>3
      <4>2. QED
        BY <4>1
    <3>4. OfHistory(x)
      BY <3>2, <3>3 DEF Content, Later
    <3>5. PICK n \in 1..N : t = Time(n)
      BY <3>2, <3>4 DEF OfHistory
    <3>6. ~(Time(n) =< from)
      BY <3>1, <3>5
    <3>7. n \in (k + 1)..N
      BY <1>0, <3>6
    <3>8. QED
      BY <3>5, <3>7 DEF HistoryTimes
  <2>2. QED
    BY <2>1
<1>5. IsFiniteSet(A) /\ IsFiniteSet(B) /\ A \cap B = {}
  <2>1. IsFiniteSet(A)
    BY <1>0, Betweens
  <2>2. IsFiniteSet(B)
    BY <1>0, HistoryTimesFinite
  <2>3. A \cap B = {}
    BY <1>2
  <2>4. QED
    BY <2>1, <2>2, <2>3
<1>6. C = A \cup B
  <2>1. B \subseteq C
    BY <1>3 DEF HistoryTimes
  <2>2. A \subseteq C
    BY <1>2
  <2>3. QED
    BY <1>4, <2>1, <2>2
<1>7. \A t \in C : f[t] \in Int
  BY <1>0, Betweens
<1>8. SumOver(f, B) = Value(N) - Value(k)
  <2>1. SumOver(f, {Time(j) : j \in (k + 1)..N}) = Value(N) - Value(k)
    <3>1. \A j \in (k + 1)..N : f[Time(j)] = Delta(j)
      BY <1>3
    <3> HIDE DEF f, N
    <3>2. QED
      <4> USE DEF N
      <4>1. QED
        BY <1>0, <3>1, Telescope
  <2>2. QED
    BY <2>1 DEF HistoryTimes
<1>9. \A t \in A : f[t] = h[t] /\ f[t] \in Int
  BY <1>2
<1> HIDE DEF A, B, C, f, h, N
<1>10. SumOver(f, A) = SumOver(h, A)
  BY <1>5, <1>9, SumAgrees
<1>11. SumOver(f, A \cup B) = SumOver(f, A) + SumOver(f, B)
  BY <1>5, <1>6, <1>7, SumSplits
<1>12. SumOver(f, C) = SumOver(h, A) + (Value(N) - Value(k))
  BY <1>6, <1>8, <1>10, <1>11
<1>13. QED
  BY <1>12 DEF A, C, f, h, N, SumOf

\* The corrections are those of version 2.
LEMMA CorrectionsSum ==
  ASSUME MigrateTypes, NEW S, Start(S), Content(S), NEW from
  PROVE  SumOf(series, "correction", from, instant) = SumOf(S, "correction", from, Present)
<1>0. /\ Present \in Nat /\ instant \in Nat /\ Present =< instant
      /\ Series(S, Present) /\ Series(series, instant)
  BY MigrateAssumption DEF MigrateTypes, Start
<1>1. /\ \A t : t \in TimesOf(series, "correction") <=> <<"correction", t>> \in DOMAIN series
      /\ \A t : t \in TimesOf(S, "correction") <=> <<"correction", t>> \in DOMAIN S
  BY <1>0, InTimes
<1>2. ASSUME NEW t, <<"correction", t>> \in DOMAIN series
      PROVE  <<"correction", t>> \in DOMAIN S
  <2>1. PICK x \in DOMAIN series : x = <<"correction", t>> /\ x[1] = "correction"
    BY <1>2
  <2>2. QED
    BY <2>1 DEF Content, OfHistory, Later
<1>3. \A k \in DOMAIN S : k \in DOMAIN series /\ series[k] = S[k]
  BY DEF Content
<1>4. TimesOf(series, "correction") = TimesOf(S, "correction")
  <2>1. \A t : t \in TimesOf(series, "correction") <=> t \in TimesOf(S, "correction")
    BY <1>1, <1>2, <1>3
  <2>2. QED
    BY <2>1
<1>5. ValuesOf(series, "correction") = ValuesOf(S, "correction")
  <2>1. \A t \in TimesOf(S, "correction") : series[<<"correction", t>>] = S[<<"correction", t>>]
    BY <1>1, <1>3
  <2>2. QED
    BY <1>4, <2>1 DEF ValuesOf
<1>6. \A t \in TimesOf(S, "correction") : t \in Nat /\ t =< Present
  BY <1>0, InTimes
<1>7. Between(series, "correction", from, instant) = Between(S, "correction", from, Present)
  BY <1>0, <1>4, <1>6 DEF Between
<1>8. QED
  BY <1>5, <1>7 DEF SumOf

\* What version 1 had at the last metric that predates the latest snapshot.
LEMMA MissedIs ==
  ASSUME NEW S, Start(S)
  PROVE  \E k \in 0..Len(History) :
           /\ Missed = Value(k)
           /\ \A m \in 1..Len(History) :
                m =< k <=> (own.latest # None /\ Time(m) < own.latest)
<1> DEFINE before == {n \in 1..Len(History) : own.latest # None /\ Time(n) < own.latest}
<1>0. /\ Len(History) \in Nat /\ DOMAIN History = 1..Len(History)
      /\ own.latest # None => own.latest \in Nat
  BY HistoryIs, StartIs, MigrateAssumption
<1>1. Missed = IF before = {} THEN 0 ELSE History[Max(before)][2]
  BY <1>0 DEF Missed, Time
<1>2. CASE before = {}
  <2>1. Missed = Value(0) /\ 0 \in 0..Len(History)
    BY <1>0, <1>1, <1>2 DEF Value
  <2>2. \A m \in 1..Len(History) :
          m =< 0 <=> (own.latest # None /\ Time(m) < own.latest)
    BY <1>0, <1>2
  <2> HIDE DEF before
  <2>3. QED
    BY <2>1, <2>2
<1>3. CASE before # {}
  <2>1. before \subseteq 0..Len(History) /\ before \subseteq 1..Len(History)
    BY <1>0
  <2>2. \A m, n \in 1..Len(History) : n \in before /\ m =< n => m \in before
    <3>1. ASSUME NEW m \in 1..Len(History), NEW n \in before, m =< n
          PROVE  m \in before
      <4>1. n \in 1..Len(History) /\ own.latest # None /\ Time(n) < own.latest
        BY <3>1
      <4>2. Time(m) \in Nat /\ Time(n) \in Nat /\ Time(m) =< Time(n)
        <5>1. m = n \/ m < n
          BY <1>0, <3>1, <4>1
        <5>2. QED
          BY <4>1, <5>1, HistoryIs
      <4>3. Time(m) < own.latest
        BY <1>0, <4>1, <4>2
      <4>4. QED
        BY <4>1, <4>3
    <3>2. QED
      BY <3>1
  <2>3. \A m \in 1..Len(History) :
          m \in before <=> (own.latest # None /\ Time(m) < own.latest)
    OBVIOUS
  <2> HIDE DEF before
  <2>4. Max(before) \in before /\ \A y \in before : Max(before) >= y
    BY <1>0, <1>3, <2>1, MaxIs
  <2>5. PICK k \in 1..Len(History) : k = Max(before) /\ k \in before
    BY <2>1, <2>4
  <2>6. Missed = Value(k)
    BY <1>0, <1>1, <1>3, <2>5 DEF Value
  <2>7. \A m \in 1..Len(History) : m =< k <=> m \in before
    BY <1>0, <2>2, <2>4, <2>5
  <2>8. k \in 0..Len(History)
    BY <1>0
  <2>9. QED
    BY <2>3, <2>6, <2>7, <2>8
<1>4. QED
  BY <1>2, <1>3

\* Before the correction a query has, with what version 2 had, all that version 1
\* gained since the latest snapshot.
LEMMA Settles ==
  ASSUME MigrateTypes, NEW S, Start(S), Content(S), "corrected" \notin marks,
         \A n \in 1..Len(History) : Has(n)
  PROVE  AtOf(series, instant) = own.value + Total - Missed
<1> DEFINE N == Len(History)
<1>0. /\ Present \in Nat /\ instant \in Nat /\ Present =< instant
      /\ Series(S, Present) /\ Series(series, instant) /\ N \in Nat
  BY MigrateAssumption, HistoryIs DEF MigrateTypes, Start
<1>1. PICK k \in 0..N :
        /\ Missed = Value(k)
        /\ \A m \in 1..N : m =< k <=> (own.latest # None /\ Time(m) < own.latest)
  BY MissedIs
<1>2. own.latest = LatestOf(S)
  BY StartIs, MigrateAssumption
<1>5. PICK from \in Nat \cup {-1} : IsFrom(S, Present, from)
  BY <1>0, FromExists
<1>6. IsFrom(series, instant, from) /\ BaseOf(series, from) = BaseOf(S, from)
  BY <1>5, FromSame
<1>7. /\ \/ from = -1 /\ LatestOf(S) = None
         \/ from = LatestOf(S) /\ LatestOf(S) # None /\ LatestOf(S) \in Nat
               /\ from \in TimesOf(S, "snapshot")
      /\ from < Present
  <2> DEFINE T == TimesOf(S, "snapshot")
  <2>1. \A t \in T : t \in Nat /\ t < Present
    BY StartIs, MigrateAssumption
  <2>2. /\ T = {} => LatestOf(S) = None
        /\ T # {} => /\ LatestOf(S) \in T /\ LatestOf(S) \in Nat /\ LatestOf(S) # None
                     /\ \A t \in T : t =< LatestOf(S)
    BY StartIs, MigrateAssumption
  <2>3. \/ from = -1 /\ \A t \in T : ~(t =< Present)
        \/ /\ from \in T /\ from =< Present
           /\ \A t \in T : t =< Present => t =< from
    BY <1>5 DEF IsFrom
  <2> HIDE DEF T
  <2>4. \A t \in T : t =< Present
    BY <1>0, <2>1
  <2>5. CASE T = {}
    BY <1>0, <2>2, <2>3, <2>5
  <2>6. CASE T # {}
    <3>1. from \in T /\ LatestOf(S) =< from /\ from =< LatestOf(S)
      BY <2>2, <2>3, <2>4, <2>6
    <3>2. from = LatestOf(S) /\ from < Present
      BY <2>1, <2>2, <2>6, <3>1
    <3>3. QED
      BY <2>2, <2>6, <3>1, <3>2 DEF T
  <2>7. QED
    BY <2>5, <2>6
<1>8. \A j \in 1..N : j =< k <=> Time(j) =< from
  <2>1. ASSUME NEW j \in 1..N
        PROVE  j =< k <=> Time(j) =< from
    <3>1. j =< k <=> (LatestOf(S) # None /\ Time(j) < LatestOf(S))
      BY <1>1, <1>2
    <3>2. Time(j) \in Nat
      BY HistoryIs
    <3>3. CASE from = -1 /\ LatestOf(S) = None
      BY <3>1, <3>2, <3>3
    <3>4. CASE from = LatestOf(S) /\ LatestOf(S) # None /\ LatestOf(S) \in Nat
                 /\ from \in TimesOf(S, "snapshot")
      <4>1. <<"snapshot", from>> \in DOMAIN S
        BY <1>0, <3>4, InTimes
      <4>2. from # Time(j)
        BY <4>1 DEF Start
      <4>3. QED
        BY <3>1, <3>2, <3>4, <4>2
    <3>5. QED
      BY <1>7, <3>3, <3>4
  <2>2. QED
    BY <2>1
<1>9. SumOf(series, "checkpoint", from, instant)
        = SumOf(S, "checkpoint", from, Present) + (Value(N) - Value(k))
  BY <1>6, <1>8, CheckpointsSum
<1>10. SumOf(series, "correction", from, instant) = SumOf(S, "correction", from, Present)
  BY CorrectionsSum
<1>11. AtOf(S, Present) = BaseOf(S, from) + FoldedOf(S, from, Present)
  BY <1>0, <1>5, AtFrom
<1>12. AtOf(series, instant) = BaseOf(series, from) + FoldedOf(series, from, instant)
  BY <1>0, <1>6, AtFrom
<1>13. own.value = AtOf(S, Present) /\ Total = Value(N)
  BY HistoryIs DEF Start
<1>14. /\ SumOf(S, "checkpoint", from, Present) \in Int
       /\ SumOf(S, "correction", from, Present) \in Int
       /\ Value(N) \in Int /\ Value(k) \in Int
  <2>1. SumOf(S, "checkpoint", from, Present) \in Int
    BY <1>0, Betweens
  <2>2. SumOf(S, "correction", from, Present) \in Int
    BY <1>0, Betweens
  <2>3. N \in 0..N
    BY <1>0
  <2>4. QED
    BY <2>1, <2>2, <2>3, HistoryIs
<1>15. BaseOf(S, from) \in Int
  BY <1>0, <1>5, BaseType
<1> HIDE DEF N
<1>16. FoldedOf(series, from, instant) = FoldedOf(S, from, Present) + (Value(N) - Value(k))
       /\ FoldedOf(S, from, Present) \in Int
  BY <1>9, <1>10, <1>14 DEF FoldedOf
<1>17. QED
  BY <1>1, <1>6, <1>11, <1>12, <1>13, <1>14, <1>15, <1>16
-----------------------------------------------------------------------------
(***************************************************************************)
(* What each step leaves of it.                                            *)
(***************************************************************************)
LEMMA BodyIs ==
  ASSUME NEW S, Body(S)
  PROVE  Start(S) /\ Content(S) /\ Progress /\ Aims(S) /\ CorrectionIs /\ Settled
BY DEF Body

LEMMA StepIsMigrated ==
  ASSUME MigrateTypes, NEW S, Body(S), IsMigrated
  PROVE  Body(S)'
<1>0. /\ task.at = "idle" /\ series' = series /\ marks' = marks /\ own' = own
      /\ dropped' = dropped /\ first' = first /\ instant' = instant
  BY DEF IsMigrated, world, tasks, past
<1>1. /\ task'.at = "latest" /\ task'.ingest = ("migrated" \notin marks)
      /\ task'.latest = None /\ task'.oldest = None /\ task'.next = 1 /\ task'.correction = 0
  BY IsMigratedIs
<1>2. Start(S)'
  BY <1>0, BodyIs, KeptStart
<1>3. Content(S)' /\ \A n : Has(n) => Has(n)'
  BY <1>0, BodyIs, Quiet
<1>5. Progress'
  <2>1. \A n \in 1..Len(History) : ~(n < 1)
    OBVIOUS
  <2>2. "migrated" \in marks' => \A n \in 1..Len(History) : Has(n)'
    BY <1>0, <1>3 DEF Body, Progress
  <2>3. "corrected" \in marks' => "migrated" \in marks'
    BY <1>0 DEF Body, Progress
  <2>4. QED
    BY <1>0, <1>1, <2>1, <2>2, <2>3 DEF Progress, Counted
<1>6. Aims(S)'
  BY <1>1 DEF Aims, Counted
<1>7. CorrectionIs'
  BY <1>1, NoCorrection
<1>8. Settled'
  BY <1>0, BodyIs, SettledStep
<1>9. QED
  BY <1>2, <1>3, <1>5, <1>6, <1>7, <1>8 DEF Body

LEMMA StepFindLatest ==
  ASSUME MigrateTypes, NEW S, Body(S), FindLatestSnapshot
  PROVE  Body(S)'
<1>0. /\ task.at = "latest" /\ series' = series /\ marks' = marks /\ own' = own
      /\ dropped' = dropped /\ first' = first /\ instant' = instant
  BY DEF FindLatestSnapshot, world, tasks, past
<1>1. /\ task'.ingest = task.ingest /\ task'.oldest = task.oldest
      /\ task'.next = task.next /\ task'.correction = task.correction
      /\ Times("snapshot") = {} => task'.at = "metrics" /\ task'.latest = task.latest
      /\ Times("snapshot") # {} =>
           task'.at = "oldest" /\ task'.latest = Max(Times("snapshot"))
  BY FindLatestIs
<1>2. Start(S)'
  BY <1>0, BodyIs, KeptStart
<1>3. Content(S)' /\ \A n : Has(n) => Has(n)'
  BY <1>0, BodyIs, Quiet
<1>a. task.next = 1 /\ task.ingest = ("migrated" \notin marks)
  BY <1>0 DEF Body, Progress
<1>5. Progress'
  <2>1. \A n \in 1..Len(History) : ~(n < 1)
    OBVIOUS
  <2>2. "migrated" \in marks' => \A n \in 1..Len(History) : Has(n)'
    BY <1>0, <1>3 DEF Body, Progress
  <2>3. "corrected" \in marks' => "migrated" \in marks'
    BY <1>0 DEF Body, Progress
  <2>4. task'.at \in {"metrics", "oldest"}
    BY <1>1
  <2>5. QED
    BY <1>0, <1>1, <1>a, <2>1, <2>2, <2>3, <2>4 DEF Progress, Counted
<1>6. Aims(S)'
  <2>1. SUFFICES ASSUME "corrected" \notin marks
                 PROVE  task'.latest = LatestOf(S) /\ (task'.at # "latest")
    <3>1. "corrected" \notin marks =>
            (task.oldest # None => own.oldest # None /\ task.oldest =< own.oldest)
      BY DEF Body, Aims
    <3>2. QED
      BY <1>0, <1>1, <2>1, <3>1 DEF Aims, LatestOf
  <2> DEFINE T == TimesOf(S, "snapshot")
             R == Times("snapshot")
  <2>2. /\ R = {} <=> T = {}
        /\ T \subseteq R
        /\ \A t \in R : t \in T \/ (own.oldest # None /\ t < own.oldest)
    <3>1. R = TimesOf(series, "snapshot")
      BY AtIs
    <3>2. QED
      BY <2>1, <3>1, BodyIs, SnapshotsSame
  <2>3. /\ T = {} => LatestOf(S) = None
        /\ T # {} =>
              /\ LatestOf(S) \in T /\ own.oldest \in Nat /\ LatestOf(S) \in Nat
              /\ own.oldest =< LatestOf(S) /\ \A t \in T : t =< LatestOf(S)
    BY BodyIs, StartIs, MigrateAssumption
  <2>4. R # {} => Max(R) \in R /\ Max(R) \in Nat /\ \A t \in R : t =< Max(R)
    BY TimesAre
  <2> HIDE DEF T
  <2>5. CASE R = {}
    BY <1>0, <1>1, <2>1, <2>2, <2>3, <2>5 DEF Body, Aims
  <2>6. CASE R # {}
    <3> HIDE DEF R
    <3>1. LatestOf(S) =< Max(R)
      BY <2>2, <2>3, <2>4, <2>6
    <3>2. Max(R) =< LatestOf(S)
      BY <2>2, <2>3, <2>4, <2>6
    <3>3. Max(R) = LatestOf(S)
      BY <2>2, <2>3, <2>4, <2>6, <3>1, <3>2
    <3>4. QED
      BY <1>1, <2>6, <3>3 DEF R
  <2>7. QED
    BY <2>5, <2>6
<1>7. CorrectionIs'
  <2>1. \E k \in 0..(task.next - 1) : task.correction = Value(k)
    BY DEF Body, CorrectionIs
  <2>2. 1 - 1 = 0 /\ 0 \in 0..0 /\ \A k \in 0..0 : k = 0
    OBVIOUS
  <2>3. task.correction = 0
    BY <1>a, <2>1, <2>2 DEF Value
  <2>4. QED
    BY <1>1, <1>a, <2>3, NoCorrection
<1>8. Settled'
  BY <1>0, BodyIs, SettledStep
<1>9. QED
  BY <1>2, <1>3, <1>5, <1>6, <1>7, <1>8 DEF Body

LEMMA StepFindOldest ==
  ASSUME MigrateTypes, NEW S, Body(S), FindOldestSnapshot
  PROVE  Body(S)'
<1>0. /\ task.at = "oldest" /\ series' = series /\ marks' = marks /\ own' = own
      /\ dropped' = dropped /\ first' = first /\ instant' = instant
  BY DEF FindOldestSnapshot, world, tasks, past
<1>1. /\ task'.at = "metrics"
      /\ task'.ingest = task.ingest /\ task'.latest = task.latest
      /\ task'.next = task.next /\ task'.correction = task.correction
      /\ task'.oldest = Min(Times("snapshot"))
  BY FindOldestIs
<1>2. Start(S)'
  BY <1>0, BodyIs, KeptStart
<1>3. Content(S)' /\ \A n : Has(n) => Has(n)'
  BY <1>0, BodyIs, Quiet
<1>5. Progress'
  <2>1. \A n \in 1..Len(History) : ~(n < 1)
    OBVIOUS
  <2>2. "migrated" \in marks' => \A n \in 1..Len(History) : Has(n)'
    BY <1>0, <1>3 DEF Body, Progress
  <2>3. /\ "corrected" \in marks' => "migrated" \in marks'
        /\ task.next = 1 /\ task.ingest = ("migrated" \notin marks)
    BY <1>0 DEF Body, Progress
  <2>4. QED
    BY <1>0, <1>1, <2>1, <2>2, <2>3 DEF Progress, Counted
<1>6. Aims(S)'
  <2>1. SUFFICES ASSUME "corrected" \notin marks
                 PROVE  /\ task.latest = LatestOf(S)
                        /\ own.oldest # None /\ Min(Times("snapshot")) =< own.oldest
    BY <1>0, <1>1, <2>1 DEF Aims, LatestOf
  <2>2. task.latest = LatestOf(S)
    BY <1>0, <2>1 DEF Body, Aims
  <2> DEFINE T == TimesOf(S, "snapshot")
             R == Times("snapshot")
  <2>3. R # {} /\ T # {} /\ T \subseteq R
    <3>1. R = TimesOf(series, "snapshot") /\ R # {}
      BY <1>0, AtIs DEF MigrateTypes
    <3>2. QED
      BY <2>1, <3>1, BodyIs, SnapshotsSame
  <2>4. own.oldest # None /\ own.oldest \in T
    BY <2>3, BodyIs, StartIs, MigrateAssumption
  <2>5. \A t \in R : Min(R) =< t
    BY <2>3, TimesAre
  <2>6. QED
    BY <2>2, <2>3, <2>4, <2>5
<1>7. CorrectionIs'
  BY <1>1, BodyIs, SameCorrection
<1>8. Settled'
  BY <1>0, BodyIs, SettledStep
<1>9. QED
  BY <1>2, <1>3, <1>5, <1>6, <1>7, <1>8 DEF Body

\* The snapshot of a metric has what version 1 had: all metrics before it predate
\* the latest snapshot too.
LEMMA OldIsValue ==
  ASSUME MigrateTypes, NEW S, Body(S), "corrected" \notin marks, task.at = "metrics",
         task.next \in 1..Len(History), IsOld(task.next)
  PROVE  /\ Corrected(task.next) = Value(task.next)
         /\ own.oldest # None /\ Time(task.next) < own.oldest
<1> DEFINE n == task.next
<1>0. n \in 1..Len(History) /\ Len(History) \in Nat /\ task.correction \in Int
  BY HistoryIs DEF MigrateTypes, Tasks
<1>1. /\ task.latest = LatestOf(S)
      /\ task.oldest # None /\ own.oldest # None /\ task.oldest =< own.oldest
      /\ Time(n) < task.oldest
  BY DEF Body, Aims, Counted, IsOld, Time
<1>2. TimesOf(S, "snapshot") # {}
  BY <1>1, BodyIs, StartIs, MigrateAssumption
<1>3. /\ own.oldest \in Nat /\ LatestOf(S) \in Nat /\ LatestOf(S) # None
      /\ own.oldest =< LatestOf(S)
  BY <1>2, BodyIs, StartIs, MigrateAssumption
<1>4. Time(n) \in Nat /\ task.oldest \in Nat
  BY <1>1, HistoryIs DEF MigrateTypes, Tasks
<1>5. Time(n) < own.oldest /\ Time(n) < LatestOf(S)
  BY <1>1, <1>3, <1>4
<1>6. \A m \in 1..n : Predates(Time(m))
  <2>1. ASSUME NEW m \in 1..n
        PROVE  Time(m) < LatestOf(S)
    <3>1. m \in 1..Len(History) /\ (m = n \/ m < n)
      BY <1>0
    <3>2. Time(m) \in Nat /\ Time(m) =< Time(n)
      BY <1>4, <3>1, HistoryIs
    <3>3. QED
      BY <1>3, <1>4, <1>5, <3>2
  <2>2. QED
    BY <1>1, <1>3, <2>1 DEF Predates
<1>7. PICK k \in 0..(n - 1) :
        task.correction = Value(k) /\ \A m \in 1..(n - 1) : m =< k <=> Predates(Time(m))
  BY DEF Body, CorrectionIs
<1>8. k = n - 1
  <2>1. CASE n = 1
    BY <1>0, <2>1
  <2>2. CASE n # 1
    <3>1. n - 1 \in 1..(n - 1) /\ n - 1 \in 1..n
      BY <1>0, <2>2
    <3>2. n - 1 =< k
      BY <1>6, <1>7, <3>1
    <3>3. QED
      BY <1>0, <3>2
  <2>3. QED
    BY <2>1, <2>2
<1>9. Predates(History[n][1])
  <2>1. n \in 1..n
    BY <1>0
  <2>2. QED
    BY <1>6, <2>1 DEF Time
<1>10. Corrected(n) = Value(n)
  <2>1. Delta(n) = Value(n) - Value(n - 1) /\ Value(n) \in Int /\ Value(n - 1) \in Int
    <3>1. n \in 0..Len(History) /\ n - 1 \in 0..Len(History)
      BY <1>0
    <3>2. QED
      BY <1>0, <3>1, HistoryIs
  <2>2. Corrected(n) = Value(n - 1) + Delta(n)
    BY <1>7, <1>8, <1>9 DEF Corrected
  <2>3. QED
    BY <2>1, <2>2
<1>11. QED
  BY <1>1, <1>5, <1>10

LEMMA IngestsMetric ==
  ASSUME MigrateTypes, NEW S, Body(S), "corrected" \notin marks, task.at = "metrics",
         NEW n \in 1..Len(History), n = task.next,
         series' = Migrated(n), own' = own, marks' = marks, first' = first
  PROVE  /\ Content(S)' /\ \A m : Has(m) => Has(m)'
         /\ Has(n)'
<1> DEFINE t == Time(n)
<1>0. n \in 1..Len(History)
  OBVIOUS
<1>1. PICK class \in {"checkpoint", "snapshot"}, v \in Int :
        /\ Wrote(class, t, v)
        /\ class = "snapshot" => IsOld(n) /\ v = Corrected(n)
        /\ class = "checkpoint" => v = Delta(n)
  BY <1>0, WritesMetric
<1>2. <<class, t>> \notin DOMAIN S
  BY <1>0, BodyIs, HistoryRecord
<1>3. \/ class = "checkpoint" /\ v = Delta(n)
      \/ /\ class = "snapshot" /\ v = Value(n)
         /\ own.oldest # None /\ Time(n) < own.oldest
  <2>1. CASE class = "checkpoint"
    BY <1>1, <2>1
  <2>2. CASE class = "snapshot"
    BY <1>1, <2>2, OldIsValue
  <2>3. QED
    BY <2>1, <2>2
<1>5. Content(S) /\ first = None
  BY DEF Body, Content
<1>6. Content(S)' /\ \A m : Has(m) => Has(m)'
  <2>1. \E m \in 1..Len(History) :
          /\ t = Time(m)
          /\ \/ class = "checkpoint" /\ v = Delta(m)
             \/ /\ class = "snapshot" /\ v = Value(m)
                /\ own.oldest # None /\ Time(m) < own.oldest
    BY <1>0, <1>3
  <2> HIDE DEF t
  <2>2. QED
    BY <1>1, <1>2, <1>5, <2>1, WroteContent
<1>7. DOMAIN series' = DOMAIN series \cup {<<class, t>>}
  BY <1>1 DEF Wrote
<1>8. Has(n)'
  <2>1. <<class, t>> \in DOMAIN series' /\ class \in {"checkpoint", "snapshot"}
    BY <1>7
  <2>2. <<"checkpoint", t>> \in DOMAIN series' \/ <<"snapshot", t>> \in DOMAIN series'
    BY <2>1
  <2>3. QED
    BY <2>2 DEF Has, Time
<1>9. QED
  BY <1>6, <1>8

\* The correction goes on with the next metric.
LEMMA CorrectedNext ==
  ASSUME MigrateTypes, CorrectionIs, task.next \in 1..Len(History),
         task'.next = task.next + 1, task'.latest = task.latest,
         task'.correction = Corrected(task.next)
  PROVE  CorrectionIs'
<1> DEFINE n == task.next
<1>0. n \in 1..Len(History) /\ Len(History) \in Nat /\ task.correction \in Int
  BY HistoryIs DEF MigrateTypes, Tasks
<1>1. \A t : Predates(t)' <=> Predates(t)
  BY DEF Predates
<1>2. PICK k \in 0..(n - 1) :
        task.correction = Value(k) /\ \A m \in 1..(n - 1) : m =< k <=> Predates(Time(m))
  BY DEF CorrectionIs
<1>3. k \in Nat /\ k =< n - 1 /\ n \in Nat
  BY <1>0
<1>4. \E j \in 0..n : Corrected(n) = Value(j) /\ \A m \in 1..n : m =< j <=> Predates(Time(m))
  <2>1. CASE Predates(Time(n))
    <3>1. \A m \in 1..(n - 1) : Predates(Time(m))
      <4>1. ASSUME NEW m \in 1..(n - 1)
            PROVE  task.latest # None /\ Time(m) < task.latest
        <5>1. m \in 1..Len(History) /\ m < n
          BY <1>0
        <5>2. Time(m) < Time(n) /\ Time(m) \in Nat /\ Time(n) \in Nat
          BY <1>0, <5>1, HistoryIs
        <5>3. task.latest # None /\ Time(n) < task.latest /\ task.latest \in Nat
          BY <2>1 DEF Predates, MigrateTypes, Tasks
        <5>4. QED
          BY <5>2, <5>3
      <4>2. QED
        BY <4>1 DEF Predates
    <3>2. k = n - 1
      <4>1. CASE n = 1
        BY <1>3, <4>1
      <4>2. CASE n # 1
        <5>1. n - 1 \in 1..(n - 1)
          BY <1>3, <4>2
        <5>2. n - 1 =< k
          BY <1>2, <3>1, <5>1
        <5>3. QED
          BY <1>3, <5>2
      <4>3. QED
        BY <4>1, <4>2
    <3>3. Delta(n) = Value(n) - Value(n - 1) /\ Value(n) \in Int /\ Value(n - 1) \in Int
      <4>1. n \in 0..Len(History) /\ n - 1 \in 0..Len(History)
        BY <1>0
      <4>2. QED
        BY <1>0, <4>1, HistoryIs
    <3>4. Corrected(n) = Value(n - 1) + Delta(n)
      BY <1>2, <2>1, <3>2 DEF Corrected, Time
    <3>5. Corrected(n) = Value(n)
      BY <3>3, <3>4
    <3>6. \A m \in 1..n : m =< n /\ Predates(Time(m))
      <4>1. \A m \in 1..n : m =< n /\ (m = n \/ m \in 1..(n - 1))
        BY <1>3
      <4>2. QED
        BY <2>1, <3>1, <4>1
    <3>7. n \in 0..n
      BY <1>3
    <3> HIDE DEF n
    <3>8. QED
      BY <3>5, <3>6, <3>7
  <2>2. CASE ~Predates(Time(n))
    <3>1. Corrected(n) = Value(k)
      BY <1>0, <1>2, <2>2 DEF Corrected, Time
    <3>2. \A m \in 1..n : m =< k <=> Predates(Time(m))
      <4>1. \A m \in 1..n : m \in 1..(n - 1) \/ (m = n /\ ~(m =< k))
        BY <1>3
      <4>2. QED
        BY <1>2, <2>2, <4>1
    <3>3. k \in 0..n
      BY <1>3
    <3>4. QED
      BY <3>1, <3>2, <3>3
  <2>3. QED
    BY <2>1, <2>2
<1>5. PICK j \in 0..n : Corrected(n) = Value(j) /\ \A m \in 1..n : m =< j <=> Predates(Time(m))
  BY <1>4
<1>6. task'.next - 1 = n
  BY <1>3
<1> HIDE DEF n
<1>7. task'.correction = Value(j) /\ \A m \in 1..n : m =< j <=> Predates(Time(m))'
  <2>1. task'.correction = Value(j)
    BY <1>5 DEF n
  <2>2. \A m : Predates(Time(m))' <=> Predates(Time(m))
    BY DEF Predates, Time
  <2>3. QED
    BY <1>5, <2>1, <2>2
<1>8. QED
  BY <1>5, <1>6, <1>7 DEF CorrectionIs, Value, Time

LEMMA StepMetric ==
  ASSUME MigrateTypes, NEW S, Body(S), MigrateMetric
  PROVE  Body(S)'
<1>0. /\ task.at = "metrics" /\ marks' = marks /\ own' = own
      /\ dropped' = dropped /\ first' = first /\ instant' = instant
  BY DEF MigrateMetric, world, tasks, past
<1>1. /\ task \in Tasks /\ "mark" \in Stages /\ Len(History) \in Nat
  BY HistoryIs DEF MigrateTypes, Stages
<1>2. /\ task.ingest = ("migrated" \notin marks)
      /\ task.ingest => \A n \in 1..Len(History) : n < task.next => Has(n)
      /\ "migrated" \in marks => \A n \in 1..Len(History) : Has(n)
      /\ "corrected" \in marks => "migrated" \in marks
  BY <1>0 DEF Body, Progress
<1>3. Start(S)'
  BY <1>0, BodyIs, KeptStart
<1>4. "corrected" \notin marks => task.latest = LatestOf(S)
  BY <1>0 DEF Body, Aims, Counted
<1>5. "corrected" \notin marks =>
        (task.oldest # None => own.oldest # None /\ task.oldest =< own.oldest)
  BY DEF Body, Aims
<1>6. CASE task.next > Len(History)
  <2>0. To("mark") /\ series' = series
    BY <1>6 DEF MigrateMetric
  <2>1. /\ task'.at = "mark" /\ task'.ingest = task.ingest /\ task'.latest = task.latest
        /\ task'.oldest = task.oldest /\ task'.next = task.next
        /\ task'.correction = task.correction
    BY <1>1, <2>0, ToIs
  <2>2. Content(S)' /\ \A n : Has(n) => Has(n)'
    BY <1>0, <2>0, BodyIs, Quiet
  <2>4. Progress'
    <3>1. task.next = Len(History) + 1
      BY <1>1, <1>6 DEF Tasks
    <3>2. task'.ingest = ("migrated" \notin marks')
      BY <1>0, <1>2, <2>1
    <3>3. task'.ingest => \A n \in 1..Len(History) : n < task'.next => Has(n)'
      BY <1>2, <2>1, <2>2
    <3>4. "migrated" \in marks' => \A n \in 1..Len(History) : Has(n)'
      BY <1>0, <1>2, <2>2
    <3>5. "corrected" \in marks' => "migrated" \in marks'
      BY <1>0, <1>2
    <3>6. task'.next = Len(History) + 1
      BY <2>1, <3>1
    <3>7. QED
      BY <2>1, <3>2, <3>3, <3>4, <3>5, <3>6 DEF Progress, Counted
  <2>5. Aims(S)'
    BY <1>0, <1>4, <1>5, <2>1 DEF Aims, LatestOf
  <2>6. CorrectionIs'
    BY <2>1, BodyIs, SameCorrection
  <2>7. Settled'
    BY <1>0, <2>0, BodyIs, SettledStep
  <2>8. QED
    BY <1>3, <2>2, <2>4, <2>5, <2>6, <2>7 DEF Body
<1>7. CASE ~(task.next > Len(History))
  <2>1. /\ task.next \in 1..Len(History)
        /\ task'.at = "metrics" /\ task'.ingest = task.ingest /\ task'.latest = task.latest
        /\ task'.oldest = task.oldest /\ task'.next = task.next + 1
        /\ task'.correction = Corrected(task.next)
    BY <1>7, MetricNext
  <2>2. /\ Content(S)' /\ \A m : Has(m) => Has(m)'
        /\ task.ingest => \A n \in 1..Len(History) : n = task.next => Has(n)'
        /\ ~task.ingest => series' = series
    <3>1. CASE task.ingest
      <4>1. PICK n \in 1..Len(History) : n = task.next
        BY <2>1
      <4>2. series' = Migrated(n)
        BY <1>7, <3>1, <4>1 DEF MigrateMetric
      <4>3. "corrected" \notin marks
        BY <1>2, <3>1
      <4>4. /\ Content(S)' /\ \A m : Has(m) => Has(m)'
            /\ Has(n)'
        BY <1>0, <4>1, <4>2, <4>3, IngestsMetric
      <4>5. QED
        BY <3>1, <4>1, <4>4
    <3>2. CASE ~task.ingest
      <4>1. series' = series
        BY <1>7, <3>2 DEF MigrateMetric
      <4>2. Content(S)' /\ \A m : Has(m) => Has(m)'
        BY <1>0, <4>1, BodyIs, Quiet
      <4>3. QED
        BY <3>2, <4>1, <4>2
    <3>3. QED
      BY <3>1, <3>2
  <2>4. Progress'
    <3>1. task'.ingest = ("migrated" \notin marks')
      BY <1>0, <1>2, <2>1
    <3>2. task'.ingest => \A n \in 1..Len(History) : n < task'.next => Has(n)'
      <4>1. \A n \in 1..Len(History) : n < task.next + 1 => n < task.next \/ n = task.next
        BY <2>1
      <4>2. QED
        BY <1>2, <2>1, <2>2, <4>1
    <3>3. "migrated" \in marks' => \A n \in 1..Len(History) : Has(n)'
      BY <1>0, <1>2, <2>2
    <3>4. "corrected" \in marks' => "migrated" \in marks'
      BY <1>0, <1>2
    <3>5. QED
      BY <2>1, <3>1, <3>2, <3>3, <3>4 DEF Progress, Counted
  <2>5. Aims(S)'
    BY <1>0, <1>4, <1>5, <2>1 DEF Aims, LatestOf
  <2>6. CorrectionIs'
    BY <2>1, BodyIs, CorrectedNext
  <2>7. Settled'
    <3>1. CASE "migrated" \in marks
      <4>1. series' = series
        BY <1>2, <2>2, <3>1
      <4>2. QED
        BY <1>0, <4>1, BodyIs, SettledStep
    <3>2. CASE "migrated" \notin marks
      BY <1>0, <3>2 DEF Settled
    <3>3. QED
      BY <3>1, <3>2
  <2>8. QED
    BY <1>3, <2>2, <2>4, <2>5, <2>6, <2>7 DEF Body
<1>8. QED
  BY <1>6, <1>7

\* When all metrics were ingested they are there.
LEMMA AllThere ==
  ASSUME MigrateTypes, Progress, task.at = "mark"
  PROVE  \A n \in 1..Len(History) : Has(n)
<1>1. task.next = Len(History) + 1 /\ Len(History) \in Nat
  BY HistoryIs DEF Progress, Counted
<1>2. \A n \in 1..Len(History) : n < task.next
  BY <1>1
<1>3. QED
  BY <1>2 DEF Progress

\* When the migration is marked a query has what it promises.
LEMMA MarksMigrated ==
  ASSUME MigrateTypes, NEW S, Body(S), task.at = "mark",
         marks' = marks \cup {"migrated"}, series' = series, own' = own, dropped' = dropped,
         instant' = instant \/ instant' = instant + 1
  PROVE  Settled'
<1>1. CASE "migrated" \in marks
  BY <1>1, BodyIs, SettledStep
<1>2. CASE "migrated" \notin marks
  <2>1. "corrected" \notin marks /\ \A n \in 1..Len(History) : Has(n)
    BY <1>2, BodyIs, AllThere DEF Progress
  <2>2. AtOf(series, instant) = own.value + Total - Missed
    BY <2>1, BodyIs, Settles
  <2>3. instant \in Nat /\ instant' \in Nat /\ instant =< instant' /\ Series(series, instant)
    BY DEF MigrateTypes
  <2>4. AtOf(series, instant') = AtOf(series, instant)
    BY <2>3, AtLater
  <2>5. At(instant)' = AtOf(series', instant')
    BY AtIs
  <2>6. Missed' = Missed /\ Total' = Total
    BY DEF Missed, Total
  <2>7. QED
    BY <2>2, <2>4, <2>5, <2>6 DEF Settled
<1>3. QED
  BY <1>1, <1>2

LEMMA StepMarkMigrated ==
  ASSUME MigrateTypes, NEW S, Body(S), MarkMigrated
  PROVE  Body(S)'
<1>0. /\ task.at = "mark" /\ series' = series /\ marks' = marks \cup {"migrated"} /\ own' = own
      /\ dropped' = dropped /\ first' = first /\ instant' = instant /\ To("isCorrected")
  BY DEF MarkMigrated, world, tasks, past
<1>1. /\ task'.at = "isCorrected" /\ task'.ingest = task.ingest /\ task'.latest = task.latest
      /\ task'.oldest = task.oldest /\ task'.next = task.next
      /\ task'.correction = task.correction
  BY <1>0, ToIs DEF MigrateTypes, Stages
<1>a. "corrected" \in marks' <=> "corrected" \in marks
  BY <1>0
<1>2. Start(S)'
  BY <1>0, BodyIs, KeptStart
<1>3. Content(S)' /\ \A n : Has(n) => Has(n)'
  BY <1>0, <1>a, BodyIs, Quiet
<1>5. Progress'
  <2>1. \A n \in 1..Len(History) : Has(n)'
    BY <1>0, <1>3, BodyIs, AllThere
  <2>2. task'.next = Len(History) + 1
    BY <1>0, <1>1 DEF Body, Progress, Counted
  <2>3. "migrated" \in marks'
    BY <1>0
  <2>4. QED
    BY <1>1, <2>1, <2>2, <2>3 DEF Progress, Counted
<1>6. Aims(S)'
  <2>1. "corrected" \notin marks =>
          /\ task.latest = LatestOf(S)
          /\ task.oldest # None => own.oldest # None /\ task.oldest =< own.oldest
    BY <1>0 DEF Body, Aims, Counted
  <2>2. QED
    BY <1>0, <1>1, <1>a, <2>1 DEF Aims, LatestOf
<1>7. CorrectionIs'
  BY <1>1, BodyIs, SameCorrection
<1>8. Settled'
  BY <1>0, BodyIs, MarksMigrated
<1>9. QED
  BY <1>2, <1>3, <1>5, <1>6, <1>7, <1>8 DEF Body

LEMMA StepIsCorrected ==
  ASSUME MigrateTypes, NEW S, Body(S), IsCorrected
  PROVE  Body(S)'
<1>0. /\ task.at = "isCorrected" /\ series' = series /\ marks' = marks /\ own' = own
      /\ dropped' = dropped /\ first' = first /\ instant' = instant
  BY DEF IsCorrected, world, tasks, past
<1>1. Start(S)'
  BY <1>0, BodyIs, KeptStart
<1>2. Content(S)' /\ \A n : Has(n) => Has(n)'
  BY <1>0, BodyIs, Quiet
<1>3. /\ \A n \in 1..Len(History) : Has(n)'
      /\ "migrated" \in marks' /\ task.next = Len(History) + 1
  BY <1>0, <1>2 DEF Body, Progress, Counted
<1>4. Settled'
  BY <1>0, BodyIs, SettledStep
<1>5. CASE "corrected" \in marks
  <2>1. task' = NoTask
    BY <1>5 DEF IsCorrected
  <2>2. Progress' /\ Aims(S)' /\ CorrectionIs'
    BY <1>3, <2>1, Restarted
  <2>4. QED
    BY <1>1, <1>2, <1>4, <2>2 DEF Body
<1>6. CASE "corrected" \notin marks
  <2>1. To("correct")
    BY <1>6 DEF IsCorrected
  <2>2. /\ task'.at = "correct" /\ task'.ingest = task.ingest /\ task'.latest = task.latest
        /\ task'.oldest = task.oldest /\ task'.next = task.next
        /\ task'.correction = task.correction
    BY <2>1, ToIs DEF MigrateTypes, Stages
  <2>4. Progress'
    BY <1>0, <1>3, <1>6, <2>2 DEF Progress, Counted
  <2>5. Aims(S)'
    <3>1. /\ task.latest = LatestOf(S)
          /\ task.oldest # None => own.oldest # None /\ task.oldest =< own.oldest
      BY <1>0, <1>6 DEF Body, Aims, Counted
    <3>2. QED
      BY <1>0, <2>2, <3>1 DEF Aims, LatestOf
  <2>6. CorrectionIs'
    BY <2>2, BodyIs, SameCorrection
  <2>7. QED
    BY <1>1, <1>2, <1>4, <2>4, <2>5, <2>6 DEF Body
<1>7. QED
  BY <1>5, <1>6

\* What is ingested as the correction is what the query has not.
LEMMA CorrectionIsMissed ==
  ASSUME MigrateTypes, NEW S, Body(S), task.at = "correct"
  PROVE  task.correction = Missed
<1> DEFINE N == Len(History)
<1>0. N \in Nat /\ "corrected" \notin marks /\ task.next = N + 1
  BY HistoryIs DEF Body, Progress, Counted
<1>1. task.latest = own.latest
  <2>1. task.latest = LatestOf(S)
    BY <1>0 DEF Body, Aims, Counted
  <2>2. QED
    BY <2>1, BodyIs, StartIs, MigrateAssumption
<1>2. PICK k \in 0..N :
        /\ task.correction = Value(k)
        /\ \A m \in 1..N : m =< k <=> (own.latest # None /\ Time(m) < own.latest)
  <2>1. task.next - 1 = N
    BY <1>0
  <2>2. CorrectionIs
    BY DEF Body
  <2> HIDE DEF N
  <2>3. QED
    BY <1>1, <2>1, <2>2 DEF CorrectionIs, Predates
<1>3. PICK l \in 0..N :
        /\ Missed = Value(l)
        /\ \A m \in 1..N : m =< l <=> (own.latest # None /\ Time(m) < own.latest)
  BY BodyIs, MissedIs
<1>4. \A m \in 1..N : m =< k <=> m =< l
  BY <1>2, <1>3
<1>5. k = l
  <2>1. ~(k < l)
    <3>1. k < l => l \in 1..N /\ ~(l =< k) /\ l =< l
      BY <1>0
    <3>2. QED
      BY <1>4, <3>1
  <2>2. ~(l < k)
    <3>1. l < k => k \in 1..N /\ ~(k =< l) /\ k =< k
      BY <1>0
    <3>2. QED
      BY <1>4, <3>1
  <2>3. QED
    BY <1>0, <2>1, <2>2
<1>6. QED
  BY <1>2, <1>3, <1>5

LEMMA IngestsCorrection ==
  ASSUME MigrateTypes, NEW S, Body(S), task.at = "correct",
         series' = Ingested("repair", instant, task.correction),
         own' = own, marks' = marks, first' = first, dropped' = dropped,
         instant' = instant \/ instant' = instant + 1
  PROVE  /\ Content(S)' /\ \A m : Has(m) => Has(m)'
         /\ Settled'
<1>1. Wrote("repair", instant, task.correction)
  BY WritesCorrection
<1>2. /\ instant \in Nat /\ Present =< instant /\ Present \in Nat
      /\ Series(series, instant) /\ Series(series', instant)
      /\ instant' \in Nat /\ instant =< instant'
  BY <1>1, MigrateAssumption DEF MigrateTypes, Wrote
<1>3. <<"repair", instant>> \notin DOMAIN S
  <2>1. ASSUME NEW k \in DOMAIN S
        PROVE  k[2] # instant
    <3>1. k[2] < Present /\ k[2] \in Nat
      BY DEF Body, Start, Series
    <3>2. QED
      BY <1>2, <3>1
  <2>2. QED
    BY <2>1
<1>4. Content(S) /\ task.correction = Missed
  BY CorrectionIsMissed DEF Body
<1>5. Content(S)' /\ \A m : Has(m) => Has(m)'
  <2>1. PICK c, u, w : c = "repair" /\ u = instant /\ w = task.correction
    OBVIOUS
  <2>2. /\ Wrote(c, u, w) /\ <<c, u>> \notin DOMAIN S
        /\ c = "repair" /\ Present =< u /\ w = Missed
    BY <1>1, <1>2, <1>3, <1>4, <2>1
  <2>3. "corrected" \notin marks => first' = None
    BY <1>4 DEF Content
  <2>4. QED
    BY <1>4, <2>2, <2>3, WroteContent
<1>6. AtOf(series', instant) = AtOf(series, instant)
  <2>1. PICK from \in Nat \cup {-1} : IsFrom(series, instant, from)
    BY <1>2, FromExists
  <2>2. /\ TimesOf(series', "snapshot") = TimesOf(series, "snapshot")
        /\ ValuesOf(series', "snapshot") = ValuesOf(series, "snapshot")
    BY <1>1, Unread
  <2>3. IsFrom(series', instant, from)
    BY <2>1, <2>2 DEF IsFrom
  <2>4. BaseOf(series', from) = BaseOf(series, from)
    <3>1. CASE from = -1
      BY <3>1 DEF BaseOf
    <3>2. CASE from # -1
      <4>1. <<"snapshot", from>> \in DOMAIN series
        BY <1>2, <2>1, <3>2, InTimes DEF IsFrom
      <4>2. <<"snapshot", from>> # <<"repair", instant>>
        OBVIOUS
      <4>3. QED
        BY <1>1, <3>2, <4>1, <4>2 DEF BaseOf, Wrote
    <3>3. QED
      BY <3>1, <3>2
  <2>5. FoldedOf(series', from, instant) = FoldedOf(series, from, instant)
    <3>1. SumOf(series', "checkpoint", from, instant) = SumOf(series, "checkpoint", from, instant)
      BY <1>1, Unread
    <3>2. SumOf(series', "correction", from, instant) = SumOf(series, "correction", from, instant)
      BY <1>1, Unread
    <3>3. QED
      BY <3>1, <3>2 DEF FoldedOf
  <2>6. AtOf(series, instant) = BaseOf(series, from) + FoldedOf(series, from, instant)
    BY <1>2, <2>1, AtFrom
  <2>7. AtOf(series', instant) = BaseOf(series', from) + FoldedOf(series', from, instant)
    BY <1>2, <2>3, AtFrom
  <2>8. QED
    BY <2>4, <2>5, <2>6, <2>7
<1>7. Settled'
  <2>1. AtOf(series', instant') = AtOf(series', instant)
    BY <1>2, AtLater
  <2>2. At(instant)' = AtOf(series', instant') /\ At(instant) = AtOf(series, instant)
    BY AtIs
  <2>3. At(instant)' = At(instant)
    BY <1>6, <2>1, <2>2
  <2>4. Missed' = Missed /\ Total' = Total /\ Settled
    BY DEF Missed, Total, Body
  <2>5. QED
    BY <2>3, <2>4 DEF Settled
<1>8. QED
  BY <1>5, <1>7

LEMMA StepIngestCorrection ==
  ASSUME MigrateTypes, NEW S, Body(S), IngestCorrection
  PROVE  Body(S)'
<1>0. /\ task.at = "correct" /\ marks' = marks /\ own' = own
      /\ dropped' = dropped /\ first' = first /\ instant' = instant /\ To("markCorrected")
      /\ series' = Ingested("repair", instant, task.correction)
  BY DEF IngestCorrection, world, tasks, past
<1>1. /\ task'.at = "markCorrected" /\ task'.ingest = task.ingest /\ task'.latest = task.latest
      /\ task'.oldest = task.oldest /\ task'.next = task.next
      /\ task'.correction = task.correction
  BY <1>0, ToIs DEF MigrateTypes, Stages
<1>2. Start(S)'
  BY <1>0, BodyIs, KeptStart
<1>3. Content(S)' /\ Settled' /\ \A n : Has(n) => Has(n)'
  BY <1>0, IngestsCorrection
<1>4. "migrated" \in marks /\ "corrected" \notin marks /\ task.next = Len(History) + 1
  BY <1>0 DEF Body, Progress, Counted
<1>5. Progress'
  <2>1. \A n \in 1..Len(History) : Has(n)'
    BY <1>3, <1>4 DEF Body, Progress
  <2>2. QED
    BY <1>0, <1>1, <1>4, <2>1 DEF Progress, Counted
<1>6. Aims(S)'
  <2>1. /\ task.latest = LatestOf(S)
        /\ task.oldest # None => own.oldest # None /\ task.oldest =< own.oldest
    BY <1>0, <1>4 DEF Body, Aims, Counted
  <2>2. QED
    BY <1>0, <1>1, <2>1 DEF Aims, LatestOf
<1>7. CorrectionIs'
  BY <1>1, BodyIs, SameCorrection
<1>8. QED
  BY <1>2, <1>3, <1>5, <1>6, <1>7 DEF Body

\* The correction is marked, and its answer received or not.
LEMMA MarksCorrection ==
  ASSUME MigrateTypes, NEW S, Body(S), task.at = "markCorrected",
         marks' = marks \cup {"corrected"}, task' = NoTask, series' = series, own' = own,
         first' = first, dropped' = dropped, instant' = instant \/ instant' = instant + 1
  PROVE  Body(S)'
<1>1. Start(S)'
  BY BodyIs, KeptStart
<1>2. Content(S)' /\ \A n : Has(n) => Has(n)'
  BY BodyIs, Quiet
<1>3. "migrated" \in marks /\ "corrected" \notin marks
  BY DEF Body, Progress
<1>4. "migrated" \in marks' /\ \A n \in 1..Len(History) : Has(n)'
  BY <1>2, <1>3 DEF Body, Progress
<1>5. Progress' /\ Aims(S)' /\ CorrectionIs'
  BY <1>4, Restarted
<1>6. Settled'
  BY BodyIs, SettledStep
<1>7. QED
  BY <1>1, <1>2, <1>5, <1>6 DEF Body

LEMMA StepMarkCorrected ==
  ASSUME MigrateTypes, NEW S, Body(S), MarkCorrected
  PROVE  Body(S)'
BY MarksCorrection DEF MarkCorrected, world, tasks, past

\* A task that ends without having done anything leaves what was done before.
LEMMA StepEnds ==
  ASSUME MigrateTypes, NEW S, Body(S), RequestFails
  PROVE  Body(S)'
<1>0. /\ task' = NoTask /\ instant' = instant + 1
      /\ series' = series /\ marks' = marks /\ own' = own
      /\ first' = first /\ dropped' = dropped
  BY DEF RequestFails, Mistake, past
<1>1. Start(S)'
  BY <1>0, BodyIs, KeptStart
<1>2. Content(S)' /\ \A n : Has(n) => Has(n)'
  BY <1>0, BodyIs, Quiet
<1>3. Progress' /\ Aims(S)' /\ CorrectionIs'
  <2>1. "migrated" \in marks' => \A n \in 1..Len(History) : Has(n)'
    BY <1>0, <1>2 DEF Body, Progress
  <2>2. "corrected" \in marks' => "migrated" \in marks'
    BY <1>0 DEF Body, Progress
  <2>3. QED
    BY <1>0, <2>1, <2>2, Restarted
<1>4. Settled'
  BY <1>0, BodyIs, SettledStep
<1>5. QED
  BY <1>1, <1>2, <1>3, <1>4 DEF Body

LEMMA StepAnswerLost ==
  ASSUME MigrateTypes, NEW S, Body(S), AnswerLost
  PROVE  Body(S)'
<1>0. /\ task' = NoTask /\ instant' = instant + 1 /\ own' = own
      /\ first' = first /\ dropped' = dropped
  BY DEF AnswerLost, Mistake, past
<1>1. Start(S)'
  BY <1>0, BodyIs, KeptStart
<1>2. ASSUME task.at = "metrics", task.next =< Len(History), task.ingest,
             series' = Migrated(task.next), marks' = marks
      PROVE  Body(S)'
  <2>1. PICK n \in 1..Len(History) : n = task.next
    BY <1>2, HistoryIs DEF MigrateTypes, Tasks
  <2>2. "migrated" \notin marks /\ "corrected" \notin marks
    BY <1>2 DEF Body, Progress
  <2>3. series' = Migrated(n)
    BY <1>2, <2>1
  <2>4. Content(S)'
    BY <1>0, <1>2, <2>1, <2>2, <2>3, IngestsMetric
  <2>5. Progress' /\ Aims(S)' /\ CorrectionIs'
    BY <1>0, <1>2, <2>2, Restarted
  <2>6. Settled'
    BY <1>2, <2>2 DEF Settled
  <2>7. QED
    BY <1>1, <2>4, <2>5, <2>6 DEF Body
<1>3. ASSUME task.at = "mark", marks' = marks \cup {"migrated"}, series' = series
      PROVE  Body(S)'
  <2>1. Content(S)' /\ \A n : Has(n) => Has(n)'
    BY <1>0, <1>3, BodyIs, Quiet
  <2>2. \A n \in 1..Len(History) : Has(n)'
    BY <1>3, <2>1, BodyIs, AllThere
  <2>3. "migrated" \in marks'
    BY <1>3
  <2>4. Progress' /\ Aims(S)' /\ CorrectionIs'
    BY <1>0, <2>2, <2>3, Restarted
  <2>5. Settled'
    BY <1>0, <1>3, MarksMigrated
  <2>6. QED
    BY <1>1, <2>1, <2>4, <2>5 DEF Body
<1>4. ASSUME task.at = "correct", series' = Ingested("repair", instant, task.correction),
             marks' = marks
      PROVE  Body(S)'
  <2>1. Content(S)' /\ Settled' /\ \A n : Has(n) => Has(n)'
    BY <1>0, <1>4, IngestsCorrection
  <2>2. "migrated" \in marks' => \A n \in 1..Len(History) : Has(n)'
    BY <1>4, <2>1 DEF Body, Progress
  <2>3. "corrected" \in marks' => "migrated" \in marks'
    BY <1>4 DEF Body, Progress
  <2>4. Progress' /\ Aims(S)' /\ CorrectionIs'
    BY <1>0, <2>2, <2>3, Restarted
  <2>5. QED
    BY <1>1, <2>1, <2>4 DEF Body
<1>5. ASSUME task.at = "markCorrected", marks' = marks \cup {"corrected"}, series' = series
      PROVE  Body(S)'
  BY <1>0, <1>5, MarksCorrection
<1>6. QED
  BY <1>2, <1>3, <1>4, <1>5 DEF AnswerLost

LEMMA StaysBody ==
  ASSUME MigrateTypes, NEW S, Body(S), series' = series, marks' = marks, task' = task,
         own' = own, dropped' = dropped, first' = first, instant' = instant \/ instant' = instant + 1
  PROVE  Body(S)'
<1>1. Start(S)'
  BY BodyIs, KeptStart
<1>2. Content(S)' /\ \A n : Has(n) => Has(n)'
  BY BodyIs, Quiet
<1>3. Settled'
  BY BodyIs, SettledStep
<1>4. Progress'
  BY <1>2 DEF Body, Progress
<1>5. Aims(S)'
  BY DEF Body, Aims, LatestOf
<1>6. CorrectionIs'
  BY BodyIs, SameCorrection
<1>7. QED
  BY <1>1, <1>2, <1>3, <1>4, <1>5, <1>6 DEF Body

\* A repair goes past the correction and writes nothing.
LEMMA StepRepair ==
  ASSUME MigrateTypes, NEW S, Body(S), RepairRecords
  PROVE  Body(S)'
BY StaysBody DEF RepairRecords, past

\* A snapshot that leaves nothing behind the master out is one of what a query gave.
LEMMA SnapshotSettled ==
  ASSUME MigrateTypes, Settled, NEW end \in (master + 1)..instant,
         Wrote("snapshot", end, Folds(end)), Since(LastSnapshot(end), master) = {},
         marks' = marks, own' = own, instant' = instant + 1, "migrated" \in marks, ~dropped
  PROVE  Settled'
<1> DEFINE R == series'
<1>0. /\ instant \in Nat /\ instant' \in Nat /\ instant =< instant'
      /\ Series(series, instant) /\ Series(R, instant)
      /\ master \in -1..instant /\ end \in Nat /\ master < end /\ end =< instant
      /\ \A t \in TimesOf(series, "snapshot") : t =< master
  BY DEF MigrateTypes, Behind, Wrote
<1>1. PICK from \in Nat \cup {-1} : IsFrom(series, end, from)
  BY <1>0, FromExists
<1>2. LastSnapshot(end) = from /\ from =< master /\ Folds(end) \in Int
  <2>1. LastSnapshot(end) = from
    BY <1>0, <1>1, LastIs, AtIs
  <2>2. from =< master
    BY <1>0, <1>1 DEF IsFrom
  <2>3. BaseOf(series, from) \in Int
    BY <1>0, <1>1, BaseType
  <2>4. FoldedOf(series, master, end) \in Int
    BY <1>0, FoldedType
  <2>5. QED
    BY <2>1, <2>2, <2>3, <2>4, AtIs DEF Folds
<1>3. IsFrom(series, instant, from)
  <2>1. \A t \in TimesOf(series, "snapshot") : t \in Nat /\ t =< master
    BY <1>0, InTimes
  <2>2. \A t \in TimesOf(series, "snapshot") : t =< end /\ t =< instant
    BY <1>0, <2>1
  <2>3. QED
    BY <1>0, <1>1, <2>2 DEF IsFrom
<1>4. FoldedOf(series, from, instant)
        = FoldedOf(series, from, master) + FoldedOf(series, master, end)
            + FoldedOf(series, end, instant)
  <2>1. FoldedOf(series, from, instant)
          = FoldedOf(series, from, end) + FoldedOf(series, end, instant)
    BY <1>0, <1>2, FoldedParts
  <2>2. FoldedOf(series, from, end)
          = FoldedOf(series, from, master) + FoldedOf(series, master, end)
    BY <1>0, <1>2, FoldedParts
  <2>3. QED
    BY <2>1, <2>2
<1>5. FoldedOf(series, from, master) = 0
  <2>1. \A t \in Times("checkpoint") \cup Times("correction") : ~(from < t /\ t =< master)
    BY <1>2 DEF Since
  <2>2. /\ Between(series, "checkpoint", from, master) = {}
        /\ Between(series, "correction", from, master) = {}
    BY <2>1, AtIs DEF Between
  <2>3. QED
    BY <2>2, SumEmpty DEF FoldedOf, SumOf
<1>6. IsFrom(R, instant', end)
  <2>1. end \in TimesOf(R, "snapshot")
    <3>1. <<"snapshot", end>> \in DOMAIN R
      BY DEF Wrote
    <3>2. QED
      BY <1>0, <3>1, InTimes
  <2>2. \A t \in TimesOf(R, "snapshot") : t \in TimesOf(series, "snapshot") \/ t = end
    BY DEF Wrote, TimesOf
  <2>3. \A t \in TimesOf(series, "snapshot") : t \in Nat /\ t =< master
    BY <1>0, InTimes
  <2>4. \A t \in TimesOf(R, "snapshot") : t =< end
    BY <1>0, <2>2, <2>3
  <2>5. end =< instant'
    BY <1>0
  <2>6. QED
    BY <2>1, <2>4, <2>5 DEF IsFrom
<1>7. BaseOf(R, end) = Folds(end)
  BY <1>0 DEF BaseOf, Wrote
<1>8. FoldedOf(R, end, instant') = FoldedOf(series, end, instant)
  <2>1. ASSUME NEW class \in {"checkpoint", "correction"}
        PROVE  SumOf(R, class, end, instant') = SumOf(series, class, end, instant)
    <3>1. SumOf(R, class, end, instant') = SumOf(series, class, end, instant')
      <4>1. class # "snapshot"
        OBVIOUS
      <4>2. QED
        BY <4>1, Unread
    <3>2. \A t \in TimesOf(series, class) : t \in Nat /\ t =< instant
      BY <1>0, InTimes
    <3>3. Between(series, class, end, instant') = Between(series, class, end, instant)
      BY <1>0, <3>2 DEF Between
    <3>4. QED
      BY <3>1, <3>3 DEF SumOf
  <2>2. QED
    BY <2>1 DEF FoldedOf
<1>9. AtOf(series, instant) = BaseOf(series, from) + FoldedOf(series, from, instant)
  BY <1>0, <1>3, AtFrom
<1>10. AtOf(R, instant') = BaseOf(R, end) + FoldedOf(R, end, instant')
  BY <1>0, <1>6, AtFrom, SeriesLater
<1>11. Folds(end) = BaseOf(series, from) + FoldedOf(series, master, end)
  BY <1>2, AtIs DEF Folds
<1>12. /\ BaseOf(series, from) \in Int /\ FoldedOf(series, master, end) \in Int
       /\ FoldedOf(series, end, instant) \in Int
  <2>1. BaseOf(series, from) \in Int
    BY <1>0, <1>1, BaseType
  <2>2. \A a, b : FoldedOf(series, a, b) \in Int
    BY <1>0, FoldedType
  <2>3. QED
    BY <2>1, <2>2
<1>13. At(instant)' = AtOf(R, instant') /\ At(instant) = AtOf(series, instant)
  BY AtIs
<1> HIDE DEF R
<1>14. At(instant)' = At(instant)
  BY <1>4, <1>5, <1>7, <1>8, <1>9, <1>10, <1>11, <1>12, <1>13
<1>15. Missed' = Missed /\ Total' = Total
  BY DEF Missed, Total
<1>16. QED
  BY <1>14, <1>15 DEF Settled

LEMMA StepSnapshot ==
  ASSUME MigrateTypes, NEW S, Body(S), TakeSnapshot, ~spoiled'
  PROVE  Body(S)'
<1>0. marks' = marks /\ task' = task /\ own' = own /\ instant' = instant + 1
  BY Snapshots
<1>1. PICK end \in (master + 1)..instant :
        /\ end \in Nat /\ master < end
        /\ \/ UNCHANGED <<series, dropped, first>>
           \/ /\ Wrote("snapshot", end, Folds(end))
              /\ spoiled' = (spoiled \/ "corrected" \notin marks)
              /\ dropped' = (dropped \/ Since(LastSnapshot(end), master) # {})
              /\ first' = IF first = None THEN end ELSE first
  BY Snapshots
<1>2. CASE UNCHANGED <<series, dropped, first>>
  BY <1>0, <1>2, StaysBody
<1>3. CASE /\ Wrote("snapshot", end, Folds(end))
           /\ spoiled' = (spoiled \/ "corrected" \notin marks)
           /\ dropped' = (dropped \/ Since(LastSnapshot(end), master) # {})
           /\ first' = IF first = None THEN end ELSE first
  <2>1. "corrected" \in marks
    BY <1>3
  <2>2. /\ instant \in Nat /\ master \in -1..instant
        /\ \A t \in TimesOf(series, "snapshot") : t =< master
        /\ first # None => first \in Nat /\ first =< master
        /\ None \notin Nat /\ Series(series, instant)
    BY MigrateAssumption DEF MigrateTypes, Behind
  <2>3. <<"snapshot", end>> \notin DOMAIN S
    <3>1. ASSUME <<"snapshot", end>> \in DOMAIN S
          PROVE  FALSE
      <4>1. <<"snapshot", end>> \in DOMAIN series
        BY <3>1 DEF Body, Content
      <4>2. end \in TimesOf(series, "snapshot")
        BY <2>2, <4>1, InTimes
      <4>3. QED
        BY <1>1, <2>2, <4>2
    <3>2. QED
      BY <3>1
  <2>4. Start(S)'
    BY <1>0, BodyIs, KeptStart
  <2>5. Content(S)' /\ \A n : Has(n) => Has(n)'
    <3>1. PICK c, u, w : c = "snapshot" /\ u = end /\ w = Folds(end)
      OBVIOUS
    <3>2. first' # None /\ first' =< u /\ (first # None => first' = first)
      BY <1>1, <1>3, <2>2, <3>1
    <3>3. Wrote(c, u, w) /\ <<c, u>> \notin DOMAIN S /\ c = "snapshot"
      BY <1>3, <2>3, <3>1
    <3>4. QED
      BY <1>0, <2>1, <3>2, <3>3, BodyIs, WroteContent
  <2>6. Progress'
    <3>1. \A n \in 1..Len(History) : Has(n)'
      BY <2>1, <2>5 DEF Body, Progress
    <3>2. "migrated" \in marks'
      BY <1>0, <2>1 DEF Body, Progress
    <3>3. QED
      BY <1>0, <3>1, <3>2 DEF Body, Progress
  <2>7. Aims(S)'
    BY <1>0, <2>1 DEF Aims
  <2>8. CorrectionIs'
    BY <1>0, BodyIs, SameCorrection
  <2>9. Settled'
    <3>1. CASE dropped'
      BY <3>1 DEF Settled
    <3>2. CASE ~dropped'
      <4>1. ~dropped /\ Since(LastSnapshot(end), master) = {} /\ "migrated" \in marks
        BY <1>3, <2>1, <3>2 DEF Body, Progress
      <4>2. QED
        BY <1>0, <1>3, <4>1, BodyIs, SnapshotSettled
    <3>3. QED
      BY <3>1, <3>2
  <2>10. QED
    BY <2>4, <2>5, <2>6, <2>7, <2>8, <2>9 DEF Body
<1>4. QED
  BY <1>1, <1>2, <1>3
-----------------------------------------------------------------------------
MigrateInv == MigrateTypes /\ (spoiled \/ \E S : Body(S))

LEMMA MigrateBegins ==
  ASSUME MigrateInit, Begun
  PROVE  MigrateInv
<1>0. /\ marks = {} /\ task = NoTask /\ instant = Present /\ spoiled = FALSE
      /\ dropped = FALSE /\ first = None /\ repaired = 0
      /\ Present \in Nat
  BY MigrateAssumption DEF MigrateInit
<1>1. \A k \in DOMAIN series :
        /\ k \in Classes \X Nat /\ k[1] # "repair" /\ series[k] \in Int
        /\ k[2] < Present /\ \A n \in DOMAIN History : k[2] # History[n][1]
  BY DEF Begun
<1>2. Series(series, Present)
  <2>1. \A k \in DOMAIN series : k[2] \in Nat
    BY <1>1
  <2>2. \A k \in DOMAIN series : k[2] =< Present
    BY <1>0, <1>1, <2>1
  <2>3. QED
    BY <1>1, <2>2 DEF Series, Begun
<1>3. MigrateTypes
  <2>1. task \in Tasks /\ task.at # "oldest"
    BY <1>0, NoTaskIs
  <2>2. instant \in Nat /\ Present =< instant /\ Series(series, instant)
    BY <1>0, <1>2
  <2>3. marks \subseteq {"migrated", "corrected"}
    BY <1>0
  <2>4. spoiled \in BOOLEAN /\ dropped \in BOOLEAN
    BY <1>0
  <2>5. Behind
    <3>1. master \in -1..instant /\ repaired \in 0..instant
      BY <1>0 DEF Begun
    <3>2. \A t \in TimesOf(series, "snapshot") : t =< master
      BY AtIs DEF Begun
    <3>3. task.oldest = None /\ first = None
      BY <1>0, NoTaskIs
    <3>4. QED
      BY <3>1, <3>2, <3>3 DEF Behind
  <2>6. QED
    BY <2>1, <2>2, <2>3, <2>4, <2>5 DEF MigrateTypes
<1>4. Start(series)
  <2>1. own = [value |-> AtOf(series, Present),
               oldest |-> IF TimesOf(series, "snapshot") = {} THEN None
                                                       ELSE Min(TimesOf(series, "snapshot")),
               latest |-> LatestOf(series)]
    BY AtIs DEF Begun, LatestOf
  <2>2. \A k \in DOMAIN series : \A n \in 1..Len(History) : k[2] # Time(n)
    BY <1>1, HistoryIs DEF Time
  <2>3. QED
    BY <1>1, <1>2, <2>1, <2>2 DEF Start
<1>5. Content(series)
  BY <1>0 DEF Content
<1>6. /\ task.at = "idle" /\ task.latest = None /\ task.oldest = None
      /\ task.next = 1 /\ task.correction = 0
  BY <1>0, NoTaskIs
<1>8. Progress
  BY <1>0, <1>6 DEF Progress, Counted
<1>9. Aims(series)
  BY <1>6 DEF Aims, Counted
<1>10. CorrectionIs
  <2>1. 0 \in 0..(1 - 1) /\ \A m : ~(m \in 1..(1 - 1))
    OBVIOUS
  <2>2. Value(0) = 0
    BY DEF Value
  <2>3. QED
    BY <1>6, <2>1, <2>2 DEF CorrectionIs
<1>11. Settled
  BY <1>0 DEF Settled
<1>12. Body(series)
  BY <1>4, <1>5, <1>8, <1>9, <1>10, <1>11 DEF Body
<1>13. QED
  BY <1>3, <1>12 DEF MigrateInv

LEMMA MigrateSteps ==
  ASSUME MigrateInv, [MigrateNext]_migration
  PROVE  MigrateInv'
<1>1. CASE UNCHANGED migration
  <2>1. /\ series' = series /\ marks' = marks /\ task' = task /\ instant' = instant
        /\ spoiled' = spoiled /\ dropped' = dropped /\ first' = first /\ own' = own
        /\ master' = master /\ repaired' = repaired
    BY <1>1 DEF migration, tasks, past
  <2>2. MigrateTypes'
    BY <2>1 DEF MigrateInv, MigrateTypes, Behind, TimesOf
  <2>3. spoiled' \/ \E S : Body(S)'
    BY <2>1, StaysBody DEF MigrateInv
  <2>4. QED
    BY <2>2, <2>3 DEF MigrateInv
<1>2. CASE MigrateNext
  <2>0. MigrateTypes
    BY DEF MigrateInv
  <2>1. MigrateTypes'
    BY <1>2, <2>0, StepTypes
  <2>2. CASE spoiled'
    BY <2>1, <2>2 DEF MigrateInv
  <2>3. CASE ~spoiled'
    <3>1. ~spoiled
      BY <1>2, <2>3 DEF MigrateNext, Migrating, IsMigrated, FindLatestSnapshot,
         FindOldestSnapshot, MigrateMetric, MarkMigrated, IsCorrected, IngestCorrection,
         MarkCorrected, RequestFails, AnswerLost, TakeSnapshot, RepairRecords, world, past
    <3>2. PICK S : Body(S)
      BY <3>1 DEF MigrateInv
    <3>3. Body(S)'
      BY <1>2, <2>0, <2>3, <3>2, StepIsMigrated, StepFindLatest, StepFindOldest, StepMetric,
         StepMarkMigrated, StepIsCorrected, StepIngestCorrection, StepMarkCorrected, StepEnds,
         StepAnswerLost, StepSnapshot, StepRepair DEF MigrateNext, Migrating
    <3>4. QED
      BY <2>1, <3>3 DEF MigrateInv
  <2>4. QED
    BY <2>2, <2>3
<1>3. QED
  BY <1>1, <1>2

LEMMA MigrateInvariant == MigrateSpec => []MigrateInv
<1>1. MigrateInit /\ Begun => MigrateInv
  BY MigrateBegins
<1>2. MigrateInv /\ [MigrateNext]_migration => MigrateInv'
  BY MigrateSteps
<1>3. QED
  BY <1>1, <1>2, PTL DEF MigrateSpec

\* Once the history is migrated a query about the present has, with what version 2
\* counted, what version 1 gained since the latest snapshot, once, and each correction
\* is the rest: for every history, every series of version 2, and every order of
\* failures, restarts, repairs, and snapshots that leave nothing out.
THEOREM MigratedOnceCorrect == MigrateSpec => []MigratedOnce
<1>1. MigrateInv => MigratedOnce
  <2>1. SUFFICES ASSUME MigrateTypes, ~spoiled, NEW S, Body(S)
                 PROVE  /\ "migrated" \in marks /\ ~dropped =>
                             At(instant) = own.value + Total - Missed
                        /\ \A t \in Times("repair") : series[<<"repair", t>>] = Missed
    BY DEF MigrateInv, MigratedOnce, MigrateTypes
  <2>2. "migrated" \in marks /\ ~dropped => At(instant) = own.value + Total - Missed
    BY <2>1 DEF Body, Settled
  <2>3. ASSUME NEW t \in Times("repair")
        PROVE  series[<<"repair", t>>] = Missed
    <3>1. <<"repair", t>> \in DOMAIN series
      BY <2>1, <2>3, AtIs, InTimes DEF MigrateTypes
    <3>2. PICK k \in DOMAIN series : k = <<"repair", t>> /\ k[1] = "repair"
      BY <3>1
    <3>3. Later(k)
      BY <2>1, <3>2 DEF Body, Start, Content, OfHistory
    <3>4. QED
      BY <3>2, <3>3 DEF Later
  <2>4. QED
    BY <2>2, <2>3
<1>2. QED
  BY <1>1, MigrateInvariant, PTL

\* Whatever fails and however often the task is restarted, it is at one of its stages and
\* at a metric of the history, and Warp 10 has records of the four classes only.
THEOREM MigrateTypesCorrect == MigrateSpec => []MigrateTypeOK
<1> DEFINE Bounds == mistakes \in 0..MaxMistakes /\ taken \in 0..MaxSnapshots
<1>1. MigrateInit => Bounds
  BY MigrateAssumption DEF MigrateInit
<1>2. Bounds /\ [MigrateNext]_migration => Bounds'
  <2>1. SUFFICES ASSUME Bounds, [MigrateNext]_migration
                 PROVE  Bounds'
    OBVIOUS
  <2>2. CASE RequestFails \/ AnswerLost
    BY <2>1, <2>2, MigrateAssumption DEF RequestFails, AnswerLost, Mistake
  <2>3. CASE TakeSnapshot
    BY <2>1, <2>3, MigrateAssumption DEF TakeSnapshot
  <2>4. CASE Migrating \/ RepairRecords \/ UNCHANGED migration
    BY <2>1, <2>4 DEF Migrating, IsMigrated, FindLatestSnapshot, FindOldestSnapshot, MigrateMetric,
       MarkMigrated, IsCorrected, IngestCorrection, MarkCorrected, RepairRecords, world, migration
  <2>5. QED
    BY <2>1, <2>2, <2>3, <2>4 DEF MigrateNext
<1>3. MigrateInv /\ Bounds => MigrateTypeOK
  <2>1. SUFFICES ASSUME MigrateTypes, Bounds
                 PROVE  MigrateTypeOK
    BY DEF MigrateInv
  <2>2. \A k \in DOMAIN series : k[1] \in Classes /\ k[2] \in Nat
    BY <2>1 DEF MigrateTypes, Series
  <2>3. task.at \in Stages /\ task.next \in 1..(Len(History) + 1)
    BY <2>1 DEF MigrateTypes, Tasks
  <2>4. QED
    BY <2>1, <2>2, <2>3 DEF MigrateTypeOK, MigrateTypes, Behind
<1> HIDE DEF Bounds
<1>4. QED
  BY <1>1, <1>2, <1>3, MigrateInvariant, PTL DEF MigrateSpec

LEMMA KeptHistory ==
  ASSUME MigrateTypes, NEW S, Start(S), Content(S), \A j \in 1..Len(History) : Has(j),
         NEW n \in 1..Len(History), own.oldest = None \/ Time(n) < own.oldest,
         first = None \/ Time(n) < first, Alone(Time(n))
  PROVE  At(Time(n)) = Value(n)
<1> DEFINE time == Time(n)
<1>0. /\ Series(series, instant) /\ instant \in Nat /\ Len(History) \in Nat
      /\ time \in Nat /\ time < Present /\ Present \in Nat /\ None \notin Nat
  BY HistoryIs, MigrateAssumption DEF MigrateTypes
<1>1. /\ \A t : t \in TimesOf(series, "snapshot") <=> <<"snapshot", t>> \in DOMAIN series
      /\ \A t : t \in TimesOf(series, "checkpoint") <=> <<"checkpoint", t>> \in DOMAIN series
      /\ \A t : t \in TimesOf(series, "correction") <=> <<"correction", t>> \in DOMAIN series
      /\ first # None => first \in Nat
  BY <1>0, InTimes DEF MigrateTypes, Behind
<1>2. PICK from \in Nat \cup {-1} : IsFrom(series, time, from)
  BY <1>0, FromExists
\* The snapshot a query starts from is one of the history.
<1>3. ASSUME NEW t \in TimesOf(series, "snapshot"), t =< time
      PROVE  \E m \in 1..n : t = Time(m)
  <2>0. t \in Nat
    BY <1>0, <1>3, InTimes
  <2>1. PICK x \in DOMAIN series : x = <<"snapshot", t>> /\ x[1] = "snapshot" /\ x[2] = t
    <3>1. <<"snapshot", t>> \in DOMAIN series
      BY <1>1, <1>3
    <3>2. QED
      BY <3>1
  <2>2. x \notin DOMAIN S
    <3>1. ASSUME x \in DOMAIN S
          PROVE  FALSE
      <4>1. t \in TimesOf(S, "snapshot")
        BY <2>1, <3>1 DEF TimesOf
      <4>2. own.oldest \in Nat /\ own.oldest =< t
        BY <4>1, StartIs, MigrateAssumption
      <4>3. Time(n) < own.oldest
        BY <1>0, <4>2
      <4>4. QED
        BY <1>0, <1>3, <2>0, <4>2, <4>3
    <3>2. QED
      BY <3>1
  <2>3. ~Later(x)
    BY <1>0, <1>1, <1>3, <2>0, <2>1 DEF Later
  <2>4. PICK m \in 1..Len(History) : t = Time(m)
    BY <2>1, <2>2, <2>3 DEF Content, OfHistory
  <2>5. ~(n < m)
    <3>1. n < m => Time(n) < Time(m)
      BY HistoryIs
    <3>2. QED
      BY <1>0, <1>3, <2>0, <2>4, <3>1
  <2>6. m \in 1..n
    BY <1>0, <2>5
  <2>7. QED
    BY <2>4, <2>6
<1>4. PICK k \in 0..n : \/ k = 0 /\ from = -1
                        \/ k # 0 /\ from = Time(k) /\ from \in TimesOf(series, "snapshot")
  <2>1. CASE from = -1
    <3>1. 0 \in 0..n
      BY <1>0
    <3>2. QED
      BY <2>1, <3>1
  <2>2. CASE from # -1
    <3>1. from \in TimesOf(series, "snapshot") /\ from =< time
      BY <1>2, <2>2 DEF IsFrom
    <3>2. PICK m \in 1..n : from = Time(m)
      BY <1>3, <3>1
    <3>3. m \in 0..n /\ m # 0
      BY <1>0
    <3>4. QED
      BY <3>1, <3>2, <3>3
  <2>3. QED
    BY <2>1, <2>2
<1>5. k \in 0..Len(History) /\ n \in k..Len(History) /\ k \in Nat /\ n \in 0..Len(History)
  BY <1>0
<1>6. BaseOf(series, from) = Value(k)
  <2>1. CASE k = 0 /\ from = -1
    BY <2>1 DEF BaseOf, Value
  <2>2. CASE k # 0 /\ from = Time(k) /\ from \in TimesOf(series, "snapshot")
    <3>1. k \in 1..Len(History)
      BY <1>5, <2>2
    <3>2. <<"snapshot", Time(k)>> \in DOMAIN series
      BY <1>1, <2>2
    <3>a. ~(first # None /\ first =< Time(k))
      <4>1. from =< time
        BY <1>0, <1>2, <2>2, <3>1, HistoryIs DEF IsFrom
      <4>2. QED
        BY <1>0, <1>1, <2>2, <3>1, <4>1, HistoryIs
    <3>3. series[<<"snapshot", Time(k)>>] = Value(k)
      BY <3>1, <3>2, <3>a, HistoryRecord
    <3>4. from # -1
      BY <2>2, <3>1, HistoryIs
    <3>5. QED
      BY <2>2, <3>3, <3>4 DEF BaseOf
  <2>3. QED
    BY <1>4, <2>1, <2>2
<1>7. Alone(time) /\ DOMAIN History = 1..Len(History)
  BY HistoryIs
<1>a. \A class \in {"checkpoint", "correction"} : \A t \in TimesOf(series, class) :
         t =< time => \E j \in 1..Len(History) : t = Time(j)
  <2>1. ASSUME NEW class \in {"checkpoint", "correction"}, NEW t \in TimesOf(series, class), t =< time
        PROVE  \E j \in 1..Len(History) : t = Time(j)
    <3>1. t \in Nat
      BY <1>0, InTimes
    <3>2. t \in Times(class)
      BY AtIs
    <3>3. t \in Since(-1, time)
      BY <2>1, <3>1, <3>2 DEF Since
    <3>4. QED
      BY <1>7, <3>3 DEF Alone, Time
  <2>2. QED
    BY <2>1
<1>8. Between(series, "correction", from, time) = {}
  <2>1. ASSUME NEW t \in Between(series, "correction", from, time)
        PROVE  FALSE
    <3>1. t \in TimesOf(series, "correction") /\ t =< time
      BY <2>1 DEF Between
    <3>2. PICK j \in 1..Len(History) : t = Time(j)
      BY <1>a, <3>1
    <3>3. <<"correction", Time(j)>> \notin DOMAIN series
      BY HistoryRecord
    <3>4. QED
      BY <1>1, <3>1, <3>2, <3>3
  <2>2. QED
    BY <2>1
<1>9. \A j \in 1..Len(History) : from < Time(j) <=> k < j
  <2>1. ASSUME NEW j \in 1..Len(History)
        PROVE  from < Time(j) <=> k < j
    <3>0. Time(j) \in Nat
      BY HistoryIs
    <3>1. CASE k = 0 /\ from = -1
      BY <3>0, <3>1
    <3>2. CASE k # 0 /\ from = Time(k)
      <4>1. k \in 1..Len(History)
        BY <1>5, <3>2
      <4>2. /\ k < j => Time(k) < Time(j)
            /\ j < k => Time(j) < Time(k)
            /\ k = j => Time(j) = Time(k)
            /\ Time(k) \in Nat
        BY <4>1, HistoryIs
      <4>3. QED
        BY <1>5, <3>0, <3>2, <4>2
    <3>3. QED
      BY <1>4, <3>1, <3>2
  <2>2. QED
    BY <2>1
<1>10. \A j \in 1..Len(History) : Time(j) =< time <=> j =< n
  <2>1. ASSUME NEW j \in 1..Len(History)
        PROVE  Time(j) =< time <=> j =< n
    <3>1. /\ n < j => Time(n) < Time(j)
          /\ j < n => Time(j) < Time(n)
          /\ n = j => Time(j) = Time(n)
          /\ Time(j) \in Nat /\ Time(n) \in Nat
      BY HistoryIs
    <3>2. QED
      BY <3>1
  <2>2. QED
    BY <2>1
<1> DEFINE C == Between(series, "checkpoint", from, time)
           f == ValuesOf(series, "checkpoint")
<1>11. C \subseteq HistoryTimes(k, n)
  <2>1. ASSUME NEW t \in C
        PROVE  t \in HistoryTimes(k, n)
    <3>1. t \in TimesOf(series, "checkpoint") /\ from < t /\ t =< time
      BY <2>1 DEF Between
    <3>2. PICK j \in 1..Len(History) : t = Time(j)
      BY <1>a, <3>1
    <3>3. k < j /\ j =< n
      BY <1>9, <1>10, <3>1, <3>2
    <3>4. j \in (k + 1)..n
      BY <1>5, <3>3
    <3>5. QED
      BY <3>2, <3>4 DEF HistoryTimes
  <2>2. QED
    BY <2>1
<1>12. ASSUME NEW j \in (k + 1)..n
       PROVE  Time(j) \in C /\ f[Time(j)] = Delta(j)
  <2>1. j \in 1..Len(History) /\ k < j /\ j =< n
    BY <1>5
  <2>2. from < Time(j) /\ Time(j) =< time
    BY <1>9, <1>10, <2>1
  <2>3. <<"snapshot", Time(j)>> \notin DOMAIN series
    <3>1. ASSUME Time(j) \in TimesOf(series, "snapshot")
          PROVE  FALSE
      <4>1. Time(j) =< from
        BY <1>2, <2>2, <3>1 DEF IsFrom
      <4>2. Time(j) \in Nat
        BY <2>1, HistoryIs
      <4>3. QED
        BY <2>2, <4>1, <4>2
    <3>2. QED
      BY <1>1, <3>1
  <2>4. <<"checkpoint", Time(j)>> \in DOMAIN series
    BY <2>1, <2>3 DEF Has
  <2>5. series[<<"checkpoint", Time(j)>>] = Delta(j)
    BY <2>1, <2>4, HistoryRecord
  <2>6. Time(j) \in TimesOf(series, "checkpoint")
    BY <1>1, <2>4
  <2>7. QED
    BY <2>2, <2>5, <2>6 DEF Between, ValuesOf
<1>13. C = HistoryTimes(k, n)
  <2>1. HistoryTimes(k, n) \subseteq C
    BY <1>12 DEF HistoryTimes
  <2>2. QED
    BY <1>11, <2>1
<1>14. SumOver(f, C) = Value(n) - Value(k)
  <2>1. \A j \in (k + 1)..n : f[Time(j)] = Delta(j)
    BY <1>12
  <2> HIDE DEF f, C
  <2>2. SumOver(f, {Time(j) : j \in (k + 1)..n}) = Value(n) - Value(k)
    BY <1>5, <2>1, Telescope
  <2>3. QED
    BY <1>13, <2>2 DEF HistoryTimes
<1>15. SumOf(series, "checkpoint", from, time) = Value(n) - Value(k)
  BY <1>14 DEF SumOf
<1>16. SumOf(series, "correction", from, time) = 0
  BY <1>8, SumEmpty DEF SumOf
<1>17. AtOf(series, time) = BaseOf(series, from) + FoldedOf(series, from, time)
  BY <1>0, <1>2, AtFrom
<1>18. Value(n) \in Int /\ Value(k) \in Int
  BY <1>5, HistoryIs
<1>19. AtOf(series, time) = Value(n)
  BY <1>6, <1>15, <1>16, <1>17, <1>18 DEF FoldedOf
<1>20. QED
  BY <1>19, AtIs

\* The history before the first snapshot and the first record of version 2 is what
\* version 1 had, for every history and whatever was ingested again.
THEOREM HistoryKeptCorrect == MigrateSpec => []HistoryKept
<1>1. MigrateInv => HistoryKept
  <2>1. SUFFICES ASSUME MigrateInv, "migrated" \in marks, ~spoiled, NEW n \in DOMAIN History,
                        own.oldest = None \/ History[n][1] < own.oldest,
                        first = None \/ History[n][1] < first, Alone(History[n][1])
                 PROVE  At(History[n][1]) = History[n][2]
    BY DEF HistoryKept
  <2>2. PICK S : Body(S)
    BY <2>1 DEF MigrateInv
  <2>3. n \in 1..Len(History) /\ n # 0
    BY <2>1, HistoryIs
  <2>4. \A j \in 1..Len(History) : Has(j)
    BY <2>1, <2>2 DEF Body, Progress
  <2>5. At(Time(n)) = Value(n)
    BY <2>1, <2>2, <2>3, <2>4, BodyIs, KeptHistory DEF MigrateInv, Time
  <2>6. QED
    BY <2>3, <2>5 DEF Time, Value
<1>2. QED
  BY <1>1, MigrateInvariant, PTL
-----------------------------------------------------------------------------
(***************************************************************************)
(* What a reindex corrects, proved for any buckets, changes and failures.  *)
(*                                                                         *)
(* ReindexRight speaks of what is there when the correction is written.    *)
(* ReindexInv says what holds on the way to it, of buckets that did not    *)
(* change since their listing began: what is counted so far is the weight  *)
(* of the live entries that were seen, the master that is remembered is    *)
(* the last of them, a bucket that was listed has its size and an account  *)
(* the sum of the sizes.                                                   *)
(***************************************************************************)
Entry == Nat \X Nat \X Int
Pairs == Int \X Int
OneEach(E) == \A e, f \in E : e[1] = f[1] /\ e[2] = f[2] => e = f

LEMMA EntryIs ==
  ASSUME NEW e \in Entry
  PROVE  e[1] \in Nat /\ e[2] \in Nat /\ e[3] \in Int /\ e # <<>>
BY DEF Entry

LEMMA AddIs ==
  ASSUME NEW x \in Pairs, NEW y \in Pairs
  PROVE  /\ Add(x, y) \in Pairs /\ Sub(x, y) \in Pairs
         /\ Add(x, y) = Add(y, x) /\ Add(x, NoSum) = x /\ NoSum \in Pairs
         /\ \A z \in Pairs : Add(Add(x, y), z) = Add(x, Add(y, z))
         /\ Sub(Add(x, y), y) = x
BY DEF Pairs, Add, Sub, NoSum

-----------------------------------------------------------------------------
\* The weight of a set of entries, one by one.
LEMMA WeightAdds ==
  ASSUME NEW E, IsFiniteSet(E), E \subseteq Entry, NEW x \in Entry, x \notin E
  PROVE  Weight(E \cup {x}) = Add(Weight(E), <<1, x[3]>>)
<1> DEFINE f == [e \in E |-> e[3]]
           g == [e \in E \cup {x} |-> e[3]]
<1>1. \A y \in E \cup {x} : g[y] \in Int
  BY EntryIs
<1>2. \A y \in E : f[y] \in Int /\ f[y] = g[y]
  BY EntryIs
<1>3. g[x] = x[3]
  OBVIOUS
<1> HIDE DEF f, g
<1>4. SumOver(g, E \cup {x}) = g[x] + SumOver(g, E)
  BY <1>1, SumAdds
<1>5. SumOver(f, E) = SumOver(g, E)
  BY <1>2, SumAgrees
<1>6. SumOver(g, E \cup {x}) = SumOver(f, E) + x[3]
  <2>1. SumOver(f, E) \in Int /\ x[3] \in Int
    BY <1>2, SumType, EntryIs
  <2>2. QED
    BY <1>3, <1>4, <1>5, <2>1
<1>7. Cardinality(E \cup {x}) = Cardinality(E) + 1
  BY FS_AddElement
<1>8. Weight(E) = <<Cardinality(E), SumOver(f, E)>>
      /\ Weight(E \cup {x}) = <<Cardinality(E \cup {x}), SumOver(g, E \cup {x})>>
  BY DEF Weight, f, g
<1>9. QED
  BY <1>6, <1>7, <1>8 DEF Add

LEMMA WeightType ==
  ASSUME NEW E, IsFiniteSet(E), E \subseteq Entry
  PROVE  Weight(E) \in Pairs
<1> DEFINE f == [e \in E |-> e[3]]
<1>1. \A y \in E : f[y] \in Int
  BY EntryIs
<1> HIDE DEF f
<1>2. SumOver(f, E) \in Int /\ Cardinality(E) \in Int
  BY <1>1, SumType, FS_CardinalityType
<1>3. QED
  BY <1>2 DEF Weight, Pairs, f

LEMMA WeightEmpty == Weight({}) = NoSum
<1> DEFINE f == [e \in {} |-> e[3]]
<1> HIDE DEF f
<1>1. SumOver(f, {}) = 0 /\ Cardinality({}) = 0
  BY SumEmpty, FS_EmptySet
<1>2. QED
  BY <1>1 DEF Weight, NoSum, f

LEMMA SumAllType ==
  ASSUME NEW S, IsFiniteSet(S), NEW t, \A x \in S : t[x] \in Pairs
  PROVE  SumAll(t, S) \in Pairs
<1> DEFINE f == [b \in S |-> t[b][1]]
           g == [b \in S |-> t[b][2]]
<1>1. \A x \in S : f[x] \in Int /\ g[x] \in Int
  BY DEF Pairs
<1> HIDE DEF f, g
<1>2. SumOver(f, S) \in Int /\ SumOver(g, S) \in Int
  BY <1>1, SumType
<1>3. QED
  BY <1>2 DEF SumAll, Pairs, f, g

LEMMA SumAllAgrees ==
  ASSUME NEW S, NEW t, NEW u, \A x \in S : t[x] = u[x]
  PROVE  SumAll(t, S) = SumAll(u, S)
<1>1. /\ [b \in S |-> t[b][1]] = [b \in S |-> u[b][1]]
      /\ [b \in S |-> t[b][2]] = [b \in S |-> u[b][2]]
  OBVIOUS
<1>2. QED
  BY <1>1 DEF SumAll

LEMMA SumAllTakes ==
  ASSUME NEW S, IsFiniteSet(S), NEW t, \A x \in S : t[x] \in Pairs, NEW x \in S
  PROVE  SumAll(t, S) = Add(t[x], SumAll(t, S \ {x}))
<1> DEFINE f == [b \in S |-> t[b][1]]
           g == [b \in S |-> t[b][2]]
           h == [b \in S \ {x} |-> t[b][1]]
           k == [b \in S \ {x} |-> t[b][2]]
<1>1. \A y \in S : f[y] \in Int /\ g[y] \in Int
  BY DEF Pairs
<1>2. \A y \in S \ {x} : f[y] = h[y] /\ g[y] = k[y]
  OBVIOUS
<1>3. f[x] = t[x][1] /\ g[x] = t[x][2]
  OBVIOUS
<1> HIDE DEF f, g, h, k
<1>4. SumOver(f, S) = f[x] + SumOver(f, S \ {x})
  BY <1>1, SumTakes
<1>5. SumOver(g, S) = g[x] + SumOver(g, S \ {x})
  BY <1>1, SumTakes
<1>6. IsFiniteSet(S \ {x})
  BY FS_Subset
<1>7. SumOver(f, S \ {x}) = SumOver(h, S \ {x})
  BY <1>1, <1>2, <1>6, SumAgrees
<1>8. SumOver(g, S \ {x}) = SumOver(k, S \ {x})
  BY <1>1, <1>2, <1>6, SumAgrees
<1>9. QED
  BY <1>3, <1>4, <1>5, <1>7, <1>8 DEF SumAll, Add, f, g, h, k

LEMMA SumAllSingle ==
  ASSUME NEW t, NEW x, t[x] \in Pairs
  PROVE  SumAll(t, {x}) = t[x]
<1>1. IsFiniteSet({x}) /\ \A y \in {x} : t[y] \in Pairs
  BY FS_Singleton
<1>2. {x} \ {x} = {}
  OBVIOUS
<1>3. SumAll(t, {x}) = Add(t[x], SumAll(t, {}))
  BY <1>1, <1>2, SumAllTakes
<1>4. SumAll(t, {}) = NoSum
  BY SumEmpty DEF SumAll, NoSum
<1>5. QED
  BY <1>3, <1>4, AddIs
-----------------------------------------------------------------------------
ReindexStages == {"none", "list", "fetch", "write", "done", "failed"}
Progressed == [at : ReindexStages, total : Pairs, marker : Entry \cup {<<>>},
               master : Entry \cup {<<>>}, value : Pairs]

\* What _indexBucket counts of the entries it has seen.
Live(P) ==
  {e \in P : /\ ~IsMarker(e)
             /\ e[2] # 0 \/ \A f \in P : f[1] = e[1] /\ ~IsMarker(f) => f[2] = 0}

Counting(P, i) ==
  /\ i.total = Weight(Live(P))
  /\ i.master # <<>> => i.master \in Live(P) /\ i.master[2] = 0
  /\ \A e \in Live(P) : e[2] = 0 /\ (\A f \in P : f[1] =< e[1]) => i.master = e

LEMMA CountTyped ==
  ASSUME NEW i \in Progressed, NEW e \in Entry
  PROVE  /\ CountEntry(i, e) \in Progressed
         /\ CountEntry(i, e).at = i.at /\ CountEntry(i, e).marker = i.marker
         /\ CountEntry(i, e).value = i.value
<1>1. <<1, e[3]>> \in Pairs
  BY EntryIs DEF Pairs
<1>2. i.total \in Pairs /\ Add(i.total, <<1, e[3]>>) \in Pairs
  BY <1>1, AddIs DEF Progressed
<1>3. CASE IsMarker(e)
  BY <1>3 DEF CountEntry
<1>4. CASE ~IsMarker(e) /\ i.master # <<>> /\ e[1] = i.master[1]
  <2>1. i.master \in Entry
    BY <1>4 DEF Progressed
  <2>2. <<1, i.master[3]>> \in Pairs
    BY <2>1, EntryIs DEF Pairs
  <2>3. Sub(Add(i.total, <<1, e[3]>>), <<1, i.master[3]>>) \in Pairs
    BY <1>2, <2>2, AddIs
  <2> DEFINE n == Sub(Add(i.total, <<1, e[3]>>), <<1, i.master[3]>>)
  <2>4. CountEntry(i, e) = [[i EXCEPT !.total = n] EXCEPT !.master = <<>>]
    BY <1>4 DEF CountEntry
  <2> HIDE DEF n
  <2>5. QED
    BY <2>3, <2>4 DEF Progressed, n
<1>5. CASE ~IsMarker(e) /\ ~(i.master # <<>> /\ e[1] = i.master[1])
  <2> DEFINE n == Add(i.total, <<1, e[3]>>)
             m == IF e[2] = 0 THEN e ELSE i.master
  <2>1. CountEntry(i, e) = [[i EXCEPT !.total = n] EXCEPT !.master = m]
    BY <1>5 DEF CountEntry
  <2>2. n \in Pairs /\ m \in Entry \cup {<<>>}
    BY <1>2 DEF Progressed
  <2> HIDE DEF n, m
  <2>3. QED
    BY <2>1, <2>2 DEF Progressed
<1>6. QED
  BY <1>3, <1>4, <1>5

LEMMA CountMarker ==
  ASSUME NEW P, NEW e, NEW i, IsMarker(e), Counting(P, i)
  PROVE  Counting(P \cup {e}, i)
<1>1. Live(P \cup {e}) = Live(P)
  BY DEF Live
<1>2. QED
  BY <1>1 DEF Counting

\* A version that takes the place of its master.
LEMMA CountVersion ==
  ASSUME NEW P, IsFiniteSet(P), P \subseteq Entry, OneEach(P),
         NEW e \in Entry, \A p \in P : Before(p, e),
         NEW i \in Progressed, Counting(P, i),
         ~IsMarker(e), i.master # <<>>, e[1] = i.master[1]
  PROVE  Counting(P \cup {e}, CountEntry(i, e))
<1> DEFINE m == i.master
           j == CountEntry(i, e)
<1>0. \A x \in P \cup {e} : x \in Entry /\ x[1] \in Nat /\ x[2] \in Nat /\ x[3] \in Int
  BY EntryIs
<1>1. m \in Live(P) /\ m[2] = 0 /\ m \in P /\ ~IsMarker(m)
  BY DEF Counting, Live
<1>2. Before(m, e) /\ e \notin P /\ e[2] # 0
  BY <1>0, <1>1 DEF Before
<1>3. Live(P \cup {e}) = (Live(P) \ {m}) \cup {e}
  <2>1. \A x \in P : x[1] = e[1] /\ x[2] = 0 => x = m
    BY <1>1 DEF OneEach
  <2>2. e \in Live(P \cup {e})
    BY <1>2 DEF Live
  <2>3. m \notin Live(P \cup {e})
    BY <1>1, <1>2 DEF Live
  <2>4. ASSUME NEW x \in P, x # m
        PROVE  x \in Live(P \cup {e}) <=> x \in Live(P)
    BY <2>1, <2>4, <1>0 DEF Live
  <2>5. Live(P \cup {e}) \subseteq P \cup {e} /\ Live(P) \subseteq P
    BY DEF Live
  <2>6. m # e
    BY <1>1, <1>2
  <2>7. QED
    BY <1>2, <2>2, <2>3, <2>4, <2>5, <2>6
<1>4. /\ IsFiniteSet(Live(P) \ {m}) /\ Live(P) \ {m} \subseteq Entry
      /\ e \notin Live(P) \ {m} /\ m \notin Live(P) \ {m}
      /\ (Live(P) \ {m}) \cup {m} = Live(P)
  <2>1. Live(P) \subseteq P
    BY DEF Live
  <2>2. QED
    BY <1>1, <1>2, <2>1, FS_Subset
<1> DEFINE L == Live(P) \ {m}
<1> HIDE DEF L
<1>5. Weight(L \cup {e}) = Add(Weight(L), <<1, e[3]>>)
  BY <1>4, WeightAdds DEF L
<1>6. Weight(Live(P)) = Add(Weight(L), <<1, m[3]>>)
  <2>1. Weight(L \cup {m}) = Add(Weight(L), <<1, m[3]>>)
    BY <1>0, <1>1, <1>4, WeightAdds DEF L
  <2>2. QED
    BY <1>4, <2>1 DEF L
<1>7. j.total = Sub(Add(i.total, <<1, e[3]>>), <<1, m[3]>>) /\ j.master = <<>>
  BY DEF CountEntry, Progressed
<1>8. j.total = Weight(Live(P \cup {e}))
  <2>1. Weight(L) \in Pairs /\ <<1, e[3]>> \in Pairs /\ <<1, m[3]>> \in Pairs
    <3>1. Weight(L) \in Pairs
      BY <1>4, WeightType DEF L
    <3>2. e[3] \in Int /\ m[3] \in Int
      BY <1>0, <1>1
    <3>3. QED
      BY <3>1, <3>2 DEF Pairs
  <2>2. i.total = Add(Weight(L), <<1, m[3]>>)
    BY <1>6 DEF Counting
  <2> DEFINE w == Weight(L)
             x == <<1, e[3]>>
             y == <<1, m[3]>>
  <2> HIDE DEF w, x, y
  <2>3. Sub(Add(Add(w, y), x), y) = Add(w, x)
    BY <2>1 DEF Pairs, Add, Sub, w, x, y
  <2>4. j.total = Add(w, x)
    BY <1>7, <2>2, <2>3 DEF w, x, y
  <2>5. QED
    BY <1>3, <1>5, <2>4 DEF w, x, L
<1>9. ASSUME NEW x \in Live(P \cup {e}), x[2] = 0, \A f \in P \cup {e} : f[1] =< x[1]
      PROVE  FALSE
  <2>1. x \in Live(P) /\ x # m /\ x \in P
    BY <1>1, <1>2, <1>3, <1>9 DEF Live
  <2>2. e[1] =< x[1] /\ Before(x, e)
    BY <1>9, <2>1
  <2>3. x[1] = m[1]
    BY <1>0, <1>1, <2>1, <2>2 DEF Before
  <2>4. QED
    BY <1>1, <1>9, <2>1, <2>3 DEF OneEach
<1>10. QED
  BY <1>7, <1>8, <1>9 DEF Counting

\* Any other object.
LEMMA CountObject ==
  ASSUME NEW P, IsFiniteSet(P), P \subseteq Entry, OneEach(P),
         NEW e \in Entry, \A p \in P : Before(p, e),
         NEW i \in Progressed, Counting(P, i),
         ~IsMarker(e), ~(i.master # <<>> /\ e[1] = i.master[1])
  PROVE  Counting(P \cup {e}, CountEntry(i, e))
<1> DEFINE j == CountEntry(i, e)
<1>0. \A x \in P \cup {e} : x \in Entry /\ x[1] \in Nat /\ x[2] \in Nat /\ x[3] \in Int /\ x # <<>>
  BY EntryIs
<1>1. e \notin P /\ \A p \in P : p[1] =< e[1] /\ (p[1] = e[1] => p[2] < e[2])
  BY <1>0 DEF Before
<1>2. \A x \in Live(P) : x[1] = e[1] => x[2] # 0
  <2>1. ASSUME NEW x \in Live(P), x[1] = e[1], x[2] = 0
        PROVE  FALSE
    <3>1. x \in P /\ \A f \in P : f[1] =< x[1]
      BY <1>1, <2>1 DEF Live
    <3>2. i.master = x
      BY <2>1, <3>1 DEF Counting
    <3>3. QED
      BY <1>0, <2>1, <3>1, <3>2
  <2>2. QED
    BY <2>1
<1>3. Live(P \cup {e}) = Live(P) \cup {e}
  <2>1. e \in Live(P \cup {e})
    <3>1. e[2] # 0 \/ \A f \in P \cup {e} : f[1] = e[1] => f[2] = 0
      <4>1. CASE e[2] = 0
        BY <1>0, <1>1, <4>1
      <4>2. QED
        BY <4>1
    <3>2. QED
      BY <3>1 DEF Live
  <2>2. ASSUME NEW x \in P
        PROVE  x \in Live(P \cup {e}) <=> x \in Live(P)
    <3>1. x \in Live(P) => x \in Live(P \cup {e})
      BY <1>2 DEF Live
    <3>2. x \in Live(P \cup {e}) => x \in Live(P)
      BY DEF Live
    <3>3. QED
      BY <3>1, <3>2
  <2>3. Live(P \cup {e}) \subseteq P \cup {e} /\ Live(P) \subseteq P
    BY DEF Live
  <2>4. QED
    BY <2>1, <2>2, <2>3
<1>4. IsFiniteSet(Live(P)) /\ Live(P) \subseteq Entry /\ e \notin Live(P)
  <2>1. Live(P) \subseteq P
    BY DEF Live
  <2>2. QED
    BY <1>1, <2>1, FS_Subset
<1>5. Weight(Live(P) \cup {e}) = Add(Weight(Live(P)), <<1, e[3]>>)
  BY <1>4, WeightAdds
<1>6. /\ j.total = Add(i.total, <<1, e[3]>>)
      /\ j.master = IF e[2] = 0 THEN e ELSE i.master
  <2> DEFINE n == Add(i.total, <<1, e[3]>>)
             m == IF e[2] = 0 THEN e ELSE i.master
  <2>1. j = [[i EXCEPT !.total = n] EXCEPT !.master = m]
    BY DEF CountEntry
  <2> HIDE DEF n, m
  <2>2. j.total = n /\ j.master = m
    BY <2>1 DEF Progressed
  <2>3. QED
    BY <2>2 DEF n, m
<1> HIDE DEF j
<1>7. j.total = Weight(Live(P \cup {e}))
  BY <1>3, <1>5, <1>6 DEF Counting
<1>8. j.master # <<>> => j.master \in Live(P \cup {e}) /\ j.master[2] = 0
  BY <1>3, <1>6 DEF Counting
<1>9. ASSUME NEW x \in Live(P \cup {e}), x[2] = 0, \A f \in P \cup {e} : f[1] =< x[1]
      PROVE  j.master = x
  <2>1. CASE x = e
    BY <1>6, <1>9, <2>1
  <2>2. CASE x # e
    <3>1. x \in Live(P) /\ x \in P
      BY <1>3, <2>2 DEF Live
    <3>2. e[1] =< x[1] /\ x[1] =< e[1]
      BY <1>1, <1>9, <3>1
    <3>3. QED
      BY <1>0, <1>2, <1>9, <3>1, <3>2
  <2>3. QED
    BY <2>1, <2>2
<1>10. QED
  BY <1>7, <1>8, <1>9 DEF Counting, j

LEMMA CountStep ==
  ASSUME NEW P, IsFiniteSet(P), P \subseteq Entry, OneEach(P),
         NEW e \in Entry, \A p \in P : Before(p, e),
         NEW i \in Progressed, Counting(P, i)
  PROVE  Counting(P \cup {e}, CountEntry(i, e))
<1>1. CASE IsMarker(e)
  BY <1>1, CountMarker DEF CountEntry
<1>2. QED
  BY <1>1, CountVersion, CountObject
-----------------------------------------------------------------------------
Below(E, e) == {f \in E : Before(f, e)}

LEMMA BeforeOrders ==
  ASSUME NEW e \in Entry, NEW f \in Entry
  PROVE  /\ ~Before(e, e)
         /\ ~(Before(e, f) /\ Before(f, e))
         /\ Before(e, f) \/ Before(f, e) \/ (e[1] = f[1] /\ e[2] = f[2])
         /\ \A g \in Entry : Before(e, f) /\ Before(f, g) => Before(e, g)
         /\ \A g \in Entry : ~Before(f, e) /\ Before(f, g) => Before(e, g)
<1>1. \A g \in Entry : g[1] \in Nat /\ g[2] \in Nat
  BY EntryIs
<1>2. ~Before(e, e) /\ ~(Before(e, f) /\ Before(f, e))
  BY <1>1 DEF Before
<1>3. Before(e, f) \/ Before(f, e) \/ (e[1] = f[1] /\ e[2] = f[2])
  BY <1>1 DEF Before
<1>4. \A g \in Entry : Before(e, f) /\ Before(f, g) => Before(e, g)
  BY <1>1 DEF Before
<1>5. \A g \in Entry : ~Before(f, e) /\ Before(f, g) => Before(e, g)
  BY <1>1 DEF Before
<1>6. QED
  BY <1>2, <1>3, <1>4, <1>5

LEMMA BelowGrows ==
  ASSUME NEW E, IsFiniteSet(E), E \subseteq Entry, NEW e \in E, NEW f \in E, Before(e, f)
  PROVE  Below(E, e) \cup {e} \subseteq Below(E, f) /\ Cardinality(Below(E, e)) < Cardinality(Below(E, f))
<1>1. Below(E, e) \cup {e} \subseteq Below(E, f) /\ e \notin Below(E, e)
  BY BeforeOrders DEF Below
<1>2. IsFiniteSet(Below(E, e)) /\ IsFiniteSet(Below(E, f))
  BY FS_Subset DEF Below
<1>3. Cardinality(Below(E, e) \cup {e}) = Cardinality(Below(E, e)) + 1
  BY <1>1, <1>2, FS_AddElement
<1>4. Cardinality(Below(E, e) \cup {e}) =< Cardinality(Below(E, f))
  BY <1>1, <1>2, FS_Subset
<1>5. Cardinality(Below(E, e)) \in Nat /\ Cardinality(Below(E, f)) \in Nat
  BY <1>2, FS_CardinalityType
<1>6. QED
  BY <1>1, <1>3, <1>4, <1>5

\* Of a set of entries, one has as many before it as one likes.
LEMMA NthExists ==
  ASSUME NEW E, IsFiniteSet(E), E \subseteq Entry, OneEach(E), NEW n \in 1..Cardinality(E)
  PROVE  \E e \in E : Cardinality(Below(E, e)) = n - 1
<1> DEFINE c == Cardinality(E)
           T == 0..(c - 1)
           f == [e \in E |-> Cardinality(Below(E, e))]
<1>0. c \in Nat
  BY FS_CardinalityType
<1>1. f \in [E -> T]
  <2>1. ASSUME NEW e \in E
        PROVE  Cardinality(Below(E, e)) \in T
    <3>1. Below(E, e) \subseteq E \ {e}
      BY BeforeOrders DEF Below
    <3>2. IsFiniteSet(E \ {e}) /\ Cardinality(E \ {e}) = c - 1
      BY FS_RemoveElement
    <3>3. IsFiniteSet(Below(E, e)) /\ Cardinality(Below(E, e)) =< c - 1
      BY <3>1, <3>2, FS_Subset
    <3>4. Cardinality(Below(E, e)) \in Nat
      BY <3>3, FS_CardinalityType
    <3>5. QED
      BY <1>0, <3>3, <3>4
  <2>2. QED
    BY <2>1
<1>2. \A x, y \in E : f[x] = f[y] => x = y
  <2>1. ASSUME NEW x \in E, NEW y \in E, x # y
        PROVE  Cardinality(Below(E, x)) # Cardinality(Below(E, y))
    <3>1. Before(x, y) \/ Before(y, x)
      BY <2>1, BeforeOrders DEF OneEach
    <3>2. /\ Before(x, y) => Cardinality(Below(E, x)) < Cardinality(Below(E, y))
          /\ Before(y, x) => Cardinality(Below(E, y)) < Cardinality(Below(E, x))
      BY BelowGrows
    <3>3. IsFiniteSet(Below(E, x)) /\ IsFiniteSet(Below(E, y))
      BY FS_Subset DEF Below
    <3>4. Cardinality(Below(E, x)) \in Nat /\ Cardinality(Below(E, y)) \in Nat
      BY <3>3, FS_CardinalityType
    <3>5. QED
      BY <3>1, <3>2, <3>4
  <2>2. QED
    BY <2>1
<1> HIDE DEF f
<1>3. f \in Injection(E, T)
  <2> HIDE DEF T
  <2>1. QED
    BY <1>1, <1>2 DEF Injection, IsInjective
<1>4. IsFiniteSet(T) /\ Cardinality(T) = c
  <2>1. PICK d \in Int : d = c - 1
    BY <1>0
  <2>2. IsFiniteSet(0..d) /\ Cardinality(0..d) = IF 0 > d THEN 0 ELSE d - 0 + 1
    BY FS_Interval
  <2>3. QED
    BY <1>0, <2>1, <2>2
<1>5. f \in Surjection(E, T)
  BY <1>3, <1>4, FS_Injection
<1>6. n - 1 \in T
  BY <1>0
<1>7. \E e \in E : f[e] = n - 1
  BY <1>5, <1>6 DEF Surjection
<1>8. QED
  BY <1>7 DEF f

\* What a listing begins with.
Pages(E, p) ==
  /\ DOMAIN p = 1..Len(p) /\ Len(p) \in Nat /\ p \in Seq(E)
  /\ \A n \in 1..Len(p) : p[n] \in E /\ Cardinality(Below(E, p[n])) = n - 1
  /\ Len(p) # PageSize => Len(p) = Cardinality(E)

RestOf(E, marker) == {e \in E : marker = <<>> \/ Before(marker, e)}

LEMMA PageIs ==
  ASSUME NEW b, Listable(metadata[b]), NEW marker
  PROVE  Pages(RestOf(metadata[b], marker), PageAfter(b, marker))
<1> DEFINE E == RestOf(metadata[b], marker)
           k == IF Cardinality(E) < PageSize THEN Cardinality(E) ELSE PageSize
           N(n) == CHOOSE e \in E : Cardinality({f \in E : Before(f, e)}) = n - 1
           p == [n \in 1..k |-> N(n)]
<1>1. PageAfter(b, marker) = p
  BY DEF PageAfter, RestOf
<1>2. IsFiniteSet(E) /\ E \subseteq Entry /\ OneEach(E)
  <2>1. E \subseteq metadata[b]
    BY DEF RestOf
  <2>2. QED
    BY <2>1, FS_Subset DEF Listable, OneEach, Entry
<1>3. Cardinality(E) \in Nat /\ PageSize \in Nat
  BY <1>2, FS_CardinalityType, ReindexAssumption
<1>4. k \in Nat /\ (k # PageSize => k = Cardinality(E)) /\ k =< Cardinality(E)
  BY <1>3
<1> HIDE DEF E, k
<1>5. ASSUME NEW n \in 1..k
      PROVE  N(n) \in E /\ Cardinality(Below(E, N(n))) = n - 1
  <2>1. n \in 1..Cardinality(E)
    BY <1>3, <1>4
  <2>2. \E e \in E : Cardinality({f \in E : Before(f, e)}) = n - 1
    BY <1>2, <2>1, NthExists DEF Below
  <2>3. QED
    BY <2>2 DEF Below
<1> HIDE DEF N
<1>6. p \in [1..k -> E]
  BY <1>5
<1>7. p \in Seq(E) /\ Len(p) = k
  BY <1>4, <1>6
<1>8. QED
  BY <1>1, <1>4, <1>5, <1>7 DEF Pages, E

LEMMA PageOrder ==
  ASSUME NEW E, IsFiniteSet(E), E \subseteq Entry, OneEach(E), NEW p, Pages(E, p)
  PROVE  /\ Len(p) > 0 => Below(E, p[1]) = {}
         /\ \A n \in 1..(Len(p) - 1) : Below(E, p[n + 1]) = Below(E, p[n]) \cup {p[n]}
         /\ Len(p) > 0 /\ Len(p) # PageSize => Below(E, p[Len(p)]) \cup {p[Len(p)]} = E
         /\ Len(p) = 0 /\ Len(p) # PageSize => E = {}
<1>0. Len(p) \in Nat /\ \A n \in 1..Len(p) : p[n] \in E /\ Cardinality(Below(E, p[n])) = n - 1
  BY DEF Pages
<1>a. \A e \in E : IsFiniteSet(Below(E, e)) /\ e \notin Below(E, e)
  BY FS_Subset, BeforeOrders DEF Below
<1>b. \A e \in E : Cardinality(Below(E, e) \cup {e}) = Cardinality(Below(E, e)) + 1
  BY <1>a, FS_AddElement
<1>1. Len(p) > 0 => Below(E, p[1]) = {}
  <2>1. ASSUME Len(p) > 0
        PROVE  Below(E, p[1]) = {}
    <3>1. p[1] \in E /\ Cardinality(Below(E, p[1])) = 0
      BY <1>0, <2>1
    <3>2. IsFiniteSet(Below(E, p[1]))
      BY <1>a, <3>1
    <3>3. QED
      BY <3>1, <3>2, FS_EmptySet
  <2>2. QED
    BY <2>1
<1>2. ASSUME NEW n \in 1..(Len(p) - 1)
      PROVE  Below(E, p[n + 1]) = Below(E, p[n]) \cup {p[n]}
  <2>1. /\ p[n] \in E /\ Cardinality(Below(E, p[n])) = n - 1
        /\ p[n + 1] \in E /\ Cardinality(Below(E, p[n + 1])) = n
    BY <1>0
  <2>2. ~Before(p[n + 1], p[n])
    <3>1. Before(p[n + 1], p[n]) => Cardinality(Below(E, p[n + 1])) < Cardinality(Below(E, p[n]))
      BY <2>1, BelowGrows
    <3>2. QED
      BY <2>1, <3>1
  <2>3. p[n] # p[n + 1]
    BY <2>1
  <2>4. Before(p[n], p[n + 1])
    BY <2>1, <2>2, <2>3, BeforeOrders DEF OneEach
  <2>5. Below(E, p[n]) \cup {p[n]} \subseteq Below(E, p[n + 1])
    BY <2>1, <2>4, BelowGrows
  <2>6. Cardinality(Below(E, p[n]) \cup {p[n]}) = Cardinality(Below(E, p[n + 1]))
    BY <1>b, <2>1
  <2>7. IsFiniteSet(Below(E, p[n + 1]))
    BY <1>a, <2>1
  <2>8. QED
    BY <2>5, <2>6, <2>7, FS_Subset
<1>3. ASSUME Len(p) > 0, Len(p) # PageSize
      PROVE  Below(E, p[Len(p)]) \cup {p[Len(p)]} = E
  <2>1. /\ p[Len(p)] \in E /\ Cardinality(Below(E, p[Len(p)])) = Len(p) - 1
        /\ Len(p) = Cardinality(E)
    BY <1>0, <1>3 DEF Pages
  <2>2. Cardinality(Below(E, p[Len(p)]) \cup {p[Len(p)]}) = Cardinality(E)
    BY <1>0, <1>b, <2>1
  <2>3. Below(E, p[Len(p)]) \cup {p[Len(p)]} \subseteq E
    BY <2>1 DEF Below
  <2>4. QED
    BY <2>2, <2>3, FS_Subset
<1>4. ASSUME Len(p) = 0, Len(p) # PageSize
      PROVE  E = {}
  BY <1>4, FS_EmptySet DEF Pages
<1>5. QED
  BY <1>1, <1>2, <1>3, <1>4
-----------------------------------------------------------------------------
\* How FoldLeft counts a page.
CountAll(i, p) == FoldLeft(CountEntry, i, p)

Left(i, p, g, s) == IF s = {} THEN i ELSE CountEntry(g[s \ {Max(s)}], p[Max(s)])

Lefts(i, p, g) == g = [s \in SUBSET DOMAIN p |-> Left(i, p, g, s)]

LEMMA LeftIs ==
  ASSUME NEW i, NEW p
  PROVE  CountAll(i, p) = (CHOOSE g : Lefts(i, p, g))[DOMAIN p]
BY DEF CountAll, FoldLeft, MapThenFoldSet, Lefts, Left

LEMMA LeftExists ==
  ASSUME NEW i, NEW p, NEW c \in Nat, DOMAIN p = 1..c
  PROVE  \E g : Lefts(i, p, g)
<1> DEFINE S == DOMAIN p
           Upto(g, n) == \A s \in SUBSET S : Cardinality(s) =< n => g[s] = Left(i, p, g, s)
           N == {n \in Nat : \E g : DOMAIN g = SUBSET S /\ g = [s \in SUBSET S |-> g[s]] /\ Upto(g, n)}
<1>0. IsFiniteSet(S)
  BY FS_Interval
<1>a. \A s \in SUBSET S : s # {} => /\ Max(s) \in s /\ s \ {Max(s)} \in SUBSET S
                                    /\ Cardinality(s \ {Max(s)}) = Cardinality(s) - 1
  <2>1. ASSUME NEW s \in SUBSET S, s # {}
        PROVE  Max(s) \in s
    <3>1. s \subseteq 0..c
      OBVIOUS
    <3>2. QED
      BY <2>1, <3>1, MaxIs
  <2>2. QED
    BY <1>0, <2>1, Sizes
<1>b. \A s \in SUBSET S : Cardinality(s) \in Nat /\ (Cardinality(s) = 0 <=> s = {})
  BY <1>0, Sizes
<1> HIDE DEF S
<1>1. 0 \in N
  <2> DEFINE g == [s \in SUBSET S |-> i]
  <2>1. DOMAIN g = SUBSET S /\ g = [s \in SUBSET S |-> g[s]]
    OBVIOUS
  <2>2. Upto(g, 0)
    BY <1>b DEF Left
  <2>3. QED
    BY <2>1, <2>2
<1>2. ASSUME NEW n \in Nat, n \in N
      PROVE  n + 1 \in N
  <2>1. PICK g : DOMAIN g = SUBSET S /\ g = [s \in SUBSET S |-> g[s]] /\ Upto(g, n)
    BY <1>2
  <2> DEFINE h == [s \in SUBSET S |-> IF Cardinality(s) =< n THEN g[s] ELSE Left(i, p, g, s)]
  <2>2. DOMAIN h = SUBSET S /\ h = [s \in SUBSET S |-> h[s]]
    OBVIOUS
  <2>3. Upto(h, n + 1)
    <3>1. SUFFICES ASSUME NEW s \in SUBSET S, Cardinality(s) =< n + 1
                   PROVE  h[s] = Left(i, p, h, s)
      OBVIOUS
    <3>2. Left(i, p, g, s) = Left(i, p, h, s)
      <4>1. CASE s = {}
        BY <4>1 DEF Left
      <4>2. CASE s # {}
        <5>1. s \ {Max(s)} \in SUBSET S /\ Cardinality(s \ {Max(s)}) =< n
          BY <1>a, <1>b, <3>1, <4>2
        <5>2. h[s \ {Max(s)}] = g[s \ {Max(s)}]
          BY <5>1
        <5>3. QED
          BY <4>2, <5>2 DEF Left
      <4>3. QED
        BY <4>1, <4>2
    <3>3. h[s] = Left(i, p, g, s)
      BY <2>1
    <3>4. QED
      BY <3>2, <3>3
  <2> HIDE DEF h, Upto
  <2>4. QED
    BY <2>2, <2>3
<1>3. Cardinality(S) \in N
  <2> HIDE DEF N
  <2>1. Nat \subseteq N
    BY <1>1, <1>2, NatSetInduction
  <2>2. QED
    BY <1>0, <2>1, FS_CardinalityType
<1>4. PICK g : DOMAIN g = SUBSET S /\ g = [s \in SUBSET S |-> g[s]] /\ Upto(g, Cardinality(S))
  BY <1>3
<1>5. \A s \in SUBSET S : g[s] = Left(i, p, g, s)
  BY <1>0, <1>4, FS_Subset
<1>6. g = [s \in SUBSET S |-> Left(i, p, g, s)]
  BY <1>4, <1>5
<1>7. QED
  BY <1>6 DEF Lefts, S

\* The counts after each entry of a page.
Counts(i, p, c, g) ==
  /\ g[0] = i /\ CountAll(i, p) = g[c]
  /\ \A n \in 1..c : g[n] = CountEntry(g[n - 1], p[n])

LEMMA CountsOf ==
  ASSUME NEW i, NEW p, NEW c \in Nat, DOMAIN p = 1..c
  PROVE  \E g : Counts(i, p, c, g)
<1> DEFINE h == CHOOSE g : Lefts(i, p, g)
           g == [n \in 0..c |-> h[1..n]]
<1>1. Lefts(i, p, h)
  BY LeftExists
<1>2. CountAll(i, p) = h[1..c]
  BY LeftIs
<1> HIDE DEF h
<1>3. \A s \in SUBSET (1..c) : h[s] = Left(i, p, h, s)
  BY <1>1 DEF Lefts
<1>4. h[1..0] = i
  <2>1. 1..0 \in SUBSET (1..c) /\ 1..0 = {}
    OBVIOUS
  <2>2. QED
    BY <1>3, <2>1 DEF Left
<1>5. ASSUME NEW n \in 1..c
      PROVE  h[1..n] = CountEntry(h[1..(n - 1)], p[n])
  <2>1. 1..n \in SUBSET (1..c) /\ 1..n # {} /\ 1..n \subseteq 0..c
    OBVIOUS
  <2> DEFINE T == 1..n
             m == Max(T)
  <2>2. m \in T /\ \A y \in T : m >= y
    <3> HIDE DEF T
    <3>1. QED
      BY <2>1, MaxIs DEF T
  <2> HIDE DEF m
  <2>3. m = n
    BY <2>2
  <2>4. T \ {n} = 1..(n - 1)
    OBVIOUS
  <2>5. h[T] = CountEntry(h[T \ {m}], p[m])
    BY <1>3, <2>1 DEF Left, m
  <2>6. QED
    BY <2>3, <2>4, <2>5
<1>6. /\ g[0] = i /\ CountAll(i, p) = g[c]
      /\ \A n \in 1..c : g[n] = CountEntry(g[n - 1], p[n])
  BY <1>2, <1>4, <1>5
<1> HIDE DEF g
<1>7. QED
  BY <1>6 DEF Counts

SeenOf(E, marker) == {e \in E : marker # <<>> /\ ~Before(marker, e)}

LEMMA HeldIs ==
  ASSUME NEW E, Listable(E)
  PROVE  Held(E) = Weight(Live(E))
<1>1. ASSUME NEW e \in E, ~IsMarker(e), e[2] = 0
      PROVE  (\A f \in E : f[1] = e[1] => f[2] = 0)
               <=> (\A f \in E : f[1] = e[1] /\ ~IsMarker(f) => f[2] = 0)
  BY <1>1 DEF Listable
<1>2. Live(E) = {e \in E : /\ ~IsMarker(e)
                           /\ e[2] # 0 \/ \A f \in E : f[1] = e[1] => f[2] = 0}
  BY <1>1 DEF Live
<1>3. QED
  BY <1>2 DEF Held

\* The entries of a bucket up to the marker and after it.
LEMMA SeenAndRest ==
  ASSUME NEW M, Listable(M), NEW marker \in Entry \cup {<<>>}
  PROVE  /\ IsFiniteSet(SeenOf(M, marker)) /\ SeenOf(M, marker) \subseteq Entry
         /\ IsFiniteSet(RestOf(M, marker)) /\ RestOf(M, marker) \subseteq Entry
         /\ OneEach(M) /\ OneEach(RestOf(M, marker))
         /\ SeenOf(M, marker) \cup RestOf(M, marker) = M
         /\ \A e \in SeenOf(M, marker), f \in RestOf(M, marker) : Before(e, f)
<1>1. IsFiniteSet(M) /\ M \subseteq Entry /\ OneEach(M)
  BY DEF Listable, OneEach, Entry
<1>2. SeenOf(M, marker) \cup RestOf(M, marker) = M
  BY DEF SeenOf, RestOf
<1>3. ASSUME NEW e \in SeenOf(M, marker), NEW f \in RestOf(M, marker)
      PROVE  Before(e, f)
  <2>1. marker \in Entry /\ ~Before(marker, e) /\ Before(marker, f)
    BY DEF SeenOf, RestOf
  <2>2. e \in Entry /\ f \in Entry
    BY <1>1, <1>2
  <2>3. QED
    BY <2>1, <2>2, BeforeOrders
<1>4. IsFiniteSet(SeenOf(M, marker)) /\ IsFiniteSet(RestOf(M, marker))
  BY <1>1, <1>2, FS_Subset
<1>5. QED
  BY <1>1, <1>2, <1>3, <1>4 DEF OneEach

Further(P, E, i, p, j) ==
  /\ j = CountAll(i, p) /\ j \in Progressed
  /\ j.at = i.at /\ j.marker = i.marker /\ j.value = i.value
  /\ Counting(P, i) =>
       Counting(P \cup (IF Len(p) = 0 THEN {} ELSE Below(E, p[Len(p)]) \cup {p[Len(p)]}), j)

\* A page is counted on top of what was counted before.
LEMMA CountFrom ==
  ASSUME NEW P, IsFiniteSet(P), P \subseteq Entry, NEW E, IsFiniteSet(E), E \subseteq Entry,
         OneEach(P \cup E), OneEach(E), \A e \in P, f \in E : Before(e, f),
         NEW p, Pages(E, p), NEW i \in Progressed
  PROVE  \E j : Further(P, E, i, p, j)
<1> DEFINE U(n) == IF n = 0 THEN {} ELSE Below(E, p[n]) \cup {p[n]}
<1>1. /\ DOMAIN p = 1..Len(p) /\ Len(p) \in Nat
      /\ \A n \in 1..Len(p) : p[n] \in E
  BY DEF Pages
<1>3. /\ DOMAIN p = 1..Len(p) /\ Len(p) \in Nat
      /\ \A n \in 1..Len(p) : p[n] \in E /\ p[n] \in Entry
  BY <1>1
<1>4. PICK g : /\ g[0] = i /\ CountAll(i, p) = g[Len(p)]
               /\ \A n \in 1..Len(p) : g[n] = CountEntry(g[n - 1], p[n])
  <2>1. PICK c \in Nat : c = Len(p)
    BY <1>3
  <2>2. DOMAIN p = 1..c
    BY <1>3, <2>1
  <2>3. \E g : Counts(i, p, c, g)
    BY <2>2, CountsOf
  <2>4. PICK g : Counts(i, p, c, g)
    BY <2>3
  <2>5. /\ g[0] = i /\ CountAll(i, p) = g[c]
        /\ \A n \in 1..c : g[n] = CountEntry(g[n - 1], p[n])
    BY <2>4 DEF Counts
  <2> HIDE DEF U
  <2>6. QED
    BY <2>1, <2>5
<1>5. /\ Len(p) > 0 => Below(E, p[1]) = {}
      /\ \A n \in 1..(Len(p) - 1) : Below(E, p[n + 1]) = Below(E, p[n]) \cup {p[n]}
      /\ Len(p) > 0 /\ Len(p) # PageSize => Below(E, p[Len(p)]) \cup {p[Len(p)]} = E
      /\ Len(p) = 0 /\ Len(p) # PageSize => E = {}
  BY PageOrder
<1>6. \A n \in Nat : n < Len(p) => U(n) = Below(E, p[n + 1])
  <2>1. ASSUME NEW n \in Nat, n < Len(p)
        PROVE  U(n) = Below(E, p[n + 1])
    <3>1. CASE n = 0
      BY <1>5, <2>1, <3>1
    <3>2. CASE n # 0
      <4>1. n \in 1..(Len(p) - 1)
        BY <1>3, <2>1, <3>2
      <4>2. QED
        BY <1>5, <3>2, <4>1
    <3>3. QED
      BY <3>1, <3>2
  <2>2. QED
    BY <2>1
<1> DEFINE Fine(n) == /\ g[n] \in Progressed
                      /\ g[n].at = i.at /\ g[n].marker = i.marker /\ g[n].value = i.value
                      /\ Counting(P, i) => Counting(P \cup U(n), g[n])
           N == {n \in Nat : n =< Len(p) => Fine(n)}
<1>7. 0 \in N
  <2>1. P \cup U(0) = P
    OBVIOUS
  <2>2. QED
    BY <1>4, <2>1
<1>8. ASSUME NEW n \in Nat, n \in N
      PROVE  n + 1 \in N
  <2>1. SUFFICES ASSUME n + 1 =< Len(p)
                 PROVE  Fine(n + 1)
    OBVIOUS
  <2>2. Fine(n) /\ n < Len(p)
    BY <1>3, <1>8, <2>1
  <2>3. PICK e : e = p[n + 1] /\ e \in E /\ e \in Entry
    <3>1. n + 1 \in 1..Len(p)
      BY <1>3, <2>1
    <3>2. QED
      BY <1>3, <3>1
  <2>4. g[n + 1] = CountEntry(g[n], e)
    <3>1. n + 1 \in 1..Len(p) /\ (n + 1) - 1 = n
      BY <1>3, <2>1
    <3>2. QED
      BY <1>4, <2>3, <3>1
  <2>5. U(n + 1) = U(n) \cup {e} /\ U(n) = Below(E, e)
    <3>1. U(n) = Below(E, e)
      BY <1>6, <2>2, <2>3
    <3>2. U(n + 1) = Below(E, e) \cup {e}
      BY <2>3
    <3>3. QED
      BY <3>1, <3>2
  <2> HIDE DEF U
  <2>6. /\ g[n + 1] \in Progressed
        /\ g[n + 1].at = i.at /\ g[n + 1].marker = i.marker /\ g[n + 1].value = i.value
    BY <2>2, <2>3, <2>4, CountTyped
  <2>7. ASSUME Counting(P, i)
        PROVE  Counting(P \cup U(n + 1), g[n + 1])
    <3> DEFINE Q == P \cup U(n)
    <3>1. U(n) \subseteq E /\ \A f \in U(n) : Before(f, e)
      BY <2>5 DEF Below
    <3>2. IsFiniteSet(Q) /\ Q \subseteq Entry /\ Q \subseteq P \cup E
      <4>1. IsFiniteSet(U(n))
        BY <3>1, FS_Subset
      <4>2. QED
        BY <3>1, <4>1, FS_Union
    <3>3. OneEach(Q)
      BY <3>2 DEF OneEach
    <3>4. \A f \in Q : Before(f, e)
      BY <2>3, <3>1
    <3>5. Counting(Q, g[n]) /\ g[n] \in Progressed
      BY <2>2, <2>7
    <3> HIDE DEF Q
    <3>6. Counting(Q \cup {e}, CountEntry(g[n], e))
      BY <2>3, <3>2, <3>3, <3>4, <3>5, CountStep
    <3>7. P \cup U(n + 1) = Q \cup {e}
      BY <2>5 DEF Q
    <3>8. QED
      BY <2>4, <3>6, <3>7
  <2>8. QED
    BY <2>6, <2>7
<1>9. Fine(Len(p))
  <2> HIDE DEF N
  <2>1. Nat \subseteq N
    BY <1>7, <1>8, NatSetInduction
  <2>2. Len(p) \in N
    BY <1>3, <2>1
  <2>3. QED
    BY <1>3, <2>2 DEF N
<1>10. QED
  BY <1>4, <1>9 DEF Further

LEMMA PageCounted ==
  ASSUME NEW b, Listable(metadata[b]), NEW marker \in Entry \cup {<<>>},
         NEW i \in Progressed, NEW p, p = PageAfter(b, marker)
  PROVE  \E j : /\ j = CountAll(i, p) /\ j \in Progressed
                /\ j.at = i.at /\ j.marker = i.marker /\ j.value = i.value
                /\ Len(p) = PageSize => Last(p) \in Entry
                /\ Counting(SeenOf(metadata[b], marker), i) =>
                     IF Len(p) = PageSize THEN Counting(SeenOf(metadata[b], Last(p)), j)
                                          ELSE Counting(metadata[b], j)
<1>1. PICK P, E, M : P = SeenOf(metadata[b], marker) /\ E = RestOf(metadata[b], marker) /\ M = metadata[b]
  OBVIOUS
<1>2. /\ IsFiniteSet(P) /\ P \subseteq Entry /\ IsFiniteSet(E) /\ E \subseteq Entry
      /\ OneEach(M) /\ OneEach(E) /\ P \cup E = M
      /\ \A e \in P, f \in E : Before(e, f)
  BY <1>1, SeenAndRest
<1>3. Pages(E, p)
  BY <1>1, PageIs
<1>4. PICK j : Further(P, E, i, p, j)
  BY <1>2, <1>3, CountFrom
<1>5. /\ Len(p) > 0 /\ Len(p) # PageSize => Below(E, p[Len(p)]) \cup {p[Len(p)]} = E
      /\ Len(p) = 0 /\ Len(p) # PageSize => E = {}
  BY <1>2, <1>3, PageOrder
<1>6. /\ DOMAIN p = 1..Len(p) /\ Len(p) \in Nat
      /\ \A n \in 1..Len(p) : p[n] \in E /\ p[n] \in Entry
  BY <1>2, <1>3 DEF Pages
<1>7. CASE Len(p) = PageSize
  <2>1. Len(p) > 0 /\ Len(p) \in 1..Len(p) /\ Last(p) = p[Len(p)]
    BY <1>6, <1>7, ReindexAssumption DEF Last
  <2>2. PICK e : e = Last(p) /\ e = p[Len(p)] /\ e \in E /\ e \in Entry
    BY <1>6, <2>1
  <2>3. P \cup (Below(E, e) \cup {e}) = SeenOf(M, e)
    <3>2. \A f \in P : ~Before(e, f)
      BY <1>2, <2>2, BeforeOrders
    <3>3. \A f \in E : ~Before(e, f) <=> (f = e \/ Before(f, e))
      <4>1. ASSUME NEW f \in E
            PROVE  ~Before(e, f) <=> (f = e \/ Before(f, e))
        <5>1. f \in Entry /\ (e[1] = f[1] /\ e[2] = f[2] => e = f)
          BY <1>2, <2>2 DEF OneEach
        <5>2. QED
          BY <2>2, <5>1, BeforeOrders
      <4>2. QED
        BY <4>1
    <3>4. e # <<>>
      BY <2>2, EntryIs
    <3>5. SeenOf(M, e) = {f \in M : ~Before(e, f)}
      BY <1>1, <3>4 DEF SeenOf
    <3>6. \A f \in E : f \in Below(E, e) \cup {e} <=> ~Before(e, f)
      BY <2>2, <3>3 DEF Below
    <3>7. Below(E, e) \cup {e} \subseteq E
      BY <2>2 DEF Below
    <3>8. QED
      BY <1>2, <3>2, <3>5, <3>6, <3>7
  <2>4. P \cup (IF Len(p) = 0 THEN {} ELSE Below(E, p[Len(p)]) \cup {p[Len(p)]})
          = SeenOf(M, e)
    BY <2>1, <2>2, <2>3
  <2>5. QED
    BY <1>1, <1>4, <1>7, <2>2, <2>4 DEF Further
<1>8. CASE Len(p) # PageSize
  <2>1. P \cup (IF Len(p) = 0 THEN {} ELSE Below(E, p[Len(p)]) \cup {p[Len(p)]}) = M
    BY <1>2, <1>5, <1>6, <1>8
  <2>2. QED
    BY <1>1, <1>4, <1>8, <2>1 DEF Further
<1>9. QED
  BY <1>7, <1>8
-----------------------------------------------------------------------------
\* What the buckets hold according to the metadata M.
SizedIn(M, b) == Add(Held(M[b]), <<0, Uploads[b]>>)
TruthIn(M, r) == SumAll([b \in Of(r) |-> SizedIn(M, b)], Of(r))
KeptIn(M) == \A b \in Buckets : Listable(M[b])

LEMMA TruthOf ==
  ASSUME NEW r
  PROVE  Truth(r) = TruthIn(metadata, r) /\ Truth(r)' = TruthIn(metadata', r)
BY DEF Truth, TruthIn, Sized, SizedIn

LEMMA OfIs ==
  ASSUME NEW r \in Resources
  PROVE  /\ Of(r) \subseteq Buckets /\ IsFiniteSet(Of(r))
         /\ r \in Buckets => Of(r) = {r}
         /\ r \in Accounts => r \notin Buckets
<1>1. Of(r) \subseteq Buckets /\ (r \in Buckets => Of(r) = {r})
  BY ReindexAssumption DEF Of
<1>2. IsFiniteSet(Of(r))
  BY <1>1, ReindexAssumption, FS_Subset
<1>3. r \in Accounts => r \notin Buckets
  BY ReindexAssumption DEF Accounts
<1>4. QED
  BY <1>1, <1>2, <1>3

LEMMA HeldType ==
  ASSUME NEW E, Listable(E)
  PROVE  Held(E) \in Pairs
<1>1. IsFiniteSet(Live(E)) /\ Live(E) \subseteq Entry
  <2>1. Live(E) \subseteq E
    BY DEF Live
  <2>2. QED
    BY <2>1, FS_Subset DEF Listable, Entry
<1>2. QED
  BY <1>1, HeldIs, WeightType

LEMMA UploadsType == \A b \in Buckets : <<0, Uploads[b]>> \in Pairs
BY ReindexAssumption DEF Pairs

LEMMA SizedType ==
  ASSUME NEW M, KeptIn(M)
  PROVE  \A b \in Buckets : Held(M[b]) \in Pairs /\ SizedIn(M, b) \in Pairs
<1>1. ASSUME NEW b \in Buckets
      PROVE  Held(M[b]) \in Pairs /\ SizedIn(M, b) \in Pairs
  <2>1. Held(M[b]) \in Pairs
    BY HeldType DEF KeptIn
  <2>2. <<0, Uploads[b]>> \in Pairs
    BY UploadsType
  <2>3. QED
    BY <2>1, <2>2, AddIs DEF SizedIn
<1>2. QED
  BY <1>1

LEMMA TruthType ==
  ASSUME NEW M, KeptIn(M), NEW r \in Resources
  PROVE  TruthIn(M, r) \in Pairs /\ (r \in Buckets => TruthIn(M, r) = SizedIn(M, r))
<1> DEFINE t == [b \in Of(r) |-> SizedIn(M, b)]
<1>1. \A b \in Of(r) : t[b] \in Pairs
  BY OfIs, SizedType
<1>2. r \in Of(r) => t[r] = SizedIn(M, r)
  OBVIOUS
<1>3. TruthIn(M, r) = SumAll(t, Of(r))
  BY DEF TruthIn
<1> HIDE DEF t
<1>4. TruthIn(M, r) \in Pairs
  BY <1>1, <1>3, OfIs, SumAllType
<1>5. r \in Buckets => TruthIn(M, r) = SizedIn(M, r)
  BY <1>1, <1>2, <1>3, OfIs, SumAllSingle
<1>6. QED
  BY <1>4, <1>5

\* The truth about a resource changes with one of its buckets.
LEMMA TruthMoves ==
  ASSUME NEW M, KeptIn(M), NEW L, KeptIn(L), NEW r \in Resources, NEW b \in Of(r),
         \A x \in Buckets \ {b} : L[x] = M[x]
  PROVE  TruthIn(L, r) = Add(TruthIn(M, r), Sub(Held(L[b]), Held(M[b])))
<1> DEFINE t == [x \in Of(r) |-> SizedIn(M, x)]
           u == [x \in Of(r) |-> SizedIn(L, x)]
           S == Of(r)
<1>0. S \subseteq Buckets /\ IsFiniteSet(S) /\ IsFiniteSet(S \ {b}) /\ b \in Buckets
  BY OfIs, FS_Subset
<1>1. \A x \in S : t[x] \in Pairs /\ u[x] \in Pairs
  BY <1>0, SizedType
<1>2. \A x \in S \ {b} : t[x] = u[x]
  BY <1>0 DEF SizedIn
<1>3. /\ TruthIn(M, r) = SumAll(t, S) /\ TruthIn(L, r) = SumAll(u, S)
      /\ t[b] = SizedIn(M, b) /\ u[b] = SizedIn(L, b)
  BY DEF TruthIn
<1> HIDE DEF t, u, S
<1>4. SumAll(t, S) = Add(t[b], SumAll(t, S \ {b}))
  BY <1>0, <1>1, SumAllTakes DEF S
<1>5. SumAll(u, S) = Add(u[b], SumAll(u, S \ {b}))
  BY <1>0, <1>1, SumAllTakes DEF S
<1>6. SumAll(t, S \ {b}) = SumAll(u, S \ {b})
  BY <1>2, SumAllAgrees
<1>7. PICK z \in Pairs : z = SumAll(t, S \ {b})
  <2>1. SumAll(t, S \ {b}) \in Pairs
    BY <1>0, <1>1, SumAllType
  <2>2. QED
    BY <2>1
<1>8. PICK x \in Pairs, y \in Pairs, p \in Pairs :
        x = Held(M[b]) /\ y = Held(L[b]) /\ p = <<0, Uploads[b]>>
  BY <1>0, SizedType, UploadsType
<1>9. Add(Add(y, p), z) = Add(Add(Add(x, p), z), Sub(y, x))
  BY DEF Pairs, Add, Sub
<1>10. QED
  BY <1>3, <1>4, <1>5, <1>6, <1>7, <1>8, <1>9 DEF SizedIn

LEMMA TruthStays ==
  ASSUME NEW M, NEW L, NEW r \in Resources, \A x \in Of(r) : L[x] = M[x]
  PROVE  TruthIn(L, r) = TruthIn(M, r)
<1>1. [x \in Of(r) |-> SizedIn(M, x)] = [x \in Of(r) |-> SizedIn(L, x)]
  BY DEF SizedIn
<1>2. QED
  BY <1>1 DEF TruthIn
-----------------------------------------------------------------------------
ReindexTypes ==
  /\ DOMAIN metadata = Buckets /\ KeptIn(metadata)
  /\ raw \in [Resources -> Pairs] /\ late \in [Resources -> Pairs] /\ repair \in [Resources -> Pairs]
  /\ index \in [Resources -> Progressed]
  /\ touched \subseteq Buckets /\ settled \subseteq Resources
  /\ failedIn = {b \in Buckets : index[b].at = "failed"}
  /\ changes \in 0..MaxChanges /\ errors \in 0..MaxErrors
  /\ ~running => \A r \in Resources : index[r].at = "none"

Sizing == {"fetch", "write", "done"}

\* What is counted of a bucket is right as long as it does not change.
Right(b, i) ==
  /\ i.at = "list" => Counting(SeenOf(metadata[b], i.marker), i)
  /\ i.at \in Sizing => i.total = SizedIn(metadata, b)

Listed == \A b \in Buckets \ touched : Right(b, index[b])

Added == \A a \in Accounts :
  index[a].at = "fetch" /\ Of(a) \cap touched = {} => index[a].total = TruthIn(metadata, a)

\* With the correction that is the latest, or that comes, the sum is right.
Squares(r, i, n) ==
  Add(Add(raw[r], late[r]), IF i.at = "write" THEN Sub(i.total, i.value) ELSE n)
    = TruthIn(metadata, r)

Compared == \A r \in settled : Squares(r, index[r], repair[r])

ReindexInv == ReindexTypes /\ Listed /\ Added /\ Compared
-----------------------------------------------------------------------------
LEMMA NoIndexIs ==
  /\ NoIndex \in Progressed
  /\ NoIndex.at = "none" /\ NoIndex.marker = <<>> /\ NoIndex.master = <<>> /\ NoIndex.total = NoSum
<1>1. NoSum \in Pairs
  BY DEF NoSum, Pairs
<1>2. QED
  BY <1>1 DEF NoIndex, Progressed, ReindexStages

LEMMA ReindexBegins == ReindexV2Init /\ MetadataKept => ReindexInv
<1> SUFFICES ASSUME ReindexV2Init, MetadataKept
             PROVE  ReindexInv
  OBVIOUS
<1>1. NoSum \in Pairs
  BY DEF NoSum, Pairs
<1>2. \A r \in Resources : index[r].at = "none"
  BY NoIndexIs DEF ReindexV2Init
<1>3. \A b \in Buckets : b \in Resources
  BY DEF Resources
<1>4. 0 \in 0..MaxChanges /\ 0 \in 0..MaxErrors
  BY ReindexAssumption
<1>5. DOMAIN metadata = Buckets /\ KeptIn(metadata)
  BY DEF MetadataKept, KeptIn
<1>6. ReindexTypes
  BY <1>1, <1>2, <1>3, <1>4, <1>5, NoIndexIs DEF ReindexV2Init, ReindexTypes
<1>7. Listed
  BY <1>2, <1>3 DEF Listed, Right, Sizing
<1>8. Added
  BY <1>2 DEF Added, Resources
<1>9. Compared
  BY DEF Compared, ReindexV2Init
<1>10. QED
  BY <1>6, <1>7, <1>8, <1>9 DEF ReindexInv

\* A step of the task about one resource.
Goes(r, x) ==
  /\ UNCHANGED <<metadata, raw, late, running, changes, touched>>
  /\ errors' \in 0..MaxErrors
  /\ index' = [index EXCEPT ![r] = x]
  /\ failedIn' = {b \in Buckets : index'[b].at = "failed"}

LEMMA GoesInv ==
  ASSUME ReindexInv, NEW r \in Resources, NEW x \in Progressed, Goes(r, x),
         index[r].at # "none",
         r \in Buckets \ touched => Right(r, x),
         r \in Accounts => x.at # "fetch",
         repair' \in [Resources -> Pairs], \A s \in Resources \ {r} : repair'[s] = repair[s],
         settled' \subseteq settled \cup {r},
         r \in settled' => Squares(r, x, repair'[r])
  PROVE  ReindexInv'
<1>1. index' \in [Resources -> Progressed] /\ index'[r] = x
      /\ \A s \in Resources \ {r} : index'[s] = index[s]
  BY DEF ReindexInv, ReindexTypes, Goes
<1>2. running /\ running'
  BY DEF ReindexInv, ReindexTypes, Goes
<1>3. /\ UNCHANGED <<metadata, raw, late, changes, touched>> /\ errors' \in 0..MaxErrors
      /\ failedIn' = {b \in Buckets : index'[b].at = "failed"}
  BY DEF Goes
<1>4. \A s \in Buckets : s \in Resources
  BY DEF Resources
<1>5. ReindexTypes'
  BY <1>1, <1>2, <1>3 DEF ReindexInv, ReindexTypes
<1>6. Listed'
  <2>1. ASSUME NEW b \in Buckets, b \notin touched
        PROVE  Right(b, index'[b])
    BY <1>1, <1>4, <2>1 DEF ReindexInv, Listed
  <2>2. \A b \in Buckets \ touched : Right(b, index[b])' <=> Right(b, index'[b])
    BY <1>3 DEF Right
  <2>3. QED
    BY <1>3, <2>1, <2>2 DEF Listed
<1>7. Added'
  <2>1. ASSUME NEW a \in Accounts, index'[a].at = "fetch", Of(a) \cap touched = {}
        PROVE  index'[a].total = TruthIn(metadata, a)
    <3>1. a # r /\ a \in Resources
      BY <1>1, <2>1 DEF Resources
    <3>2. index'[a] = index[a]
      BY <1>1, <3>1
    <3>3. QED
      BY <2>1, <3>2 DEF ReindexInv, Added
  <2>2. QED
    BY <1>3, <2>1 DEF Added
<1>8. Compared'
  <2>1. ASSUME NEW s \in settled'
        PROVE  Squares(s, index'[s], repair'[s])
    <3>1. CASE s = r
      BY <1>1, <2>1, <3>1
    <3>2. CASE s # r
      <4>1. s \in settled /\ s \in Resources
        BY <3>2 DEF ReindexInv, ReindexTypes
      <4>2. QED
        BY <1>1, <3>2, <4>1 DEF ReindexInv, Compared
    <3>3. QED
      BY <3>1, <3>2
  <2>2. \A s \in settled' : Squares(s, index[s], repair[s])' <=> Squares(s, index'[s], repair'[s])
    BY <1>3 DEF Squares
  <2>3. QED
    BY <2>1, <2>2 DEF Compared
<1>9. QED
  BY <1>5, <1>6, <1>7, <1>8 DEF ReindexInv

LEMMA ErrorsBounded ==
  ASSUME ReindexInv
  PROVE  /\ errors \in 0..MaxErrors
         /\ Failing => errors' \in 0..MaxErrors
<1>1. errors \in 0..MaxErrors /\ MaxErrors \in Nat
  BY ReindexAssumption DEF ReindexInv, ReindexTypes
<1>2. QED
  BY <1>1 DEF Failing

LEMMA ListPageInv ==
  ASSUME ReindexInv, NEW b \in Buckets, ListPage(b)
  PROVE  ReindexInv'
<1> DEFINE i == index[b]
           p == PageAfter(b, i.marker)
<1>1. b \in Resources /\ i \in Progressed /\ Listable(metadata[b]) /\ i.marker \in Entry \cup {<<>>}
  BY DEF ReindexInv, ReindexTypes, KeptIn, Resources, Progressed
<1>2. PICK c : /\ c = CountAll(i, p) /\ c \in Progressed
               /\ c.at = i.at /\ c.marker = i.marker /\ c.value = i.value
               /\ Len(p) = PageSize => Last(p) \in Entry
               /\ Counting(SeenOf(metadata[b], i.marker), i) =>
                    IF Len(p) = PageSize THEN Counting(SeenOf(metadata[b], Last(p)), c)
                                         ELSE Counting(metadata[b], c)
  <2>1. PICK j : j = i
    OBVIOUS
  <2>2. PICK q : q = PageAfter(b, j.marker)
    OBVIOUS
  <2>3. j \in Progressed /\ j.marker \in Entry \cup {<<>>}
    BY <1>1, <2>1
  <2> HIDE DEF i, p
  <2>4. QED
    BY <1>1, <2>1, <2>2, <2>3, PageCounted DEF p
<1> DEFINE full == [c EXCEPT !.marker = Last(p)]
           sum == Add(c.total, <<0, Uploads[b]>>)
           ends == [c EXCEPT !.at = "fetch", !.total = sum, !.marker = <<>>, !.master = <<>>]
           x == IF Len(p) = PageSize THEN full ELSE ends
<1>3. /\ i.at = "list" /\ index' = [index EXCEPT ![b] = x]
      /\ UNCHANGED <<metadata, raw, late, repair, running, failedIn, changes, errors, touched, settled>>
  BY <1>2 DEF ListPage, CountAll, sums, bounds
<1>4. c.total \in Pairs /\ sum \in Pairs
  <2>1. c.total \in Pairs /\ <<0, Uploads[b]>> \in Pairs
    BY <1>2, UploadsType DEF Progressed
  <2>2. QED
    BY <2>1, AddIs
<1>5. x \in Progressed /\ x.at \in {"list", "fetch"}
  <2>1. CASE Len(p) = PageSize
    <3>1. PICK e \in Entry : e = Last(p)
      BY <1>2, <2>1
    <3>2. x = [c EXCEPT !.marker = e]
      BY <2>1, <3>1
    <3> HIDE DEF x
    <3>3. QED
      BY <1>2, <1>3, <3>2 DEF Progressed
  <2>2. CASE Len(p) # PageSize
    <3>1. PICK n \in Pairs : n = sum
      BY <1>4
    <3>2. x = [c EXCEPT !.at = "fetch", !.total = n, !.marker = <<>>, !.master = <<>>]
      BY <2>2, <3>1
    <3> HIDE DEF x
    <3>3. QED
      BY <1>2, <3>2 DEF Progressed, ReindexStages
  <2>3. QED
    BY <2>1, <2>2
<1>6. ASSUME b \notin touched
      PROVE  Right(b, x)
  <2>1. Counting(SeenOf(metadata[b], i.marker), i)
    BY <1>3, <1>6 DEF ReindexInv, Listed, Right
  <2>2. CASE Len(p) = PageSize
    <3>1. Counting(SeenOf(metadata[b], Last(p)), c)
      BY <1>2, <2>1, <2>2
    <3>2. x.at = "list" /\ x.marker = Last(p) /\ x.total = c.total /\ x.master = c.master
      BY <1>2, <1>3, <2>2 DEF Progressed
    <3> HIDE DEF x, p
    <3>3. QED
      BY <3>1, <3>2 DEF Right, Sizing, Counting
  <2>3. CASE Len(p) # PageSize
    <3>1. Counting(metadata[b], c)
      BY <1>2, <2>1, <2>3
    <3>2. c.total = Held(metadata[b])
      BY <1>1, <3>1, HeldIs DEF Counting
    <3>3. x.at = "fetch" /\ x.total = sum
      BY <1>2, <2>3 DEF Progressed
    <3> HIDE DEF x
    <3>4. QED
      BY <3>2, <3>3 DEF Right, Sizing, SizedIn
  <2>4. QED
    BY <2>2, <2>3
<1> HIDE DEF x, i
<1>7. failedIn' = {d \in Buckets : index'[d].at = "failed"}
  <2>1. index[b].at = "list" /\ index \in [Resources -> Progressed]
    BY <1>3 DEF i, ReindexInv, ReindexTypes
  <2>2. \A d \in Buckets : index'[d].at = "failed" <=> index[d].at = "failed"
    BY <1>1, <1>3, <1>5, <2>1 DEF Resources
  <2>3. QED
    BY <1>3, <2>2 DEF ReindexInv, ReindexTypes
<1>8. Goes(b, x)
  BY <1>3, <1>7, ErrorsBounded DEF Goes
<1>9. b \notin Accounts
  BY OfIs, <1>1
<1>10. b \in settled' => Squares(b, x, repair'[b])
  <2>1. ASSUME b \in settled
        PROVE  Squares(b, x, repair[b])
    <3>1. Squares(b, index[b], repair[b])
      BY <2>1 DEF ReindexInv, Compared
    <3>2. QED
      BY <1>3, <1>5, <3>1 DEF Squares, i
  <2>2. QED
    BY <1>3, <2>1
<1>11. /\ index[b].at # "none" /\ repair' \in [Resources -> Pairs]
       /\ \A s \in Resources \ {b} : repair'[s] = repair[s]
       /\ settled' \subseteq settled \cup {b}
  BY <1>3 DEF i, ReindexInv, ReindexTypes
<1>12. QED
  BY <1>1, <1>5, <1>6, <1>8, <1>9, <1>10, <1>11, GoesInv

LEMMA ListingFailsInv ==
  ASSUME ReindexInv, NEW b \in Buckets, ListingFails(b)
  PROVE  ReindexInv'
<1> DEFINE x == [NoIndex EXCEPT !.at = "failed"]
<1>1. b \in Resources /\ b \notin Accounts
  BY OfIs DEF Resources
<1>2. /\ index[b].at = "list" /\ index' = [index EXCEPT ![b] = x] /\ failedIn' = failedIn \cup {b}
      /\ Failing /\ UNCHANGED <<metadata, raw, late, repair, running, changes, touched, settled>>
  BY DEF ListingFails, sums
<1>3. x \in Progressed /\ x.at = "failed"
  BY NoIndexIs DEF Progressed, ReindexStages
<1> HIDE DEF x
<1>4. failedIn' = {d \in Buckets : index'[d].at = "failed"}
  <2>1. index \in [Resources -> Progressed] /\ \A d \in Buckets : d \in Resources
    BY DEF ReindexInv, ReindexTypes, Resources
  <2>2. \A d \in Buckets : index'[d].at = "failed" <=> (d = b \/ index[d].at = "failed")
    BY <1>2, <1>3, <2>1
  <2>3. QED
    BY <1>2, <2>2 DEF ReindexInv, ReindexTypes
<1>5. Goes(b, x)
  BY <1>2, <1>4, ErrorsBounded DEF Goes
<1>6. Right(b, x)
  BY <1>3 DEF Right, Sizing
<1>7. b \in settled' => Squares(b, x, repair'[b])
  <2>1. b \in settled => Squares(b, index[b], repair[b])
    BY DEF ReindexInv, Compared
  <2>2. QED
    BY <1>2, <1>3, <2>1 DEF Squares
<1>8. /\ index[b].at # "none" /\ repair' \in [Resources -> Pairs]
      /\ \A s \in Resources \ {b} : repair'[s] = repair[s]
      /\ settled' \subseteq settled \cup {b}
  BY <1>2 DEF ReindexInv, ReindexTypes
<1>9. QED
  BY <1>1, <1>3, <1>5, <1>6, <1>7, <1>8, GoesInv

\* A stage later nothing that was found is forgotten.
LEMMA StageKeeps ==
  ASSUME ReindexInv, NEW r \in Resources, index[r].at \in {"fetch", "write"},
         NEW x, x.at \in {"write", "done"}, x.total = index[r].total
  PROVE  /\ r \in Buckets \ touched => Right(r, x)
         /\ r \in Accounts => x.at # "fetch"
<1>1. r \in Buckets \ touched => Right(r, index[r])
  BY DEF ReindexInv, Listed
<1>2. QED
  BY <1>1 DEF Right, Sizing

LEMMA FetchCurrentMetricsInv ==
  ASSUME ReindexInv, NEW r \in Resources, FetchCurrentMetrics(r)
  PROVE  ReindexInv'
<1> DEFINE x == [index[r] EXCEPT !.at = "write", !.value = raw[r]]
<1>1. /\ index[r].at = "fetch" /\ index' = [index EXCEPT ![r] = x]
      /\ UNCHANGED <<metadata, raw, late, repair, running, failedIn, changes, errors, touched>>
      /\ settled' = IF late[r] = NoSum /\ Of(r) \cap touched = {} THEN settled \cup {r} ELSE settled \ {r}
  BY DEF FetchCurrentMetrics, sums, bounds
<1>2. raw[r] \in Pairs /\ late[r] \in Pairs /\ index[r] \in Progressed /\ KeptIn(metadata)
  BY DEF ReindexInv, ReindexTypes
<1>3. x \in Progressed /\ x.at = "write" /\ x.value = raw[r] /\ x.total = index[r].total
  BY <1>2 DEF Progressed, ReindexStages
<1> HIDE DEF x
<1>a. index[r].at \in {"fetch", "write"} /\ x.at \in {"write", "done"}
  BY <1>1, <1>3
<1>b. (r \in Buckets \ touched => Right(r, x)) /\ (r \in Accounts => x.at # "fetch")
  BY <1>3, <1>a, StageKeeps
<1>4. failedIn' = {d \in Buckets : index'[d].at = "failed"}
  <2>1. index \in [Resources -> Progressed] /\ \A d \in Buckets : d \in Resources
    BY DEF ReindexInv, ReindexTypes, Resources
  <2>2. \A d \in Buckets : index'[d].at = "failed" <=> index[d].at = "failed"
    BY <1>1, <1>a, <2>1
  <2>3. QED
    BY <1>1, <2>2 DEF ReindexInv, ReindexTypes
<1>5. Goes(r, x)
  BY <1>1, <1>4, ErrorsBounded DEF Goes
<1>6. ASSUME r \in settled'
      PROVE  Squares(r, x, repair'[r])
  <2>1. late[r] = NoSum /\ Of(r) \cap touched = {}
    BY <1>1, <1>6
  <2>2. index[r].total = TruthIn(metadata, r)
    <3>1. CASE r \in Buckets
      <4>1. r \notin touched /\ TruthIn(metadata, r) = SizedIn(metadata, r)
        BY <1>2, <2>1, <3>1, OfIs, TruthType
      <4>2. Right(r, index[r])
        BY <3>1, <4>1 DEF ReindexInv, Listed
      <4>3. QED
        BY <1>1, <4>1, <4>2 DEF Right, Sizing
    <3>2. CASE r \in Accounts
      BY <1>1, <2>1, <3>2 DEF ReindexInv, Added
    <3>3. QED
      BY <3>1, <3>2 DEF Resources
  <2>3. PICK t \in Pairs, y \in Pairs : t = x.total /\ y = raw[r]
    BY <1>2, <1>3 DEF Progressed
  <2>4. Add(Add(y, NoSum), Sub(t, y)) = t
    BY DEF Pairs, Add, Sub, NoSum
  <2>5. QED
    BY <1>3, <2>1, <2>2, <2>3, <2>4 DEF Squares
<1>7. /\ index[r].at # "none" /\ repair' \in [Resources -> Pairs]
      /\ \A s \in Resources \ {r} : repair'[s] = repair[s]
      /\ settled' \subseteq settled \cup {r}
  BY <1>1 DEF ReindexInv, ReindexTypes
<1>8. QED
  BY <1>3, <1>5, <1>6, <1>7, <1>b, GoesInv

LEMMA UpdateMetricInv ==
  ASSUME ReindexInv, NEW r \in Resources, UpdateMetric(r)
  PROVE  ReindexInv'
<1> DEFINE x == [index[r] EXCEPT !.at = "done", !.value = NoSum]
           d == Sub(index[r].total, index[r].value)
<1>1. /\ index[r].at = "write" /\ index' = [index EXCEPT ![r] = x]
      /\ repair' = IF d # NoSum THEN [repair EXCEPT ![r] = d] ELSE repair
      /\ settled' = IF d = NoSum /\ repair[r] # NoSum THEN settled \ {r} ELSE settled
      /\ UNCHANGED <<metadata, raw, late, running, failedIn, changes, errors, touched>>
  BY DEF UpdateMetric, bounds
<1>2. NoSum \in Pairs /\ index[r] \in Progressed
  BY NoIndexIs DEF ReindexInv, ReindexTypes, Progressed
<1>3. x \in Progressed /\ x.at = "done" /\ x.total = index[r].total
  BY <1>2 DEF Progressed, ReindexStages
<1>a. index[r].at \in {"fetch", "write"} /\ x.at \in {"write", "done"}
  BY <1>1, <1>3
<1>4. d \in Pairs
  <2>1. index[r].total \in Pairs /\ index[r].value \in Pairs
    BY <1>2 DEF Progressed
  <2>2. QED
    BY <2>1, AddIs
<1> HIDE DEF x, d
<1>b. (r \in Buckets \ touched => Right(r, x)) /\ (r \in Accounts => x.at # "fetch")
  BY <1>3, <1>a, StageKeeps
<1>5. failedIn' = {e \in Buckets : index'[e].at = "failed"}
  <2>1. index \in [Resources -> Progressed] /\ \A e \in Buckets : e \in Resources
    BY DEF ReindexInv, ReindexTypes, Resources
  <2>2. \A e \in Buckets : index'[e].at = "failed" <=> index[e].at = "failed"
    BY <1>1, <1>a, <2>1
  <2>3. QED
    BY <1>1, <2>2 DEF ReindexInv, ReindexTypes
<1>6. Goes(r, x)
  BY <1>1, <1>5, ErrorsBounded DEF Goes
<1>7. /\ repair' \in [Resources -> Pairs]
      /\ \A s \in Resources \ {r} : repair'[s] = repair[s]
      /\ d # NoSum => repair'[r] = d
      /\ d = NoSum => repair'[r] = repair[r]
  BY <1>1, <1>4 DEF ReindexInv, ReindexTypes
<1>8. ASSUME r \in settled'
      PROVE  Squares(r, x, repair'[r])
  <2>1. r \in settled /\ (d = NoSum => repair[r] = NoSum)
    BY <1>1, <1>8
  <2>2. repair'[r] = d
    BY <1>7, <2>1
  <2>3. Squares(r, index[r], repair[r])
    BY <2>1 DEF ReindexInv, Compared
  <2>4. QED
    BY <1>1, <1>3, <2>2, <2>3 DEF Squares, d
<1>9. index[r].at # "none" /\ settled' \subseteq settled \cup {r}
  BY <1>1
<1>10. QED
  BY <1>3, <1>6, <1>7, <1>8, <1>9, <1>b, GoesInv

LEMMA UpdateFailsInv ==
  ASSUME ReindexInv, NEW r \in Resources, UpdateFails(r)
  PROVE  ReindexInv'
<1> DEFINE x == [index[r] EXCEPT !.at = "done", !.value = NoSum]
<1>1. /\ index[r].at \in {"fetch", "write"} /\ index' = [index EXCEPT ![r] = x]
      /\ settled' = settled \ {r} /\ Failing
      /\ UNCHANGED <<metadata, raw, late, repair, running, failedIn, changes, touched>>
  BY DEF UpdateFails, sums
<1>2. NoSum \in Pairs
  BY DEF NoSum, Pairs
<1>3. x \in Progressed /\ x.at = "done" /\ x.total = index[r].total
  <2>1. index[r] \in Progressed
    BY DEF ReindexInv, ReindexTypes
  <2>2. QED
    BY <1>2, <2>1 DEF Progressed, ReindexStages
<1> HIDE DEF x
<1>a. index[r].at \in {"fetch", "write"} /\ x.at \in {"write", "done"}
  BY <1>1, <1>3
<1>b. (r \in Buckets \ touched => Right(r, x)) /\ (r \in Accounts => x.at # "fetch")
  BY <1>3, <1>a, StageKeeps
<1>4. failedIn' = {e \in Buckets : index'[e].at = "failed"}
  <2>1. index \in [Resources -> Progressed] /\ \A e \in Buckets : e \in Resources
    BY DEF ReindexInv, ReindexTypes, Resources
  <2>2. \A e \in Buckets : index'[e].at = "failed" <=> index[e].at = "failed"
    BY <1>1, <1>a, <2>1
  <2>3. QED
    BY <1>1, <2>2 DEF ReindexInv, ReindexTypes
<1>5. Goes(r, x)
  BY <1>1, <1>4, ErrorsBounded DEF Goes
<1>6. /\ index[r].at # "none" /\ repair' \in [Resources -> Pairs]
      /\ \A s \in Resources \ {r} : repair'[s] = repair[s]
      /\ settled' \subseteq settled \cup {r} /\ r \notin settled'
  BY <1>1 DEF ReindexInv, ReindexTypes
<1>7. QED
  BY <1>3, <1>5, <1>6, <1>b, GoesInv
-----------------------------------------------------------------------------
\* What a change adds is on its way, for the bucket and for its account.
LEMMA ChangeInv ==
  ASSUME ReindexInv, NEW x \in Changes, Change(x)
  PROVE  ReindexInv'
<1>1. PICK b \in Buckets : b = x.bucket
  BY ReindexAssumption
<1>2. PICK after : after = (metadata[b] \ x.remove) \cup x.add
  OBVIOUS
<1>3. PICK d : d = Sub(Held(after), Held(metadata[b]))
  OBVIOUS
<1>4. /\ Listable(after) /\ changes < MaxChanges /\ changes' = changes + 1
      /\ metadata' = [metadata EXCEPT ![b] = after]
      /\ late' = [late EXCEPT ![b] = Add(@, d), ![Owner[b]] = Add(@, d)]
      /\ touched' = touched \cup {b}
      /\ UNCHANGED <<raw, repair, running, index, failedIn, errors, settled>>
  BY <1>1, <1>2, <1>3 DEF Change
<1>5. /\ DOMAIN metadata = Buckets /\ KeptIn(metadata)
      /\ raw \in [Resources -> Pairs] /\ late \in [Resources -> Pairs] /\ repair \in [Resources -> Pairs]
      /\ index \in [Resources -> Progressed] /\ touched \subseteq Buckets /\ settled \subseteq Resources
  BY DEF ReindexInv, ReindexTypes
<1>6. metadata'[b] = after /\ \A c \in Buckets \ {b} : metadata'[c] = metadata[c]
  BY <1>4, <1>5
<1>7. DOMAIN metadata' = Buckets /\ KeptIn(metadata')
  <2>1. DOMAIN metadata' = Buckets
    BY <1>4, <1>5
  <2>2. \A c \in Buckets : Listable(metadata'[c])
    BY <1>4, <1>5, <1>6 DEF KeptIn
  <2>3. QED
    BY <2>1, <2>2 DEF KeptIn
<1>8. d \in Pairs
  BY <1>3, <1>4, <1>5, HeldType, AddIs DEF KeptIn
<1>9. \A r \in Resources : /\ b \in Of(r) <=> r = b \/ r = Owner[b]
                           /\ late'[r] = IF b \in Of(r) THEN Add(late[r], d) ELSE late[r]
  <2>1. b \in Resources /\ Owner[b] \in Resources /\ Owner[b] # b
    BY ReindexAssumption DEF Resources, Accounts
  <2>2. \A r \in Resources : b \in Of(r) <=> r = b \/ r = Owner[b]
    BY DEF Of
  <2>3. QED
    BY <1>4, <1>5, <2>1, <2>2
<1>10. late' \in [Resources -> Pairs]
  <2>1. ASSUME NEW r \in Resources
        PROVE  late'[r] \in Pairs
    <3>1. late[r] \in Pairs
      BY <1>5
    <3>2. Add(late[r], d) \in Pairs
      BY <1>8, <3>1, AddIs
    <3>3. QED
      BY <1>9, <3>1, <3>2
  <2>2. late' = [r \in Resources |-> late'[r]]
    BY <1>4, <1>5
  <2>3. QED
    BY <2>1, <2>2
<1>11. ReindexTypes'
  <2>1. changes' \in 0..MaxChanges
    BY <1>4, ReindexAssumption DEF ReindexInv, ReindexTypes
  <2>2. touched' \subseteq Buckets
    BY <1>4, <1>5
  <2>3. QED
    BY <1>4, <1>7, <1>10, <2>1, <2>2 DEF ReindexInv, ReindexTypes
<1>12. Listed'
  <2>1. ASSUME NEW c \in Buckets, c \notin touched'
        PROVE  Right(c, index[c])'
    <3>1. c # b /\ c \notin touched
      BY <1>4, <2>1
    <3>2. Right(c, index[c]) /\ metadata'[c] = metadata[c] /\ index' = index
      BY <1>4, <1>6, <3>1 DEF ReindexInv, Listed
    <3>3. SizedIn(metadata', c) = SizedIn(metadata, c)
      BY <3>2 DEF SizedIn
    <3>4. QED
      BY <3>2, <3>3 DEF Right
  <2>2. QED
    BY <2>1 DEF Listed
<1>13. Added'
  <2>1. ASSUME NEW a \in Accounts, index'[a].at = "fetch", Of(a) \cap touched' = {}
        PROVE  index'[a].total = TruthIn(metadata', a)
    <3>1. Of(a) \cap touched = {} /\ b \notin Of(a) /\ a \in Resources
      BY <1>4, <2>1 DEF Resources
    <3>2. index[a].total = TruthIn(metadata, a)
      BY <1>4, <2>1, <3>1 DEF ReindexInv, Added
    <3>3. \A c \in Of(a) : metadata'[c] = metadata[c]
      BY <1>6, <3>1, OfIs
    <3>4. TruthIn(metadata', a) = TruthIn(metadata, a)
      BY <3>1, <3>3, TruthStays
    <3>5. QED
      BY <1>4, <3>2, <3>4
  <2>2. QED
    BY <2>1 DEF Added
<1>14. Compared'
  <2>1. ASSUME NEW r \in settled'
        PROVE  Squares(r, index[r], repair[r])'
    <3>1. r \in Resources /\ Squares(r, index[r], repair[r])
      BY <1>4, <1>5 DEF ReindexInv, Compared
    <3>2. PICK v \in Pairs, w \in Pairs, t \in Pairs :
            v = raw[r] /\ w = late[r] /\ t = TruthIn(metadata, r)
      <4>1. TruthIn(metadata, r) \in Pairs
        BY <1>5, <3>1, TruthType
      <4>2. QED
        BY <1>5, <3>1, <4>1
    <3>3. PICK z \in Pairs : z = IF index[r].at = "write" THEN Sub(index[r].total, index[r].value)
                                                          ELSE repair[r]
      <4>1. index[r].total \in Pairs /\ index[r].value \in Pairs /\ repair[r] \in Pairs
        BY <1>5, <3>1 DEF Progressed
      <4>2. QED
        BY <4>1, AddIs
    <3>4. Add(Add(v, w), z) = t
      BY <3>1, <3>2, <3>3 DEF Squares
    <3>5. CASE b \in Of(r)
      <4>1. TruthIn(metadata', r) = Add(t, d)
        BY <1>3, <1>5, <1>6, <1>7, <3>1, <3>2, <3>5, TruthMoves
      <4>2. Add(Add(v, Add(w, d)), z) = Add(Add(Add(v, w), z), d)
        BY <1>8 DEF Pairs, Add
      <4>3. late'[r] = Add(w, d)
        BY <1>9, <3>1, <3>2, <3>5
      <4>4. QED
        BY <1>4, <3>2, <3>3, <3>4, <4>1, <4>2, <4>3 DEF Squares
    <3>6. CASE b \notin Of(r)
      <4>1. \A c \in Of(r) : metadata'[c] = metadata[c]
        BY <1>6, <3>1, <3>6, OfIs
      <4>2. TruthIn(metadata', r) = t
        BY <3>1, <3>2, <4>1, TruthStays
      <4>3. late'[r] = w
        BY <1>9, <3>1, <3>2, <3>6
      <4>4. QED
        BY <1>4, <3>2, <3>3, <3>4, <4>2, <4>3 DEF Squares
    <3>7. QED
      BY <3>5, <3>6
  <2>2. QED
    BY <2>1 DEF Compared
<1>15. QED
  BY <1>11, <1>12, <1>13, <1>14 DEF ReindexInv

LEMMA IngestLateInv == ReindexInv /\ IngestLate => ReindexInv'
<1> SUFFICES ASSUME ReindexInv, IngestLate
             PROVE  ReindexInv'
  OBVIOUS
<1>1. /\ raw' = [r \in Resources |-> Add(raw[r], late[r])] /\ late' = [r \in Resources |-> NoSum]
      /\ UNCHANGED <<metadata, repair, running, index, failedIn, changes, errors, touched, settled>>
  BY DEF IngestLate, bounds
<1>2. raw \in [Resources -> Pairs] /\ late \in [Resources -> Pairs] /\ settled \subseteq Resources
  BY DEF ReindexInv, ReindexTypes
<1>3. raw' \in [Resources -> Pairs] /\ late' \in [Resources -> Pairs]
  <2>1. \A r \in Resources : Add(raw[r], late[r]) \in Pairs /\ NoSum \in Pairs
    BY <1>2, AddIs
  <2>2. QED
    BY <1>1, <2>1
<1>4. ReindexTypes'
  BY <1>1, <1>3 DEF ReindexInv, ReindexTypes
<1>5. Listed'
  <2>1. \A c \in Buckets : Right(c, index[c])' <=> Right(c, index[c])
    BY <1>1 DEF Right
  <2>2. QED
    BY <1>1, <2>1 DEF ReindexInv, Listed
<1>6. Added'
  BY <1>1 DEF ReindexInv, Added
<1>7. Compared'
  <2>1. ASSUME NEW r \in settled'
        PROVE  Squares(r, index[r], repair[r])'
    <3>1. r \in Resources /\ Squares(r, index[r], repair[r])
      BY <1>1, <1>2 DEF ReindexInv, Compared
    <3>2. Add(raw'[r], late'[r]) = Add(raw[r], late[r])
      <4>1. raw'[r] = Add(raw[r], late[r]) /\ late'[r] = NoSum
        BY <1>1, <3>1
      <4>2. Add(raw[r], late[r]) \in Pairs
        BY <1>2, <3>1, AddIs
      <4>3. QED
        BY <4>1, <4>2, AddIs
    <3>3. QED
      BY <1>1, <3>1, <3>2 DEF Squares
  <2>2. QED
    BY <2>1 DEF Compared
<1>8. QED
  BY <1>4, <1>5, <1>6, <1>7 DEF ReindexInv
-----------------------------------------------------------------------------
LEMMA ExecuteInv == ReindexInv /\ Execute => ReindexInv'
<1> SUFFICES ASSUME ReindexInv, Execute
             PROVE  ReindexInv'
  OBVIOUS
<1> DEFINE x == [NoIndex EXCEPT !.at = "list"]
<1>1. /\ ~running /\ running' = TRUE /\ failedIn' = {} /\ touched' = {}
      /\ index' = [r \in Resources |-> IF r \in Buckets THEN x ELSE NoIndex]
      /\ UNCHANGED <<metadata, raw, late, repair, changes, errors, settled>>
  BY DEF Execute, sums, bounds
<1>2. x \in Progressed /\ x.at = "list" /\ x.marker = <<>> /\ x.master = <<>> /\ x.total = NoSum
  BY NoIndexIs DEF Progressed, ReindexStages
<1> HIDE DEF x
<1>3. /\ index' \in [Resources -> Progressed]
      /\ \A r \in Resources : index'[r] = IF r \in Buckets THEN x ELSE NoIndex
  BY <1>1, <1>2, NoIndexIs
<1>4. \A c \in Buckets : c \in Resources
  BY DEF Resources
<1>5. ReindexTypes'
  <2>1. failedIn' = {c \in Buckets : index'[c].at = "failed"}
    BY <1>1, <1>2, <1>3, <1>4
  <2>2. QED
    BY <1>1, <1>3, <2>1 DEF ReindexInv, ReindexTypes
<1>6. Listed'
  <2>1. ASSUME NEW c \in Buckets
        PROVE  Right(c, x)
    <3>1. SeenOf(metadata[c], <<>>) = {}
      BY DEF SeenOf
    <3>2. Live({}) = {}
      BY DEF Live
    <3>3. Counting({}, x)
      BY <1>2, <3>2, WeightEmpty DEF Counting
    <3>4. QED
      BY <1>2, <3>1, <3>3 DEF Right, Sizing
  <2>2. \A c \in Buckets : Right(c, index[c])' <=> Right(c, x)
    BY <1>1, <1>3, <1>4 DEF Right
  <2>3. QED
    BY <2>1, <2>2 DEF Listed
<1>7. Added'
  <2>1. \A a \in Accounts : a \in Resources /\ a \notin Buckets
    BY OfIs DEF Resources
  <2>2. \A a \in Accounts : index'[a].at # "fetch"
    BY <1>3, <2>1, NoIndexIs
  <2>3. QED
    BY <2>2 DEF Added
<1>8. Compared'
  <2>1. ASSUME NEW r \in settled'
        PROVE  Squares(r, index[r], repair[r])'
    <3>1. r \in Resources /\ Squares(r, index[r], repair[r])
      BY <1>1 DEF ReindexInv, ReindexTypes, Compared
    <3>2. index[r].at # "write" /\ index'[r].at # "write"
      BY <1>1, <1>2, <1>3, <3>1, NoIndexIs DEF ReindexInv, ReindexTypes
    <3>3. QED
      BY <1>1, <3>1, <3>2 DEF Squares
  <2>2. QED
    BY <2>1 DEF Compared
<1>9. QED
  BY <1>5, <1>6, <1>7, <1>8 DEF ReindexInv

\* The task ends, by itself or not.
Stops ==
  /\ running' = FALSE /\ failedIn' = {} /\ touched' = {}
  /\ index' = [r \in Resources |-> NoIndex]
  /\ UNCHANGED <<metadata, raw, late, repair, changes>>
  /\ errors' \in 0..MaxErrors

LEMMA StopsInv ==
  ASSUME ReindexInv, Stops, settled' \subseteq settled, \A r \in settled' : index[r].at # "write"
  PROVE  ReindexInv'
<1>1. index' \in [Resources -> Progressed] /\ \A r \in Resources : index'[r] = NoIndex
  BY NoIndexIs DEF Stops
<1>2. \A c \in Buckets : c \in Resources
  BY DEF Resources
<1>3. /\ running' = FALSE /\ failedIn' = {} /\ touched' = {} /\ errors' \in 0..MaxErrors
      /\ UNCHANGED <<metadata, raw, late, repair, changes>>
  BY DEF Stops
<1>4. ReindexTypes'
  <2>1. failedIn' = {c \in Buckets : index'[c].at = "failed"}
    BY <1>1, <1>2, <1>3, NoIndexIs
  <2>2. \A r \in Resources : index'[r].at = "none"
    BY <1>1, NoIndexIs
  <2>3. QED
    BY <1>1, <1>3, <2>1, <2>2 DEF ReindexInv, ReindexTypes
<1>5. Listed'
  <2>1. \A c \in Buckets : Right(c, index[c])'
    BY <1>1, <1>2, NoIndexIs DEF Right, Sizing
  <2>2. QED
    BY <2>1 DEF Listed
<1>6. Added'
  <2>1. \A a \in Accounts : index'[a].at # "fetch"
    BY <1>1, NoIndexIs DEF Resources
  <2>2. QED
    BY <2>1 DEF Added
<1>7. Compared'
  <2>1. ASSUME NEW r \in settled'
        PROVE  Squares(r, index[r], repair[r])'
    <3>1. r \in Resources /\ Squares(r, index[r], repair[r])
      BY DEF ReindexInv, ReindexTypes, Compared
    <3>2. index[r].at # "write" /\ index'[r].at # "write"
      BY <1>1, <2>1, <3>1, NoIndexIs
    <3>3. QED
      BY <1>3, <3>1, <3>2 DEF Squares
  <2>2. QED
    BY <2>1 DEF Compared
<1>8. QED
  BY <1>4, <1>5, <1>6, <1>7 DEF ReindexInv

LEMMA FinishedInv == ReindexInv /\ Finished => ReindexInv'
<1> SUFFICES ASSUME ReindexInv, Finished
             PROVE  ReindexInv'
  OBVIOUS
<1>1. Stops
  BY ErrorsBounded DEF Finished, Stops, sums, bounds
<1>2. settled' \subseteq settled /\ \A r \in settled' : index[r].at # "write"
  <2>1. settled' = settled /\ settled \subseteq Resources
    BY DEF Finished, ReindexInv, ReindexTypes
  <2>2. \A r \in Resources : index[r].at # "write"
    BY DEF Finished
  <2>3. QED
    BY <2>1, <2>2
<1>3. QED
  BY <1>1, <1>2, StopsInv

LEMMA DiesInv == ReindexInv /\ Dies => ReindexInv'
<1> SUFFICES ASSUME ReindexInv, Dies
             PROVE  ReindexInv'
  OBVIOUS
<1>1. Stops
  BY ErrorsBounded DEF Dies, Stops, sums
<1>2. settled' \subseteq settled /\ \A r \in settled' : index[r].at # "write"
  BY DEF Dies, ReindexInv, ReindexTypes
<1>3. QED
  BY <1>1, <1>2, StopsInv

\* An account is the sum of its buckets, when all of them were listed.
LEMMA SumAccountsInv == ReindexInv /\ SumAccounts => ReindexInv'
<1> SUFFICES ASSUME ReindexInv, SumAccounts
             PROVE  ReindexInv'
  OBVIOUS
<1> DEFINE total(a) == SumAll([b \in Of(a) |-> index[b].total], Of(a))
           x(a) == IF ToUpdate(a) THEN [NoIndex EXCEPT !.at = "fetch", !.total = total(a)]
                                  ELSE [NoIndex EXCEPT !.at = "done"]
<1>1. /\ running /\ \A b \in Buckets : index[b].at \in {"done", "failed"}
      /\ \A a \in Accounts : index[a].at = "none"
      /\ index' = [r \in Resources |-> IF r \in Buckets THEN index[r] ELSE x(r)]
      /\ UNCHANGED <<metadata, raw, late, repair, running, failedIn, changes, errors, touched, settled>>
  BY DEF SumAccounts, sums, bounds
<1>2. /\ DOMAIN metadata = Buckets /\ KeptIn(metadata)
      /\ index \in [Resources -> Progressed] /\ settled \subseteq Resources
      /\ failedIn = {b \in Buckets : index[b].at = "failed"}
  BY DEF ReindexInv, ReindexTypes
<1>3. ASSUME NEW a \in Resources
      PROVE  total(a) \in Pairs
  <2> DEFINE t == [b \in Of(a) |-> index[b].total]
  <2>1. \A b \in Of(a) : t[b] \in Pairs
    <3>1. \A b \in Of(a) : b \in Resources
      BY OfIs DEF Resources
    <3>2. QED
      BY <1>2, <3>1 DEF Progressed
  <2> HIDE DEF t
  <2>2. SumAll(t, Of(a)) \in Pairs
    BY <2>1, OfIs, SumAllType
  <2>3. QED
    BY <2>2 DEF t
<1>4. ASSUME NEW a \in Resources
      PROVE  /\ x(a) \in Progressed
             /\ x(a).at = IF ToUpdate(a) THEN "fetch" ELSE "done"
             /\ ToUpdate(a) => x(a).total = total(a)
  <2>1. PICK n \in Pairs : n = total(a)
    BY <1>3
  <2>2. x(a) = IF ToUpdate(a) THEN [NoIndex EXCEPT !.at = "fetch", !.total = n]
                              ELSE [NoIndex EXCEPT !.at = "done"]
    BY <2>1
  <2> HIDE DEF x, total
  <2>3. QED
    BY <2>1, <2>2, NoIndexIs DEF Progressed, ReindexStages
<1> HIDE DEF x
<1>5. /\ index' \in [Resources -> Progressed]
      /\ \A r \in Resources : index'[r] = IF r \in Buckets THEN index[r] ELSE x(r)
  BY <1>1, <1>2, <1>4
<1>6. \A c \in Buckets : c \in Resources
  BY DEF Resources
<1>7. ReindexTypes'
  <2>1. failedIn' = {c \in Buckets : index'[c].at = "failed"}
    BY <1>1, <1>2, <1>5, <1>6
  <2>2. QED
    BY <1>1, <1>5, <2>1 DEF ReindexInv, ReindexTypes
<1>8. Listed'
  <2>1. \A c \in Buckets : index'[c] = index[c]
    BY <1>5, <1>6
  <2>2. \A c \in Buckets : Right(c, index[c])' <=> Right(c, index[c])
    BY <1>1, <2>1 DEF Right
  <2>3. QED
    BY <1>1, <2>2 DEF ReindexInv, Listed
<1>9. Added'
  <2>1. ASSUME NEW a \in Accounts, index'[a].at = "fetch", Of(a) \cap touched' = {}
        PROVE  (index[a].total = TruthIn(metadata, a))'
    <3>1. a \in Resources /\ a \notin Buckets
      BY OfIs DEF Resources
    <3>2. index'[a] = x(a) /\ ToUpdate(a) /\ index'[a].total = total(a)
      BY <1>4, <1>5, <2>1, <3>1
    <3>3. ASSUME NEW b \in Of(a)
          PROVE  index[b].total = SizedIn(metadata, b)
      <4>1. b \in Buckets /\ b \notin touched
        BY <1>1, <2>1, <3>1, OfIs
      <4>2. index[b].at = "done"
        BY <1>1, <1>2, <3>2, <4>1 DEF ToUpdate
      <4>3. Right(b, index[b])
        BY <4>1 DEF ReindexInv, Listed
      <4>4. QED
        BY <4>2, <4>3 DEF Right, Sizing
    <3>4. [b \in Of(a) |-> index[b].total] = [b \in Of(a) |-> SizedIn(metadata, b)]
      BY <3>3
    <3>5. total(a) = TruthIn(metadata, a)
      BY <3>4 DEF TruthIn
    <3>6. QED
      BY <1>1, <3>2, <3>5
  <2>2. QED
    BY <2>1 DEF Added
<1>10. Compared'
  <2>1. ASSUME NEW r \in settled'
        PROVE  Squares(r, index[r], repair[r])'
    <3>1. r \in Resources /\ Squares(r, index[r], repair[r])
      BY <1>1, <1>2 DEF ReindexInv, Compared
    <3>2. CASE r \in Buckets
      BY <1>1, <1>5, <3>1, <3>2 DEF Squares
    <3>3. CASE r \notin Buckets
      <4>1. index[r].at # "write" /\ index'[r].at # "write"
        BY <1>1, <1>4, <1>5, <3>1, <3>3 DEF Resources
      <4>2. QED
        BY <1>1, <3>1, <4>1 DEF Squares
    <3>4. QED
      BY <3>2, <3>3
  <2>2. QED
    BY <2>1 DEF Compared
<1>11. QED
  BY <1>7, <1>8, <1>9, <1>10 DEF ReindexInv

LEMMA ReindexSteps == ReindexInv /\ [ReindexV2Next]_reindexVars => ReindexInv'
<1> SUFFICES ASSUME ReindexInv, [ReindexV2Next]_reindexVars
             PROVE  ReindexInv'
  OBVIOUS
<1>1. CASE \E x \in Changes : Change(x)
  BY <1>1, ChangeInv
<1>2. CASE IngestLate
  BY <1>2, IngestLateInv
<1>3. CASE Execute
  BY <1>3, ExecuteInv
<1>4. CASE SumAccounts
  BY <1>4, SumAccountsInv
<1>5. CASE Finished
  BY <1>5, FinishedInv
<1>6. CASE Dies
  BY <1>6, DiesInv
<1>7. CASE \E b \in Buckets : ListPage(b) \/ ListingFails(b)
  BY <1>7, ListPageInv, ListingFailsInv
<1>8. CASE \E r \in Resources : FetchCurrentMetrics(r) \/ UpdateMetric(r) \/ UpdateFails(r)
  BY <1>8, FetchCurrentMetricsInv, UpdateMetricInv, UpdateFailsInv
<1>9. CASE UNCHANGED reindexVars
  <2>1. UNCHANGED <<metadata, raw, late, repair, running, index, failedIn, changes, errors, touched, settled>>
    BY <1>9 DEF reindexVars
  <2>2. ReindexTypes'
    BY <2>1 DEF ReindexInv, ReindexTypes
  <2>3. Listed' /\ Added'
    BY <2>1 DEF ReindexInv, Listed, Added, Right
  <2>4. Compared'
    BY <2>1 DEF ReindexInv, Compared, Squares
  <2>5. QED
    BY <2>2, <2>3, <2>4 DEF ReindexInv
<1>10. QED
  BY <1>1, <1>2, <1>3, <1>4, <1>5, <1>6, <1>7, <1>8, <1>9 DEF ReindexV2Next

LEMMA ReindexInvariant == ReindexV2Spec => []ReindexInv
<1>1. ReindexV2Init /\ MetadataKept => ReindexInv
  BY ReindexBegins
<1>2. ReindexInv /\ [ReindexV2Next]_reindexVars => ReindexInv'
  BY ReindexSteps
<1>3. QED
  BY <1>1, <1>2, PTL DEF ReindexV2Spec

\* Whatever the service changes and whichever requests fail, a resource that was
\* compared undisturbed is right from its correction on.
THEOREM ReindexRightCorrect == ReindexV2Spec => []ReindexRight
<1>1. ReindexInv => ReindexRight
  BY TruthOf DEF ReindexInv, Compared, Squares, ReindexRight
<1>2. QED
  BY <1>1, ReindexInvariant, PTL

\* Every variable of the reindex keeps its type, and failedIn names the buckets
\* whose listing failed.
THEOREM ReindexTypesCorrect == ReindexV2Spec => []ReindexV2TypeOK
<1>1. ReindexInv => ReindexV2TypeOK
  BY DEF ReindexInv, ReindexTypes, ReindexV2TypeOK, Progressed, ReindexStages
<1>2. QED
  BY <1>1, ReindexInvariant, PTL

\* Whichever tasks step beside each other, in any order, with whatever failures and
\* restarts, the store, the counters and the tasks keep their types.
THEOREM V2TypesCorrect == StorageSpec /\ DiskSpec /\ MigrateSpec /\ ReindexV2Spec => []V2TypeOK
<1>1. StorageTypeOK /\ DiskTypeOK /\ MigrateTypeOK /\ ReindexV2TypeOK => V2TypeOK
  BY DEF V2TypeOK
<1>2. QED
  BY <1>1, StorageTypes, DiskTypesCorrect, MigrateTypesCorrect, ReindexTypesCorrect, PTL
=============================================================================
