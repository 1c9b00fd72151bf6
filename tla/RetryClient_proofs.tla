------------------------- MODULE RetryClient_proofs -------------------------
(***************************************************************************)
(* The safety of the retry cache, proved for any number of metrics and     *)
(* faults, any size of a chunk and any limit of the cache.                 *)
(*                                                                         *)
(* The invariant follows a metric that the API has: unless an answer was   *)
(* lost it is settled, which means that no drain will read it again.       *)
(***************************************************************************)
EXTENDS RetryClient, FiniteSetTheorems, TLAPS

\* The types, without the bounds on the counters.
Types ==
  /\ push \in [Metric -> {"new", "sending", "failed", "put", "ok", "rejected"}]
  /\ num \in Nat
  /\ timer \in [set : BOOLEAN, pending : BOOLEAN]
  /\ enabled \in BOOLEAN
  /\ drain \in [phase : {"idle", "preflight", "upload"}, unread : SUBSET Metric,
                toRemove : SUBSET Metric, empty : BOOLEAN]
  /\ join \in {"open", "threw", "flushing", "closed"}
  /\ cache \in SUBSET Metric /\ unanswered \in SUBSET Metric
  /\ logged \in SUBSET Metric /\ straggled \in SUBSET Metric
  /\ received \in [Metric -> Nat]
  /\ faults \in 0..MaxFaults

\* A timeout is pending only while the timer is set, which it stays during a
\* drain unless drains are disabled.
Timed ==
  /\ timer.pending => timer.set
  /\ drain.phase # "idle" => ~timer.pending /\ (enabled => timer.set)

\* The cache, and what a drain has read of it, hold metrics that were put.
Entries ==
  \A m \in Metric : m \in cache \/ m \in drain.unread => push[m] \in {"put", "ok"}

\* A drain has something only while it uploads, and removes what the API has.
Drained ==
  /\ drain.phase # "upload" => drain.unread = {} /\ drain.toRemove = {}
  /\ \A m \in drain.toRemove : received[m] > 0

\* No drain will read the metric again.
Settled(m) ==
  /\ push[m] \in {"put", "ok"}
  /\ m \notin drain.unread
  /\ m \in cache => m \in drain.toRemove \/ join = "closed"

\* Each fault can cost one more delivery, and a delivery that was answered is
\* the last.
Sent ==
  \A m \in Metric :
    /\ received[m] =< faults + 1
    /\ received[m] = faults + 1 => Settled(m)
    /\ received[m] > 0 /\ m \notin unanswered => received[m] = 1 /\ Settled(m)

\* What the cache holds from when join() found it empty came in since.
Flushed == join \in {"flushing", "closed"} => cache \subseteq straggled

Kept ==
  \A m \in Metric :
    /\ push[m] \in {"put", "ok"} /\ m \notin straggled =>
         received[m] > 0 \/ (m \in cache /\ join # "closed")
    /\ push[m] = "rejected" => m \in logged

\* Each metric is counted once at most.
Unconfirmed == {m \in Metric : push[m] \in {"new", "sending", "failed", "put"}}
Numbered == num + Cardinality(Unconfirmed) =< Cardinality(Metric)

Puts == {m \in Metric : push[m] = "put"}

ClientInv ==
  Types /\ Timed /\ Entries /\ Drained /\ Sent /\ Flushed /\ Kept /\ Numbered /\ CacheIsCapped
-----------------------------------------------------------------------------
LEMMA Finite ==
  ASSUME NEW S \in SUBSET Metric
  PROVE  IsFiniteSet(S) /\ Cardinality(S) \in Nat
  BY ClientAssumption, FS_Subset, FS_CardinalityType

\* An entry may leave the cache and a metric its push, but none comes in.
LEMMA CountsKept ==
  ASSUME Types, Numbered, CacheIsCapped, num' = num, cache' \in SUBSET cache,
         Puts' = Puts, Unconfirmed' \in SUBSET Unconfirmed
  PROVE  Numbered' /\ CacheIsCapped'
<1>1. /\ Cardinality(Unconfirmed') =< Cardinality(Unconfirmed)
      /\ Cardinality(cache') =< Cardinality(cache)
  <2>1. Unconfirmed \in SUBSET Metric /\ cache \in SUBSET Metric
    BY DEF Types, Unconfirmed
  <2>2. QED
    BY <2>1, Finite, FS_Subset
<1>2. /\ Cardinality(Unconfirmed) \in Nat /\ Cardinality(Unconfirmed') \in Nat
      /\ Cardinality(cache) \in Nat /\ Cardinality(cache') \in Nat
      /\ Cardinality(Puts) \in Nat /\ Cardinality(Metric) \in Nat
  <2>1. /\ Unconfirmed \in SUBSET Metric /\ Unconfirmed' \in SUBSET Metric
        /\ cache \in SUBSET Metric /\ cache' \in SUBSET Metric
        /\ Puts \in SUBSET Metric /\ Metric \in SUBSET Metric
    BY DEF Types, Unconfirmed, Puts
  <2>2. QED
    BY <2>1, Finite
<1>3. Cardinality(cache) =< num + Cardinality(Puts)
  BY DEF CacheIsCapped, Puts
<1>4. Cardinality(cache') =< num' + Cardinality(Puts') => CacheIsCapped'
  BY DEF CacheIsCapped, Puts
<1>5. num \in Nat
  BY DEF Types
<1>6. Numbered'
  BY <1>1, <1>2, <1>5 DEF Numbered
<1>7. CacheIsCapped'
  BY <1>1, <1>2, <1>3, <1>4, <1>5
<1>8. QED
  BY <1>6, <1>7

LEMMA SentKept ==
  ASSUME Sent, UNCHANGED <<received, unanswered, faults>>,
         \A m \in Metric : Settled(m) => Settled(m)'
  PROVE  Sent'
  BY DEF Sent
-----------------------------------------------------------------------------
LEMMA InitInv == Init => ClientInv
<1> SUFFICES ASSUME Init
             PROVE  ClientInv
  OBVIOUS
<1>1. Types
  BY ClientAssumption DEF Init, Types, NoTimer, NoDrain
<1>2. Timed /\ Entries /\ Drained /\ Flushed
  BY DEF Init, Timed, Entries, Drained, Flushed, NoTimer, NoDrain
<1>3. Sent /\ Kept
  BY DEF Init, Sent, Kept
<1>4. Numbered /\ CacheIsCapped
  <2>1. Unconfirmed = Metric /\ Puts = {} /\ cache = {} /\ num = 0
    BY DEF Init, Unconfirmed, Puts
  <2>2. Cardinality(Metric) \in Nat
    BY Finite
  <2>3. Cardinality({}) = 0
    BY FS_EmptySet
  <2>4. Numbered
    BY <2>1, <2>2 DEF Numbered
  <2>5. Cardinality(cache) =< num + Cardinality(Puts)
    BY <2>1, <2>3
  <2>6. QED
    BY <2>4, <2>5 DEF CacheIsCapped, Puts
<1>5. QED
  BY <1>1, <1>2, <1>3, <1>4 DEF ClientInv

LEMMA PushMetricInv ==
  ASSUME ClientInv, NEW m \in Metric, pushMetric(m)
  PROVE  ClientInv'
<1>1. /\ push[m] = "new" /\ push' = [push EXCEPT ![m] = "sending"]
      /\ UNCHANGED <<logged, cache, num, timer, enabled, drain, join, straggled,
                     received, unanswered, faults>>
  BY DEF pushMetric, Becomes, retries, joining, network
<1>2. Types'
  BY <1>1 DEF ClientInv, Types
<1>3. Timed' /\ Drained' /\ Flushed'
  BY <1>1 DEF ClientInv, Timed, Drained, Flushed
<1>4. Entries'
  BY <1>1 DEF ClientInv, Types, Entries
<1>5. Sent'
  BY <1>1, SentKept DEF ClientInv, Types, Settled
<1>6. Kept'
  BY <1>1 DEF ClientInv, Types, Kept
<1>7. Numbered' /\ CacheIsCapped'
  <2>1. Puts' = Puts /\ Unconfirmed' \in SUBSET Unconfirmed
    BY <1>1 DEF ClientInv, Types, Puts, Unconfirmed
  <2>2. QED
    BY <1>1, <2>1, CountsKept DEF ClientInv
<1>8. QED
  BY <1>2, <1>3, <1>4, <1>5, <1>6, <1>7 DEF ClientInv

LEMMA AnsweredInv ==
  ASSUME ClientInv, NEW m \in Metric, Answered(m)
  PROVE  ClientInv'
<1>1. /\ push[m] = "sending" /\ push' = [push EXCEPT ![m] = "ok"]
      /\ received' = [x \in Metric |-> received[x] + IF x \in {m} THEN 1 ELSE 0]
      /\ UNCHANGED <<logged, cache, num, timer, enabled, drain, join, straggled,
                     unanswered, faults>>
  BY DEF Answered, Becomes, Succeed, Deliver, retries, joining
<1>2. Types'
  BY <1>1 DEF ClientInv, Types
<1>3. Timed' /\ Flushed'
  BY <1>1 DEF ClientInv, Timed, Flushed
<1>4. Drained'
  BY <1>1 DEF ClientInv, Types, Drained
<1>5. Entries'
  BY <1>1 DEF ClientInv, Types, Entries
<1>6. Sent'
  <2>1. m \notin cache /\ m \notin drain.unread
    BY <1>1 DEF ClientInv, Entries
  <2>2. Settled(m)' /\ ~Settled(m)
    BY <1>1, <2>1 DEF ClientInv, Types, Settled
  <2>3. \A x \in Metric \ {m} : Settled(x) => Settled(x)'
    BY <1>1 DEF ClientInv, Types, Settled
  <2>4. received[m] =< faults /\ (m \notin unanswered => received[m] = 0)
    BY <2>2 DEF ClientInv, Types, Sent
  <2>5. SUFFICES ASSUME NEW x \in Metric
                 PROVE  /\ received'[x] =< faults + 1
                        /\ received'[x] = faults + 1 => Settled(x)'
                        /\ received'[x] > 0 /\ x \notin unanswered =>
                             received'[x] = 1 /\ Settled(x)'
    BY <1>1 DEF Sent
  <2>6. CASE x = m
    BY <1>1, <2>2, <2>4, <2>6 DEF ClientInv, Types
  <2>7. CASE x # m
    BY <1>1, <2>3, <2>7 DEF ClientInv, Types, Sent
  <2>8. QED
    BY <2>6, <2>7
<1>7. Kept'
  BY <1>1 DEF ClientInv, Types, Kept
<1>8. Numbered' /\ CacheIsCapped'
  <2>1. Puts' = Puts /\ Unconfirmed' \in SUBSET Unconfirmed
    BY <1>1 DEF ClientInv, Types, Puts, Unconfirmed
  <2>2. QED
    BY <1>1, <2>1, CountsKept DEF ClientInv
<1>9. QED
  BY <1>2, <1>3, <1>4, <1>5, <1>6, <1>7, <1>8 DEF ClientInv
LEMMA PushFailedInv ==
  ASSUME ClientInv, NEW m \in Metric, PushFailed(m)
  PROVE  ClientInv'
<1>1. /\ push[m] = "sending" /\ push' = [push EXCEPT ![m] = "failed"]
      /\ faults < MaxFaults /\ faults' = faults + 1
      /\ \/ /\ received' = [x \in Metric |-> received[x] + IF x \in {m} THEN 1 ELSE 0]
            /\ unanswered' = unanswered \cup {m}
         \/ received' = received /\ unanswered' = unanswered
      /\ UNCHANGED <<logged, cache, num, timer, enabled, drain, join, straggled>>
  BY DEF PushFailed, Becomes, Lose, Deliver, retries, joining
<1>2. Types'
  BY <1>1, ClientAssumption DEF ClientInv, Types
<1>3. Timed' /\ Flushed'
  BY <1>1 DEF ClientInv, Timed, Flushed
<1>4. Drained'
  BY <1>1 DEF ClientInv, Types, Drained
<1>5. Entries'
  BY <1>1 DEF ClientInv, Types, Entries
<1>6. Sent'
  <2>1. \A x \in Metric : Settled(x) => Settled(x)'
    BY <1>1 DEF ClientInv, Types, Settled
  <2>2. ~Settled(m)
    BY <1>1 DEF Settled
  <2>3. received[m] =< faults /\ (received[m] > 0 => m \in unanswered)
    BY <2>2 DEF ClientInv, Types, Sent
  <2>4. SUFFICES ASSUME NEW x \in Metric
                 PROVE  /\ received'[x] =< faults'
                        /\ received'[x] > 0 /\ x \notin unanswered' =>
                             received'[x] = 1 /\ Settled(x)'
    BY <1>1 DEF Sent, ClientInv, Types
  <2>5. CASE x = m
    BY <1>1, <2>3, <2>5 DEF ClientInv, Types
  <2>6. CASE x # m
    BY <1>1, <2>1, <2>6 DEF ClientInv, Types, Sent
  <2>7. QED
    BY <2>5, <2>6
<1>7. Kept'
  BY <1>1 DEF ClientInv, Types, Kept
<1>8. Numbered' /\ CacheIsCapped'
  <2>1. Puts' = Puts /\ Unconfirmed' \in SUBSET Unconfirmed
    BY <1>1 DEF ClientInv, Types, Puts, Unconfirmed
  <2>2. QED
    BY <1>1, <2>1, CountsKept DEF ClientInv
<1>9. QED
  BY <1>2, <1>3, <1>4, <1>5, <1>6, <1>7, <1>8 DEF ClientInv

\* The entry and the put that stands for it come together.
LEMMA AddToRetryCacheInv ==
  ASSUME ClientInv, NEW m \in Metric, AddToRetryCache(m)
  PROVE  ClientInv'
<1>1. /\ push[m] = "failed"
      /\ UNCHANGED <<num, timer, enabled, drain, join, received, unanswered, faults>>
  BY DEF AddToRetryCache, network
<1>2. ~Settled(m)
  BY <1>1 DEF Settled
<1>3. CASE num < MaxCached /\ join # "closed"
  <2>1. /\ cache' = cache \cup {m} /\ push' = [push EXCEPT ![m] = "put"]
        /\ straggled' = (IF join = "flushing" THEN straggled \cup {m} ELSE straggled)
        /\ UNCHANGED logged
    BY <1>3 DEF AddToRetryCache, Becomes
  <2>2. Types'
    BY <1>1, <2>1 DEF ClientInv, Types
  <2>3. Timed' /\ Drained' /\ Flushed'
    BY <1>1, <1>3, <2>1 DEF ClientInv, Timed, Drained, Flushed
  <2>4. Entries'
    BY <1>1, <2>1 DEF ClientInv, Types, Entries
  <2>5. Sent'
    <3>1. \A x \in Metric : Settled(x) => Settled(x)'
      BY <1>1, <1>2, <2>1 DEF ClientInv, Types, Settled
    <3>2. QED
      BY <1>1, <3>1, SentKept DEF ClientInv
  <2>6. Kept'
    BY <1>1, <1>3, <2>1 DEF ClientInv, Types, Kept
  <2>7. Numbered'
    <3>1. Unconfirmed' = Unconfirmed
      BY <1>1, <2>1 DEF ClientInv, Types, Unconfirmed
    <3>2. QED
      BY <1>1, <3>1 DEF ClientInv, Numbered
  <2>8. CacheIsCapped'
    <3>1. Puts' = Puts \cup {m} /\ m \notin Puts
      BY <1>1, <2>1 DEF ClientInv, Types, Puts
    <3>2. Puts \in SUBSET Metric /\ cache \in SUBSET Metric /\ cache' \in SUBSET Metric
      BY <2>1 DEF ClientInv, Types, Puts
    <3>3. Cardinality(Puts') = Cardinality(Puts) + 1
      BY <3>1, <3>2, Finite, FS_AddElement
    <3>4. Cardinality(cache') =< Cardinality(cache) + 1
      <4>1. Cardinality(cache) \in Nat
        BY <3>2, Finite
      <4>2. QED
        BY <2>1, <3>2, <4>1, Finite, FS_AddElement
    <3>5. /\ Cardinality(Puts) \in Nat /\ Cardinality(cache) \in Nat
          /\ Cardinality(cache') \in Nat /\ num \in Nat
      BY <3>2, Finite DEF ClientInv, Types
    <3>6. Cardinality(cache) =< num + Cardinality(Puts)
      BY DEF ClientInv, CacheIsCapped, Puts
    <3>7. Cardinality(cache') =< num' + Cardinality(Puts')
      BY <1>1, <3>3, <3>4, <3>5, <3>6
    <3>8. QED
      BY <3>7 DEF CacheIsCapped, Puts
  <2>9. QED
    BY <2>2, <2>3, <2>4, <2>5, <2>6, <2>7, <2>8 DEF ClientInv
<1>4. CASE ~(num < MaxCached /\ join # "closed")
  <2>1. /\ push' = [push EXCEPT ![m] = "rejected"] /\ logged' = logged \cup {m}
        /\ UNCHANGED <<cache, straggled>>
    BY <1>4 DEF AddToRetryCache, Becomes
  <2>2. Types'
    BY <1>1, <2>1 DEF ClientInv, Types
  <2>3. Timed' /\ Drained' /\ Flushed'
    BY <1>1, <2>1 DEF ClientInv, Timed, Drained, Flushed
  <2>4. Entries'
    BY <1>1, <2>1 DEF ClientInv, Types, Entries
  <2>5. Sent'
    <3>1. \A x \in Metric : Settled(x) => Settled(x)'
      BY <1>1, <1>2, <2>1 DEF ClientInv, Types, Settled
    <3>2. QED
      BY <1>1, <3>1, SentKept DEF ClientInv
  <2>6. Kept'
    BY <1>1, <2>1 DEF ClientInv, Types, Kept
  <2>7. Numbered' /\ CacheIsCapped'
    <3>1. Puts' = Puts /\ Unconfirmed' \in SUBSET Unconfirmed /\ cache' \in SUBSET cache
      BY <1>1, <2>1 DEF ClientInv, Types, Puts, Unconfirmed
    <3>2. QED
      BY <1>1, <3>1, CountsKept DEF ClientInv
  <2>8. QED
    BY <2>2, <2>3, <2>4, <2>5, <2>6, <2>7 DEF ClientInv
<1>5. QED
  BY <1>3, <1>4

\* The counter takes the place of the put.
LEMMA StoredInv ==
  ASSUME ClientInv, NEW m \in Metric, Stored(m)
  PROVE  ClientInv'
<1>1. /\ push[m] = "put" /\ push' = [push EXCEPT ![m] = "ok"] /\ num' = num + 1
      /\ timer' = (IF enabled /\ ~timer.set THEN [set |-> TRUE, pending |-> TRUE] ELSE timer)
      /\ UNCHANGED <<logged, cache, enabled, drain, join, straggled,
                     received, unanswered, faults>>
  BY DEF Stored, Becomes, Counted, Scheduled, joining, network
<1>2. Types'
  BY <1>1 DEF ClientInv, Types
<1>3. Timed'
  BY <1>1 DEF ClientInv, Types, Timed
<1>4. Drained' /\ Flushed'
  BY <1>1 DEF ClientInv, Drained, Flushed
<1>5. Entries'
  BY <1>1 DEF ClientInv, Types, Entries
<1>6. Sent'
  BY <1>1, SentKept DEF ClientInv, Types, Settled
<1>7. Kept'
  BY <1>1 DEF ClientInv, Types, Kept
<1>8. /\ Puts' = Puts \ {m} /\ m \in Puts /\ Puts \in SUBSET Metric
      /\ Unconfirmed' = Unconfirmed \ {m} /\ m \in Unconfirmed /\ Unconfirmed \in SUBSET Metric
  BY <1>1 DEF ClientInv, Types, Puts, Unconfirmed
<1>9. /\ Cardinality(Puts') = Cardinality(Puts) - 1
      /\ Cardinality(Unconfirmed') = Cardinality(Unconfirmed) - 1
  BY <1>8, Finite, FS_RemoveElement
<1>10. /\ Cardinality(Puts) \in Nat /\ Cardinality(Unconfirmed) \in Nat
       /\ Cardinality(cache) \in Nat /\ Cardinality(Metric) \in Nat /\ num \in Nat
  <2>1. cache \in SUBSET Metric /\ Metric \in SUBSET Metric /\ num \in Nat
    BY DEF ClientInv, Types
  <2>2. QED
    BY <1>8, <2>1, Finite
<1>11. Numbered'
  BY <1>1, <1>9, <1>10 DEF ClientInv, Numbered
<1>12. CacheIsCapped'
  <2>1. Cardinality(cache) =< num + Cardinality(Puts)
    BY DEF ClientInv, CacheIsCapped, Puts
  <2>2. Cardinality(cache') =< num' + Cardinality(Puts')
    BY <1>1, <1>9, <1>10, <2>1
  <2>3. QED
    BY <2>2 DEF CacheIsCapped, Puts
<1>13. QED
  BY <1>2, <1>3, <1>4, <1>5, <1>6, <1>7, <1>11, <1>12 DEF ClientInv
-----------------------------------------------------------------------------
LEMMA AttemptDrainInv ==
  ASSUME ClientInv, AttemptDrain
  PROVE  ClientInv'
<1>1. /\ timer.pending /\ timer' = [timer EXCEPT !.pending = FALSE]
      /\ drain' = [NoDrain EXCEPT !.phase = "preflight"]
      /\ UNCHANGED <<push, cache, num, enabled, logged, join, straggled,
                     received, unanswered, faults>>
  BY DEF AttemptDrain, Fired, joining, network
<1>2. timer.set /\ drain.unread = {} /\ drain.toRemove = {}
  BY <1>1 DEF ClientInv, Types, Timed, Drained
<1>3. /\ drain'.phase = "preflight" /\ drain'.unread = {} /\ drain'.toRemove = {}
      /\ drain' \in [phase : {"idle", "preflight", "upload"}, unread : SUBSET Metric,
                     toRemove : SUBSET Metric, empty : BOOLEAN]
  BY <1>1 DEF NoDrain
<1>4. Types'
  BY <1>1, <1>3 DEF ClientInv, Types
<1>5. Timed'
  BY <1>1, <1>2 DEF ClientInv, Types, Timed
<1>6. Drained' /\ Flushed' /\ Entries' /\ Kept'
  BY <1>1, <1>3 DEF ClientInv, Drained, Flushed, Entries, Kept
<1>7. Sent'
  BY <1>1, <1>2, <1>3, SentKept DEF ClientInv, Settled
<1>8. Numbered' /\ CacheIsCapped'
  BY <1>1 DEF ClientInv, Numbered, CacheIsCapped, Unconfirmed
<1>9. QED
  BY <1>4, <1>5, <1>6, <1>7, <1>8 DEF ClientInv

\* A drain that ends before it read the cache.
LEMMA DrainGivenUp ==
  ASSUME ClientInv, drain.phase = "preflight", drain' = NoDrain,
         timer' \in [set : BOOLEAN, pending : BOOLEAN],
         ~timer'.pending \/ timer'.set,
         faults' \in 0..MaxFaults, faults' >= faults,
         UNCHANGED <<push, cache, num, enabled, logged, join, straggled,
                     received, unanswered>>
  PROVE  ClientInv'
<1>1. drain.unread = {} /\ drain.toRemove = {}
  BY DEF ClientInv, Drained
<1>2. /\ drain'.phase = "idle" /\ drain'.unread = {} /\ drain'.toRemove = {}
      /\ drain' \in [phase : {"idle", "preflight", "upload"}, unread : SUBSET Metric,
                     toRemove : SUBSET Metric, empty : BOOLEAN]
  BY DEF NoDrain
<1>3. Types'
  BY <1>2 DEF ClientInv, Types
<1>4. Timed'
  BY <1>2 DEF Timed
<1>5. Drained' /\ Flushed' /\ Entries' /\ Kept'
  BY <1>2 DEF ClientInv, Drained, Flushed, Entries, Kept
<1>6. \A m \in Metric : Settled(m) => Settled(m)'
  BY <1>1, <1>2 DEF Settled
<1>7. Sent'
  BY <1>6 DEF ClientInv, Types, Sent
<1>8. Numbered' /\ CacheIsCapped'
  BY DEF ClientInv, Numbered, CacheIsCapped, Unconfirmed
<1>9. QED
  BY <1>3, <1>4, <1>5, <1>7, <1>8 DEF ClientInv

LEMMA PreflightFailedInv ==
  ASSUME ClientInv, PreflightFailed
  PROVE  ClientInv'
<1>1. timer' \in [set : BOOLEAN, pending : BOOLEAN] /\ ~timer'.pending
  BY DEF ClientInv, Types, Timed, PreflightFailed
<1>2. faults' \in 0..MaxFaults /\ faults' >= faults
  BY ClientAssumption DEF ClientInv, Types, PreflightFailed
<1>3. QED
  BY <1>1, <1>2, DrainGivenUp DEF PreflightFailed, joining

\* What a drain reads is in the cache, so that no metric it reads is settled.
LEMMA PreflightInv ==
  ASSUME ClientInv, Preflight
  PROVE  ClientInv'
<1>1. /\ drain.phase = "preflight"
      /\ UNCHANGED <<push, cache, num, enabled, logged, join, straggled,
                     received, unanswered, faults>>
  BY DEF Preflight, joining, network
<1>2. CASE join = "closed"
  <2>1. drain' = NoDrain /\ timer' = Attempted(FALSE)
    BY <1>2 DEF Preflight
  <2>2. timer' \in [set : BOOLEAN, pending : BOOLEAN] /\ ~timer'.pending
    BY <1>1, <2>1 DEF ClientInv, Types, Timed, Attempted, Scheduled
  <2>3. faults' \in 0..MaxFaults /\ faults' >= faults
    BY <1>1 DEF ClientInv, Types
  <2>4. QED
    BY <1>1, <2>1, <2>2, <2>3, DrainGivenUp
<1>3. CASE join # "closed"
  <2>1. drain' = [drain EXCEPT !.phase = "upload", !.unread = cache] /\ UNCHANGED timer
    BY <1>3 DEF Preflight
  <2>2. drain.toRemove = {} /\ drain.unread = {}
    BY <1>1 DEF ClientInv, Drained
  <2>3. drain'.phase = "upload" /\ drain'.unread = cache /\ drain'.toRemove = {}
    BY <2>1, <2>2 DEF ClientInv, Types
  <2>4. Types'
    BY <1>1, <2>1 DEF ClientInv, Types
  <2>5. Timed'
    BY <1>1, <2>1 DEF ClientInv, Timed
  <2>6. Drained' /\ Flushed' /\ Entries' /\ Kept'
    BY <1>1, <2>3 DEF ClientInv, Drained, Flushed, Entries, Kept
  <2>7. \A m \in Metric : Settled(m) => Settled(m)'
    BY <1>1, <1>3, <2>2, <2>3 DEF Settled
  <2>8. Sent'
    BY <1>1, <2>7, SentKept DEF ClientInv
  <2>9. Numbered' /\ CacheIsCapped'
    BY <1>1 DEF ClientInv, Numbered, CacheIsCapped, Unconfirmed
  <2>10. QED
    BY <2>4, <2>5, <2>6, <2>8, <2>9 DEF ClientInv
<1>4. QED
  BY <1>2, <1>3

\* The metrics of the chunk were not settled, and are now.
LEMMA UploadInv ==
  ASSUME ClientInv, NEW C \in Chunks, Upload(C)
  PROVE  ClientInv'
<1>1. /\ drain.phase = "upload" /\ C \subseteq drain.unread
      /\ drain' = [drain EXCEPT !.unread = @ \ C, !.toRemove = @ \cup C]
      /\ received' = [x \in Metric |-> received[x] + IF x \in C THEN 1 ELSE 0]
      /\ UNCHANGED <<push, cache, num, timer, enabled, logged, join, straggled,
                     unanswered, faults>>
  BY DEF Upload, Chunks, Succeed, Deliver, joining
<1>2. /\ drain'.phase = "upload" /\ drain'.unread = drain.unread \ C
      /\ drain'.toRemove = drain.toRemove \cup C
      /\ drain' \in [phase : {"idle", "preflight", "upload"}, unread : SUBSET Metric,
                     toRemove : SUBSET Metric, empty : BOOLEAN]
  BY <1>1 DEF ClientInv, Types
<1>3. Types'
  BY <1>1, <1>2 DEF ClientInv, Types
<1>4. Timed' /\ Flushed'
  BY <1>1, <1>2 DEF ClientInv, Timed, Flushed
<1>5. Drained'
  BY <1>1, <1>2 DEF ClientInv, Types, Drained
<1>6. Entries'
  BY <1>1, <1>2 DEF ClientInv, Entries
<1>7. Sent'
  <2>1. \A x \in Metric : Settled(x) => x \notin C /\ Settled(x)'
    BY <1>1, <1>2 DEF Settled
  <2>2. \A x \in Metric : x \in C => Settled(x)'
    BY <1>1, <1>2 DEF ClientInv, Entries, Settled
  <2>3. SUFFICES ASSUME NEW x \in Metric
                 PROVE  /\ received'[x] =< faults + 1
                        /\ received'[x] = faults + 1 => Settled(x)'
                        /\ received'[x] > 0 /\ x \notin unanswered =>
                             received'[x] = 1 /\ Settled(x)'
    BY <1>1 DEF Sent
  <2>4. CASE x \in C
    <3>1. received[x] =< faults /\ (x \notin unanswered => received[x] = 0)
      BY <2>1, <2>4 DEF ClientInv, Types, Sent
    <3>2. QED
      BY <1>1, <2>2, <2>4, <3>1 DEF ClientInv, Types
  <2>5. CASE x \notin C
    BY <1>1, <2>1, <2>5 DEF ClientInv, Types, Sent
  <2>6. QED
    BY <2>4, <2>5
<1>8. Kept'
  BY <1>1 DEF ClientInv, Types, Kept
<1>9. Numbered' /\ CacheIsCapped'
  BY <1>1 DEF ClientInv, Numbered, CacheIsCapped, Unconfirmed
<1>10. QED
  BY <1>3, <1>4, <1>5, <1>6, <1>7, <1>8, <1>9 DEF ClientInv

LEMMA UploadFailedInv ==
  ASSUME ClientInv, NEW C \in Chunks, UploadFailed(C)
  PROVE  ClientInv'
<1>1. /\ drain.phase = "upload" /\ C \subseteq drain.unread
      /\ drain' = [drain EXCEPT !.unread = @ \ C, !.empty = FALSE, !.toRemove = @ \cup {}]
      /\ faults < MaxFaults /\ faults' = faults + 1
      /\ \/ /\ received' = [x \in Metric |-> received[x] + IF x \in C THEN 1 ELSE 0]
            /\ unanswered' = unanswered \cup C
         \/ received' = received /\ unanswered' = unanswered
      /\ UNCHANGED <<push, cache, num, timer, enabled, logged, join, straggled>>
  BY DEF UploadFailed, Chunks, FailedKeys, Lose, Deliver, joining
<1>2. /\ drain'.phase = "upload" /\ drain'.unread = drain.unread \ C
      /\ drain'.toRemove = drain.toRemove
      /\ drain' \in [phase : {"idle", "preflight", "upload"}, unread : SUBSET Metric,
                     toRemove : SUBSET Metric, empty : BOOLEAN]
  BY <1>1 DEF ClientInv, Types
<1>3. Types'
  <2>1. faults' \in 0..MaxFaults
    BY <1>1, ClientAssumption DEF ClientInv, Types
  <2>2. received' \in [Metric -> Nat] /\ unanswered' \in SUBSET Metric
    BY <1>1 DEF ClientInv, Types
  <2>3. QED
    BY <1>1, <1>2, <2>1, <2>2 DEF ClientInv, Types
<1>4. Timed' /\ Flushed'
  BY <1>1, <1>2 DEF ClientInv, Timed, Flushed
<1>5. Drained'
  BY <1>1, <1>2 DEF ClientInv, Types, Drained
<1>6. Entries'
  BY <1>1, <1>2 DEF ClientInv, Entries
<1>7. Sent'
  <2>1. \A x \in Metric : Settled(x) => x \notin C /\ Settled(x)'
    BY <1>1, <1>2 DEF Settled
  <2>2. SUFFICES ASSUME NEW x \in Metric
                 PROVE  /\ received'[x] =< faults'
                        /\ received'[x] > 0 /\ x \notin unanswered' =>
                             received'[x] = 1 /\ Settled(x)'
    BY <1>1 DEF Sent, ClientInv, Types
  <2>3. /\ received[x] =< faults + 1
        /\ Settled(x) \/ received[x] =< faults
        /\ received[x] > 0 /\ x \notin unanswered => received[x] = 1 /\ Settled(x)
    BY DEF ClientInv, Types, Sent
  <2>4. QED
    BY <1>1, <2>1, <2>3 DEF ClientInv, Types
<1>8. Kept'
  BY <1>1 DEF ClientInv, Types, Kept
<1>9. Numbered' /\ CacheIsCapped'
  BY <1>1 DEF ClientInv, Numbered, CacheIsCapped, Unconfirmed
<1>10. QED
  BY <1>3, <1>4, <1>5, <1>6, <1>7, <1>8, <1>9 DEF ClientInv

\* What the drain removes the API has; what it leaves is settled only if the
\* cache is closed.
LEMMA EndDrainInv ==
  ASSUME ClientInv, EndDrain
  PROVE  ClientInv'
<1>1. /\ drain.phase = "upload" /\ drain' = NoDrain
      /\ cache' = (IF join = "closed" THEN cache ELSE cache \ drain.toRemove)
      /\ timer' = Attempted(drain.empty /\ join # "closed")
      /\ UNCHANGED <<push, num, enabled, logged, join, straggled,
                     received, unanswered, faults>>
  BY DEF EndDrain, CacheLeft, joining, network
<1>2. /\ drain'.phase = "idle" /\ drain'.unread = {} /\ drain'.toRemove = {}
      /\ drain' \in [phase : {"idle", "preflight", "upload"}, unread : SUBSET Metric,
                     toRemove : SUBSET Metric, empty : BOOLEAN]
  BY <1>1 DEF NoDrain
<1>3. timer' \in [set : BOOLEAN, pending : BOOLEAN] /\ ~timer'.pending
  BY <1>1 DEF ClientInv, Types, Timed, Attempted, Scheduled
<1>4. cache' \in SUBSET cache
  BY <1>1
<1>5. Types'
  BY <1>1, <1>2, <1>3, <1>4 DEF ClientInv, Types
<1>6. Timed' /\ Drained'
  BY <1>2, <1>3 DEF Timed, Drained
<1>7. Flushed' /\ Entries'
  BY <1>1, <1>2, <1>4 DEF ClientInv, Flushed, Entries
<1>8. Sent'
  <2>1. \A x \in Metric : Settled(x) => Settled(x)'
    BY <1>1, <1>2 DEF Settled
  <2>2. QED
    BY <1>1, <2>1, SentKept DEF ClientInv
<1>9. Kept'
  BY <1>1 DEF ClientInv, Types, Kept, Drained
<1>10. Numbered' /\ CacheIsCapped'
  <2>1. Puts' = Puts /\ Unconfirmed' = Unconfirmed
    BY <1>1 DEF Puts, Unconfirmed
  <2>2. QED
    BY <1>1, <1>4, <2>1, CountsKept DEF ClientInv
<1>11. QED
  BY <1>5, <1>6, <1>7, <1>8, <1>9, <1>10 DEF ClientInv

LEMMA DisableDrainInv ==
  ASSUME ClientInv, DisableDrain
  PROVE  ClientInv'
<1>1. /\ enabled' = FALSE
      /\ timer' = (IF timer.set THEN NoTimer ELSE timer)
      /\ UNCHANGED <<push, cache, num, drain, logged, join, straggled,
                     received, unanswered, faults>>
  BY DEF DisableDrain, joining, network
<1>2. timer' \in [set : BOOLEAN, pending : BOOLEAN] /\ ~timer'.pending
  BY <1>1 DEF ClientInv, Types, Timed, NoTimer
<1>3. Types'
  BY <1>1, <1>2 DEF ClientInv, Types
<1>4. Timed'
  BY <1>1, <1>2 DEF Timed
<1>5. Drained' /\ Flushed' /\ Entries' /\ Kept'
  BY <1>1 DEF ClientInv, Drained, Flushed, Entries, Kept
<1>6. Sent'
  BY <1>1, SentKept DEF ClientInv, Settled
<1>7. Numbered' /\ CacheIsCapped'
  BY <1>1 DEF ClientInv, Numbered, CacheIsCapped, Unconfirmed
<1>8. QED
  BY <1>3, <1>4, <1>5, <1>6, <1>7 DEF ClientInv
-----------------------------------------------------------------------------
LEMMA FlushInv ==
  ASSUME ClientInv, FlushRetryCacheToLogs
  PROVE  ClientInv'
<1>1. /\ join = "open" /\ join' = IF cache = {} THEN "flushing" ELSE "threw"
      /\ UNCHANGED <<push, cache, num, timer, enabled, drain, logged, straggled,
                     received, unanswered, faults>>
  BY DEF FlushRetryCacheToLogs, retries, network
<1>2. Types'
  BY <1>1 DEF ClientInv, Types
<1>3. Timed' /\ Drained' /\ Entries'
  BY <1>1 DEF ClientInv, Timed, Drained, Entries
<1>4. Flushed' /\ Kept'
  BY <1>1 DEF ClientInv, Flushed, Kept
<1>5. Sent'
  BY <1>1, SentKept DEF ClientInv, Settled
<1>6. Numbered' /\ CacheIsCapped'
  BY <1>1 DEF ClientInv, Numbered, CacheIsCapped, Unconfirmed
<1>7. QED
  BY <1>2, <1>3, <1>4, <1>5, <1>6 DEF ClientInv

\* What is in the cache when it is closed came in since join() found it empty.
LEMMA CloseInv ==
  ASSUME ClientInv, Close
  PROVE  ClientInv'
<1>1. /\ join = "flushing" /\ join' = "closed"
      /\ UNCHANGED <<push, cache, num, timer, enabled, drain, logged, straggled,
                     received, unanswered, faults>>
  BY DEF Close, retries, network
<1>2. Types'
  BY <1>1 DEF ClientInv, Types
<1>3. Timed' /\ Drained' /\ Entries'
  BY <1>1 DEF ClientInv, Timed, Drained, Entries
<1>4. Flushed' /\ Kept'
  BY <1>1 DEF ClientInv, Flushed, Kept
<1>5. Sent'
  BY <1>1, SentKept DEF ClientInv, Settled
<1>6. Numbered' /\ CacheIsCapped'
  BY <1>1 DEF ClientInv, Numbered, CacheIsCapped, Unconfirmed
<1>7. QED
  BY <1>2, <1>3, <1>4, <1>5, <1>6 DEF ClientInv
-----------------------------------------------------------------------------
LEMMA NextInv == ClientInv /\ [Next]_vars => ClientInv'
<1> SUFFICES ASSUME ClientInv, [Next]_vars
             PROVE  ClientInv'
  OBVIOUS
<1>1. CASE UNCHANGED vars
  <2>1. UNCHANGED <<push, logged, cache, num, timer, enabled, drain, join,
                    straggled, received, unanswered, faults>>
    BY <1>1 DEF vars, retries, joining, network
  <2>2. Types' /\ Timed' /\ Entries' /\ Drained' /\ Flushed' /\ Kept'
    BY <2>1 DEF ClientInv, Types, Timed, Entries, Drained, Flushed, Kept
  <2>3. Sent'
    BY <2>1, SentKept DEF ClientInv, Settled
  <2>4. Numbered' /\ CacheIsCapped'
    BY <2>1 DEF ClientInv, Numbered, CacheIsCapped, Unconfirmed
  <2>5. QED
    BY <2>2, <2>3, <2>4 DEF ClientInv
<1>2. ASSUME NEW m \in Metric, pushMetric(m) \/ PushOn(m) \/ PushFailed(m)
      PROVE  ClientInv'
  BY <1>2, PushMetricInv, AnsweredInv, AddToRetryCacheInv, StoredInv, PushFailedInv DEF PushOn
<1>3. CASE AttemptDrain \/ DrainOn \/ PreflightFailed \/ \E C \in Chunks : UploadFailed(C)
  BY <1>3, AttemptDrainInv, PreflightInv, PreflightFailedInv, UploadInv, UploadFailedInv,
     EndDrainInv DEF DrainOn
<1>4. CASE DisableDrain \/ FlushRetryCacheToLogs \/ Close
  BY <1>4, DisableDrainInv, FlushInv, CloseInv
<1>5. QED
  BY <1>1, <1>2, <1>3, <1>4 DEF Next

LEMMA InvHolds == Spec => []ClientInv
  BY InitInv, NextInv, PTL DEF Spec

\* The counter of the cache stays below the metrics, and a metric is delivered
\* once more than requests failed at most.
THEOREM ClientTypes == Spec => []TypeOK
<1>1. ClientInv => TypeOK
  <2> SUFFICES ASSUME ClientInv
               PROVE  TypeOK
    OBVIOUS
  <2>1. num \in 0..Cardinality(Metric)
    <3>1. Unconfirmed \in SUBSET Metric /\ Metric \in SUBSET Metric
      BY DEF Unconfirmed
    <3>2. Cardinality(Unconfirmed) \in Nat /\ Cardinality(Metric) \in Nat
      BY <3>1, Finite
    <3>3. QED
      BY <3>2 DEF ClientInv, Types, Numbered
  <2>2. received \in [Metric -> 0..(1 + MaxFaults)]
    <3>1. \A m \in Metric : received[m] \in 0..(1 + MaxFaults)
      BY ClientAssumption DEF ClientInv, Types, Sent
    <3>2. QED
      BY <3>1 DEF ClientInv, Types
  <2>3. QED
    BY <2>1, <2>2 DEF ClientInv, Types, TypeOK
<1>2. QED
  BY InvHolds, <1>1, PTL

\* Whatever fails, and whenever join() comes: a metric whose push succeeded is with the
\* API or in an open cache, unless it came in while join() closed an empty one, and a
\* rejected one is logged.
THEOREM ClientForgetsNothing == Spec => []NothingForgotten
<1>1. ClientInv => NothingForgotten
  BY DEF ClientInv, Kept, NothingForgotten
<1>2. QED
  BY InvHolds, <1>1, PTL

\* The API stores a metric again only if it could not tell the client of an
\* earlier time.
THEOREM ClientDeliversOnce == Spec => []OnceUnlessUnanswered
<1>1. ClientInv => OnceUnlessUnanswered
  BY DEF ClientInv, Types, Sent, OnceUnlessUnanswered
<1>2. QED
  BY InvHolds, <1>1, PTL

\* No two drains overlap, although pushes, failed drains and the end of a drain
\* all schedule one.
THEOREM ClientDrainsAlone == Spec => []OneDrain
<1>1. ClientInv => OneDrain
  BY DEF ClientInv, Timed, OneDrain
<1>2. QED
  BY InvHolds, <1>1, PTL

\* The counter that caps the cache covers all its entries but those whose put
\* is not confirmed.
THEOREM ClientCacheCapped == Spec => []CacheIsCapped
<1>1. ClientInv => CacheIsCapped
  BY DEF ClientInv
<1>2. QED
  BY InvHolds, <1>1, PTL
=============================================================================
