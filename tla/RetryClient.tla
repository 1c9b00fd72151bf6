---------------------------- MODULE RetryClient ----------------------------
(***************************************************************************)
(* The client a service pushes its metrics through: a metric that the      *)
(* ingestion API does not acknowledge goes to a cache in memory, which a   *)
(* timer drains in chunks, and which join() closes.                        *)
(*                                                                         *)
(* JavaScript callbacks run one at a time; an action is what happens       *)
(* between two awaits.  "Slip" marks a mistaken variant of what follows.   *)
(***************************************************************************)
EXTENDS Integers, FiniteSets

CONSTANTS
  Metric,      \* metrics that are pushed, told apart by their uuid
  ChunkSize,   \* metrics a drain uploads with one request
  MaxCached,   \* _maxCachedMetrics
  MaxFaults    \* bound: requests that fail

ASSUME ClientAssumption ==
  /\ {ChunkSize, MaxCached} \subseteq Nat \ {0}
  /\ MaxFaults \in Nat /\ IsFiniteSet(Metric)

VARIABLES
  push,        \* progress of the push of each metric
  cache,       \* _retryCache
  num,         \* _numCachedMetrics
  timer,       \* _drainTimer: whether it is set, whether a timeout is pending
  enabled,     \* _drainCanSchedule
  drain,       \* the drain under way
  join,        \* progress of join()
  logged,      \* metrics with a recovery line in the logs
  received,    \* how often the API stored each metric
  unanswered,  \* history: metrics the API stored without the client knowing
  straggled,   \* history: metrics cached while join() was flushing
  faults       \* counts the requests that failed

retries == <<cache, num, timer, enabled, drain>>
joining == <<join, straggled>>
network == <<received, unanswered, faults>>
vars == <<push, logged, retries, joining, network>>

NoTimer == [set |-> FALSE, pending |-> FALSE]
NoDrain == [phase |-> "idle", unread |-> {}, toRemove |-> {}, empty |-> TRUE]

TypeOK ==
  /\ push \in [Metric -> {"new", "sending", "failed", "put", "ok", "rejected"}]
  /\ num \in 0..Cardinality(Metric)
  /\ timer \in [set : BOOLEAN, pending : BOOLEAN]
  /\ enabled \in BOOLEAN
  /\ drain \in [phase : {"idle", "preflight", "upload"}, unread : SUBSET Metric,
                toRemove : SUBSET Metric, empty : BOOLEAN]
  /\ join \in {"open", "threw", "flushing", "closed"}
  /\ {cache, unanswered, logged, straggled} \subseteq SUBSET Metric
  /\ received \in [Metric -> 0..(1 + MaxFaults)]
  /\ faults \in 0..MaxFaults

Init ==
  /\ push = [m \in Metric |-> "new"]
  /\ num = 0
  /\ timer = NoTimer
  /\ enabled = TRUE
  /\ drain = NoDrain
  /\ join = "open"
  /\ cache = {} /\ logged = {} /\ unanswered = {} /\ straggled = {}
  /\ received = [m \in Metric |-> 0]
  /\ faults = 0

Becomes(m, phase) == push' = [push EXCEPT ![m] = phase]

Deliver(M) == received' = [m \in Metric |-> received[m] + IF m \in M THEN 1 ELSE 0]

Succeed(M) == Deliver(M) /\ UNCHANGED <<unanswered, faults>>

\* A request that fails may have reached the API all the same.
Lose(M) ==
  /\ faults < MaxFaults
  /\ faults' = faults + 1
  /\ \/ Deliver(M) /\ unanswered' = unanswered \cup M
     \/ UNCHANGED <<received, unanswered>>

Scheduled ==
  IF enabled /\ ~timer.set THEN [set |-> TRUE, pending |-> TRUE] ELSE timer
-----------------------------------------------------------------------------
(***************************************************************************)
(* pushMetric: one request, and the cache if it fails.                     *)
(***************************************************************************)
pushMetric(m) ==
  /\ push[m] = "new"
  /\ Becomes(m, "sending")
  /\ UNCHANGED <<logged, retries, joining, network>>

Answered(m) ==
  /\ push[m] = "sending"
  /\ Succeed({m})
  /\ Becomes(m, "ok")
  /\ UNCHANGED <<logged, retries, joining>>

PushFailed(m) ==
  /\ push[m] = "sending"
  /\ Lose({m})
  /\ Becomes(m, "failed")
  /\ UNCHANGED <<logged, retries, joining>>

\* The entry is put at once, unless the counter is at its limit or the cache
\* is closed; the counter follows when the put is confirmed.
AddToRetryCache(m) ==
  /\ push[m] = "failed"
  /\ IF num < MaxCached /\ join # "closed"
     THEN /\ cache' = cache \cup {m}
          /\ Becomes(m, "put")
          /\ straggled' = IF join = "flushing" THEN straggled \cup {m} ELSE straggled
          /\ UNCHANGED logged
     ELSE /\ Becomes(m, "rejected")
          /\ logged' = logged \cup {m}
          /\ UNCHANGED <<cache, straggled>>
  /\ UNCHANGED <<num, timer, enabled, drain, join, network>>

CountedTwice == num + 2  \* Slip
NotCounted == num  \* Slip
Counted == num + 1

Stored(m) ==
  /\ push[m] = "put"
  /\ Becomes(m, "ok")
  /\ num' = Counted
  /\ timer' = Scheduled
  /\ UNCHANGED <<cache, enabled, drain, logged, joining, network>>
-----------------------------------------------------------------------------
(***************************************************************************)
(* The drain.                                                              *)
(***************************************************************************)
FiredAndForgotten == NoTimer  \* Slip
Fired == [timer EXCEPT !.pending = FALSE]

AttemptDrain ==
  /\ timer.pending
  /\ timer' = Fired
  /\ drain' = [NoDrain EXCEPT !.phase = "preflight"]
  /\ UNCHANGED <<push, cache, num, enabled, logged, joining, network>>

PreflightFailed ==
  /\ drain.phase = "preflight"
  /\ faults < MaxFaults
  /\ faults' = faults + 1
  /\ drain' = NoDrain
  /\ timer' = [timer EXCEPT !.set = FALSE]
  /\ UNCHANGED <<push, cache, num, enabled, logged, joining, received, unanswered>>

\* After a drain that left something behind, one is scheduled; then
\* _drainTimer becomes null.
Attempted(empty) == [(IF empty THEN timer ELSE Scheduled) EXCEPT !.set = FALSE]

\* The stream shows the cache as it is when the stream is made.  A closed
\* cache makes none, which is an error of the drain.
Preflight ==
  /\ drain.phase = "preflight"
  /\ IF join = "closed"
     THEN drain' = NoDrain /\ timer' = Attempted(FALSE)
     ELSE /\ drain' = [drain EXCEPT !.phase = "upload", !.unread = cache]
          /\ UNCHANGED timer
  /\ UNCHANGED <<push, cache, num, enabled, logged, joining, network>>

Chunks == {C \in SUBSET drain.unread :
             \/ Cardinality(C) = ChunkSize
             \/ C # {} /\ C = drain.unread /\ Cardinality(C) < ChunkSize}

Upload(C) ==
  /\ drain.phase = "upload"
  /\ Succeed(C)
  /\ drain' = [drain EXCEPT !.unread = @ \ C, !.toRemove = @ \cup C]
  /\ UNCHANGED <<push, cache, num, timer, enabled, logged, joining>>

FailedKeysAll(C) == C  \* Slip
FailedKeys(C) == {}

UploadFailed(C) ==
  /\ drain.phase = "upload"
  /\ Lose(C)
  /\ drain' = [drain EXCEPT !.unread = @ \ C, !.empty = FALSE,
                            !.toRemove = @ \cup FailedKeys(C)]
  /\ UNCHANGED <<push, cache, num, timer, enabled, logged, joining>>

CacheLeftAlone == cache  \* Slip
CacheLeft == IF join = "closed" THEN cache ELSE cache \ drain.toRemove

EndDrain ==
  /\ drain.phase = "upload"
  /\ drain.unread = {}
  /\ cache' = CacheLeft
  /\ timer' = Attempted(drain.empty /\ join # "closed")
  /\ drain' = NoDrain
  /\ UNCHANGED <<push, num, enabled, logged, joining, network>>

DisableDrain ==
  /\ enabled
  /\ enabled' = FALSE
  /\ timer' = IF timer.set THEN NoTimer ELSE timer
  /\ UNCHANGED <<push, cache, num, drain, logged, joining, network>>
-----------------------------------------------------------------------------
(***************************************************************************)
(* join().  The entries that the cache has are to be logged and removed    *)
(* before it is closed, but what the stream gives of an entry is decoded   *)
(* JSON, which has no getValue(): _emitMetricLogLine throws in the handler *)
(* of the first one, and join() comes to no end.  Only an empty cache is   *)
(* closed.                                                                 *)
(***************************************************************************)
FlushRetryCacheToLogs ==
  /\ join = "open"
  /\ join' = IF cache = {} THEN "flushing" ELSE "threw"
  /\ UNCHANGED <<push, logged, retries, straggled, network>>

\* There is nothing to remove.
Close ==
  /\ join = "flushing"
  /\ join' = "closed"
  /\ UNCHANGED <<push, logged, retries, straggled, network>>

PushOn(m) == Answered(m) \/ AddToRetryCache(m) \/ Stored(m)
DrainOn == Preflight \/ (\E C \in Chunks : Upload(C)) \/ EndDrain

Next ==
  \/ \E m \in Metric : pushMetric(m) \/ PushOn(m) \/ PushFailed(m)
  \/ AttemptDrain \/ DrainOn \/ PreflightFailed \/ \E C \in Chunks : UploadFailed(C)
  \/ DisableDrain
  \/ FlushRetryCacheToLogs \/ Close

Spec == Init /\ [][Next]_vars
-----------------------------------------------------------------------------
\* The caller of pushMetric is told that a metric is safe only if the API has it or
\* an open cache holds it, and is told otherwise only with a recovery line.  Drains keep
\* it so, and so does join(): one that throws leaves the entries, in the memory of a
\* process that may end; one that closes the cache loses those, and no others, that
\* came in after it had found the cache empty.
NothingForgotten ==
  \A m \in Metric :
    /\ push[m] = "ok" /\ m \notin straggled =>
         received[m] > 0 \/ (m \in cache /\ join # "closed")
    /\ push[m] = "rejected" => m \in logged

\* The API stores a metric twice only if the client could not know of the
\* first time.
OnceUnlessUnanswered ==
  \A m \in Metric : received[m] > 1 => m \in unanswered

\* No drain is scheduled while another is under way: it would upload the
\* same entries.
OneDrain == drain.phase # "idle" => ~timer.pending

\* The counter that caps the cache never falls behind the entries in it, but
\* for the puts that are yet to be confirmed.
CacheIsCapped ==
  Cardinality(cache) <= num + Cardinality({m \in Metric : push[m] = "put"})

(***************************************************************************)
(* Liveness: requests end, timers go off and callbacks run.                *)
(***************************************************************************)
FairSpec ==
  /\ Spec
  /\ \A m \in Metric : WF_vars(PushOn(m))
  /\ WF_vars(AttemptDrain)
  /\ WF_vars(DrainOn)
  /\ WF_vars(Close)

Gone(m) == m \notin cache \/ ~enabled \/ join \in {"flushing", "closed"}

\* Once requests no longer fail, a metric in the cache when a drain is
\* scheduled leaves it.
DrainEmpties ==
  \A m \in Metric :
    m \in cache /\ timer.pending /\ faults = MaxFaults ~> Gone(m)

\* What the client's tests say of a drain that leaves something behind: a
\* drain is scheduled again.  Once requests no longer fail the cache empties.
Rescheduled ==
  \A m \in Metric : m \in cache /\ faults = MaxFaults ~> Gone(m)
=============================================================================
