------------------------------ MODULE V1Client ------------------------------
(***************************************************************************)
(* Version 1: UtapiClient keeps counters and snapshots of them in Redis,   *)
(* for each level (bucket, account, ...) a metric is about; a metric that  *)
(* Redis refuses goes to a list, from which UtapiReplay pushes it again.   *)
(*                                                                         *)
(* A push is two transactions: the first moves the counters, the second    *)
(* stores the values it got as the snapshots of the period.  Pushes, the   *)
(* replay job and crashes interleave between them.  "Slip" marks a         *)
(* mistaken variant of what follows.                                       *)
(***************************************************************************)
EXTENDS V1Redis, Sums

CONSTANTS
  Metrics,        \* metrics that may be pushed
  Ids,            \* pushes, 1..n: a bound on their number
  Enabled,        \* actions whose operation counter is enabled
  ExpireMetrics,  \* whether the keys of a deleted bucket expire
  BatchSize,      \* metrics the replay takes from the list at a time
  Jobs,           \* bound: replay jobs under way at a time
  Period,         \* instants in a period of fifteen minutes
  MaxRange,       \* MAX_RANGE_MS
  MaxTime,        \* bound: last instant
  MaxFaults       \* bound: failed commands and crashes

ASSUME V1Assumption ==
  /\ {BatchSize, Period, MaxRange} \subseteq Nat \ {0}
  /\ MaxRange % Period = 0 /\ MaxTime % Period = 0
  /\ {MaxTime, MaxFaults} \subseteq Nat
  /\ ExpireMetrics \in BOOLEAN
  /\ IsFiniteSet(Ids)
  /\ Enabled \cap ({"incomingBytes", "outgoingBytes"} \cup Counters \cup StateKeys) = {}

VARIABLES
  db,       \* the datastore
  dying,    \* its keys that have a time to live
  push,     \* the pushes
  list,     \* s3:utapireplay, the last one is the next to be popped
  lock,     \* s3:utapireplay:lock
  replay,   \* the replay jobs
  now,      \* the clock
  faults,   \* counts the faults
  log,      \* history: the periods in which each push was counted
  doubts,   \* history: pushes that Redis counted and reported as failed
  muddled   \* history: pushes overlapped or failed, keys expired, a reindex wrote

redis == <<db, dying, log>>
local == <<list, lock, replay>>
history == <<doubts, muddled>>
v1vars == <<redis, push, local, now, faults, history>>

NoReplay == [at |-> "idle", rounds |-> 0, held |-> <<>>]
NewPush == [at |-> "new", metric |-> Nil, time |-> 0, got |-> <<>>, by |-> "client"]
InFlight == {"batch", "snapshot", "scan", "expire", "failed"}

TypeOK ==
  /\ \A k \in DOMAIN db : IF k[2] \in StateKeys
                          THEN \A e \in db[k] : e[1] \in 0..MaxTime /\ e[2] \in Int \cup {NaN}
                          ELSE db[k] \in Int
  /\ dying \subseteq DOMAIN db
  /\ \A i \in Ids : push[i].at \in InFlight \cup {"new", "cached", "done", "lost"}
  /\ ToSet(list) \subseteq {i \in Ids : push[i].at = "cached"}
  /\ lock \in BOOLEAN
  /\ \A j \in Jobs : replay[j].at \in {"idle", "check", "pop", "popped"}
  /\ now \in 0..MaxTime /\ faults \in 0..MaxFaults

Init ==
  /\ db = <<>> /\ dying = {}
  /\ push = [i \in Ids |-> NewPush]
  /\ list = <<>> /\ lock = FALSE /\ replay = [j \in Jobs |-> NoReplay]
  /\ now = 0 /\ faults = 0
  /\ log = [i \in Ids |-> <<>>] /\ doubts = {} /\ muddled = FALSE
-----------------------------------------------------------------------------
(***************************************************************************)
(* What the metrics do to the counters of one level r in a period t.       *)
(***************************************************************************)
getNormalizedTimestamp == now - (now % Period)

Levels(m) == <<m.bucket, m.account>>

OldSize(m) == IF m.old = Nil THEN 0 ELSE m.old
Delta(m) == m.new - OldSize(m)

Deletes == {"deleteObject", "multiObjectDelete", "abortMultipartUpload"}
Puts == {"putObject", "copyObject", "replicateObject"}
Markers == {"putDeleteMarkerObject", "replicateDelete"}
Parts == {"uploadPart", "uploadPartCopy"}

Method(m) ==
  CASE m.action \in Deletes -> "delete"
    [] m.action \in Puts -> "put"
    [] m.action \in Markers -> "marker"
    [] m.action \in Parts -> "part"
    [] m.action = "completeMultipartUpload" -> IF m.old = Nil THEN "complete" ELSE "overwrite"
    [] m.action = "getObject" -> "get"
    [] OTHER -> "generic"

\* The numbers a metric has, as _checkProperties wants them.
Moves(m) == Method(m) \in {"put", "part", "get"}

Typed(m) ==
  /\ Moves(m) => m.new \in Nat
  /\ m.old \in Nat \cup {Nil}
  /\ Method(m) = "delete" =>
       m.bytes \in Nat /\ (m.action = "abortMultipartUpload" \/ m.objects \in Nat)
  /\ Method(m) = "marker" => m.bytes \in Nat \cup {Nil}

\* The keys of a bucket and of an account differ, whatever their names.
ASSUME MetricsAssumption ==
  /\ \A m \in Metrics : Typed(m)
  /\ \A m, n \in Metrics : m.account # n.bucket

Counted(m) ==
  CASE m.action = "listMultipartUploads" -> "listBucketMultipartUploads"
    [] m.action = "putDeleteMarkerObject" -> "deleteObject"
    [] OTHER -> m.action

Operation(m, r, t) ==
  IF Counted(m) \in Enabled THEN <<Cmd("incrby", generateKey(r, Counted(m), t), 1)>> ELSE <<>>

Size(r, n) == Cmd("incrby", generateCounter(r, "storageUtilizedCounter"), n)
Objects(r, n) == Cmd("incrby", generateCounter(r, "numberOfObjectsCounter"), n)
Bytes(m, r, way, t) == Cmd("incrby", generateKey(r, way, t), m.new)

UploadPart(m, r, t) ==
  <<Size(r, Delta(m)), Bytes(m, r, "incomingBytes", t)>> \o Operation(m, r, t)

MultipartUploadOverwrite(m, r, t) == <<Size(r, -m.old)>> \o Operation(m, r, t)

CompleteMultipartUpload(m, r, t) == <<Objects(r, 1)>> \o Operation(m, r, t)

DeleteObject(m, r, t) ==
  <<Size(r, -m.bytes)>> \o Operation(m, r, t)
    \o (IF m.action = "abortMultipartUpload" THEN <<>> ELSE <<Objects(r, -m.objects)>>)

GetObject(m, r, t) == <<Bytes(m, r, "outgoingBytes", t)>> \o Operation(m, r, t)

PutObject(m, r, t) ==
  <<Size(r, Delta(m)),
    IF m.old = Nil THEN Objects(r, 1)
                   ELSE Cmd("get", generateCounter(r, "numberOfObjectsCounter"), Nil)>>
    \o Operation(m, r, t)
    \o (IF m.action = "copyObject" THEN <<>> ELSE <<Bytes(m, r, "incomingBytes", t)>>)

DeleteMarker(m, r, t) ==
  <<Objects(r, 1)>> \o Operation(m, r, t)
    \o <<Cmd("zrangebyscore", generateStateKey(r, "storageUtilized"), t)>>

Commands(m, r, t) ==
  CASE Method(m) = "part" -> UploadPart(m, r, t)
    [] Method(m) = "overwrite" -> MultipartUploadOverwrite(m, r, t)
    [] Method(m) = "complete" -> CompleteMultipartUpload(m, r, t)
    [] Method(m) = "delete" -> DeleteObject(m, r, t)
    [] Method(m) = "get" -> GetObject(m, r, t)
    [] Method(m) = "put" -> PutObject(m, r, t)
    [] Method(m) = "marker" -> DeleteMarker(m, r, t)
    [] OTHER -> Operation(m, r, t)

\* The commands of all levels, in groups of one length.
AllCommands(m, t) == FlattenSeq([l \in 1..Len(Levels(m)) |-> Commands(m, Levels(m)[l], t)])
GroupSize(m, t) == Len(Commands(m, m.account, t))
Group(m, t, replies, l) == SubSeq(replies, (l - 1) * GroupSize(m, t) + 1, l * GroupSize(m, t))
-----------------------------------------------------------------------------
(***************************************************************************)
(* What the second transaction stores, from the replies g of a level.      *)
(***************************************************************************)
AsIfEmpty(n, value) == IF n = Nil \/ n < 0 THEN value ELSE n

PartSnapshots(m, r, t, g) ==
  Snapshot(r, "storageUtilized", t, AsIfEmpty(g[1], Delta(m)))

OverwriteSnapshots(m, r, t, g) == Snapshot(r, "storageUtilized", t, g[1])

CompleteSnapshots(m, r, t, g) == Snapshot(r, "numberOfObjects", t, AsIfEmpty(g[1], 1))

DeleteSnapshots(m, r, t, g) ==
  Snapshot(r, "storageUtilized", t, AsIfEmpty(g[1], 0))
    \o (IF m.action = "abortMultipartUpload" THEN <<>>
        ELSE Snapshot(r, "numberOfObjects", t, AsIfEmpty(Last(g), 0)))

PutSnapshotsSwapped(m, r, t, g) ==  \* Slip
  Snapshot(r, "storageUtilized", t, AsIfEmpty(g[1], Delta(m)))
    \o Snapshot(r, "numberOfObjects", t, AsIfEmpty(Last(g), 1))

PutSnapshots(m, r, t, g) ==
  Snapshot(r, "storageUtilized", t, AsIfEmpty(g[1], Delta(m)))
    \o Snapshot(r, "numberOfObjects", t, AsIfEmpty(g[2], 1))

\* Math.max(0, byteArr[0] - byteLength), of which either may be undefined: the
\* array is empty when the period has no snapshot yet.
MarkerSize(m, stored) ==
  IF stored = {} \/ m.bytes = Nil THEN NaN
  ELSE LET old == CHOOSE v \in stored : TRUE
       IN  IF old = NaN THEN NaN ELSE IF old < m.bytes THEN 0 ELSE old - m.bytes

MarkerSnapshots(m, r, t, g) ==
  LET whole == m.bytes # Nil  \* the marker replaces an object
      n == AsIfEmpty(g[1], 1)
  IN  Snapshot(r, "numberOfObjects", t, IF whole THEN n - 1 ELSE n)
        \o (IF whole THEN <<Objects(r, -1), Size(r, -m.bytes)>> ELSE <<>>)
        \o Snapshot(r, "storageUtilized", t, MarkerSize(m, Last(g)))

Snapshots(m, r, t, g) ==
  CASE Method(m) = "part" -> PartSnapshots(m, r, t, g)
    [] Method(m) = "overwrite" -> OverwriteSnapshots(m, r, t, g)
    [] Method(m) = "complete" -> CompleteSnapshots(m, r, t, g)
    [] Method(m) = "delete" -> DeleteSnapshots(m, r, t, g)
    [] Method(m) = "put" -> PutSnapshots(m, r, t, g)
    [] Method(m) = "marker" -> MarkerSnapshots(m, r, t, g)

ReadsReplies(m) == Method(m) \notin {"generic", "get"}

AllSnapshots(m, t, replies) ==
  FlattenSeq([l \in 1..Len(Levels(m)) |-> Snapshots(m, Levels(m)[l], t, Group(m, t, replies, l))])
-----------------------------------------------------------------------------
(***************************************************************************)
(* pushMetric.                                                             *)
(***************************************************************************)
Goes(i, stage) == push' = [push EXCEPT ![i].at = stage]

Expires(m) == m.action = "deleteBucket" /\ ExpireMetrics

\* Where a push is when it has nothing more to count.
AfterCounting(m) == IF Expires(m) THEN "scan" ELSE "done"

Start(m, by) ==
  [at |-> IF AllCommands(m, 0) = <<>> THEN AfterCounting(m) ELSE "batch",
   metric |-> m, time |-> getNormalizedTimestamp, got |-> <<>>, by |-> by]

pushMetric(i, m) ==
  /\ push[i].at = "new"
  /\ \A j \in 1..(i - 1) : push[j].at # "new"
  /\ push' = [push EXCEPT ![i] = Start(m, "client")]
  /\ muddled' = (muddled \/ \E j \in Ids : push[j].at \in InFlight)
  /\ UNCHANGED <<redis, local, now, faults, doubts>>

Fault == faults < MaxFaults /\ faults' = faults + 1 /\ muddled' = TRUE

\* The first transaction, with the commands at the positions lost missing.
Count(i, lost) ==
  LET p == push[i]
      Kept(all) == [n \in DOMAIN all |-> IF n \in lost THEN Cmd("get", all[n].key, Nil) ELSE all[n]]
      reads == lost = {} /\ ReadsReplies(p.metric)
  IN  /\ \E cmds \in {Kept(AllCommands(p.metric, p.time))} : \E after \in {batch(db, cmds)} :
           /\ db' = after
           /\ push' = [push EXCEPT
                        ![i].at = IF lost # {} THEN "failed"
                                  ELSE IF reads THEN "snapshot" ELSE AfterCounting(p.metric),
                        ![i].got = IF reads THEN Replies(after, cmds) ELSE <<>>]
      /\ log' = [log EXCEPT ![i] = Append(@, p.time)]
      /\ UNCHANGED <<dying, local, now>>

BatchDone(i) ==
  /\ push[i].at = "batch"
  /\ Count(i, {})
  /\ UNCHANGED <<faults, history>>

\* A command on a counter fails, the other ones do not: it is these replies that
\* the handlers look at for an error.
CommandFailed(i) ==
  /\ push[i].at = "batch"
  /\ \E all \in {AllCommands(push[i].metric, push[i].time)} :
       \E n \in DOMAIN all : all[n].key[2] \in Counters /\ Count(i, {n})
  /\ doubts' = doubts \cup {i}
  /\ Fault

\* The transaction is refused, or its answer is lost.
BatchFailed(i) ==
  /\ push[i].at = "batch"
  /\ Goes(i, "failed")
  /\ \/ /\ \E cmds \in {AllCommands(push[i].metric, push[i].time)} : db' = batch(db, cmds)
        /\ log' = [log EXCEPT ![i] = Append(@, push[i].time)]
        /\ doubts' = doubts \cup {i}
     \/ UNCHANGED <<db, log, doubts>>
  /\ Fault
  /\ UNCHANGED <<dying, local, now>>

StoreSnapshots(i) ==
  /\ push[i].at = "snapshot"
  /\ \/ /\ \E cmds \in {AllSnapshots(push[i].metric, push[i].time, push[i].got)} :
             db' = batch(db, cmds) /\ dying' = dying \ Persisted(db, cmds)
        /\ UNCHANGED <<faults, muddled>>
     \/ Fault /\ UNCHANGED <<db, dying>>  \* the caller is told, nothing is retried
  /\ push' = [push EXCEPT ![i].at = "done", ![i].got = <<>>]
  /\ UNCHANGED <<log, local, now, doubts>>

PushLocalCache(i) ==
  /\ push[i].at = "failed"
  /\ \/ /\ list' = <<i>> \o list
        /\ Goes(i, "cached")
        /\ UNCHANGED <<faults, muddled>>
     \/ /\ Goes(i, "lost")
        /\ Fault
        /\ UNCHANGED list
  /\ UNCHANGED <<redis, lock, replay, now, doubts>>

\* The keys of a deleted bucket are looked up, then made to expire.
ScanKeys(i) ==
  /\ push[i].at = "scan"
  /\ push' = [push EXCEPT ![i].at = "expire",
                          ![i].got = {k \in DOMAIN db : k[1] = push[i].metric.bucket}]
  /\ UNCHANGED <<redis, local, now, faults, history>>

\* Keys that are gone by now make it an error, which undoes nothing.
ExpireKeys(i) ==
  /\ push[i].at = "expire"
  /\ dying' = dying \cup (push[i].got \cap DOMAIN db)
  /\ push' = [push EXCEPT ![i].at = "done", ![i].got = <<>>]
  /\ muddled' = TRUE
  /\ UNCHANGED <<db, log, local, now, faults, doubts>>

KeysExpire ==
  /\ dying # {}
  /\ db' = Restrict(db, DOMAIN db \ dying)
  /\ dying' = {}
  /\ UNCHANGED <<log, push, local, now, faults, history>>
-----------------------------------------------------------------------------
(***************************************************************************)
(* UtapiReplay: jobs under a lock, which expires under the job that took it *)
(* if that takes long, so that the next one runs beside it.                *)
(***************************************************************************)
ReplayTo(j, stage, rounds, held) ==
  replay' = [replay EXCEPT ![j] = [at |-> stage, rounds |-> rounds, held |-> held]]

\* A job that finds the list empty takes the lock and gives it back, which only
\* another job could see; it is left out.
ReplayJob(j) ==
  /\ replay[j].at = "idle" /\ ~lock /\ list # <<>>
  /\ lock' = TRUE
  /\ ReplayTo(j, "check", 0, <<>>)
  /\ UNCHANGED <<redis, push, list, now, faults, history>>

RoundsRoundedDown(n) == n \div BatchSize  \* Slip
Rounds(n) == (n + BatchSize - 1) \div BatchSize

\* The end of a job, which deletes the lock whoever holds it.
RemoveLock(j) == lock' = FALSE /\ replay' = [replay EXCEPT ![j] = NoReplay]

CheckLocalCache(j) ==
  /\ replay[j].at = "check"
  /\ IF Rounds(Len(list)) > 0
     THEN ReplayTo(j, "pop", Rounds(Len(list)), <<>>) /\ UNCHANGED lock
     ELSE RemoveLock(j)
  /\ UNCHANGED <<redis, push, list, now, faults, history>>

Taken == IF Len(list) < BatchSize THEN Len(list) ELSE BatchSize

LeftAll(n) == list  \* Slip
Left(n) == SubSeq(list, 1, Len(list) - n)

\* From the end of the list, up to the size of a batch.
GetCachedMetrics(j) ==
  /\ replay[j].at = "pop"
  /\ list' = Left(Taken)
  /\ ReplayTo(j, "popped", replay[j].rounds - 1,
              Reverse(SubSeq(list, Len(list) - Taken + 1, Len(list))))
  /\ UNCHANGED <<redis, push, lock, now, faults, history>>

\* Each is pushed as a metric of the present, without waiting for the end.
PushCachedMetrics(j) ==
  /\ replay[j].at = "popped"
  /\ push' = [i \in Ids |-> IF i \in ToSet(replay[j].held)
                            THEN Start(push[i].metric, "replay") ELSE push[i]]
  /\ IF replay[j].rounds > 0
     THEN ReplayTo(j, "pop", replay[j].rounds, <<>>) /\ UNCHANGED lock
     ELSE RemoveLock(j)
  /\ muddled' = TRUE
  /\ UNCHANGED <<redis, list, now, faults, doubts>>

Lose(S) == push' = [i \in Ids |-> IF i \in S THEN [push[i] EXCEPT !.at = "lost"] ELSE push[i]]

\* The length of the list cannot be told, or the answer to the pops is lost and
\* what was popped with it.
PopFailed(j) ==
  /\ replay[j].at \in {"check", "popped"}
  /\ Lose(ToSet(replay[j].held))
  /\ RemoveLock(j)
  /\ Fault
  /\ UNCHANGED <<redis, list, now, doubts>>

\* The process dies, with the metrics its jobs popped or are pushing; the lock
\* stays.
Crash ==
  LET held == UNION {ToSet(replay[j].held) : j \in Jobs}
      pushing == {i \in Ids : push[i].by = "replay" /\ push[i].at \in InFlight}
  IN  /\ pushing # {} \/ \E j \in Jobs : replay[j].at # "idle"
      /\ Lose(held \cup pushing)
      /\ replay' = [j \in Jobs |-> NoReplay]
      /\ Fault
      /\ UNCHANGED <<redis, list, lock, now, doubts>>

LockExpires ==
  /\ lock
  /\ lock' = FALSE
  /\ UNCHANGED <<redis, push, list, replay, now, faults, history>>
-----------------------------------------------------------------------------
Tick ==
  /\ now < MaxTime
  /\ now' = now + Period
  /\ UNCHANGED <<redis, push, local, faults, history>>

Proceed(i) ==
  BatchDone(i) \/ StoreSnapshots(i) \/ PushLocalCache(i) \/ ScanKeys(i) \/ ExpireKeys(i)

Replaying ==
  \E j \in Jobs :
    ReplayJob(j) \/ CheckLocalCache(j) \/ GetCachedMetrics(j) \/ PushCachedMetrics(j)

ClientNext ==
  \/ \E i \in Ids : \/ \E m \in Metrics : pushMetric(i, m)
                    \/ Proceed(i) \/ CommandFailed(i) \/ BatchFailed(i)
  \/ KeysExpire
  \/ Replaying \/ (\E j \in Jobs : PopFailed(j)) \/ Crash \/ LockExpires
  \/ Tick

\* node-schedule fires again and again, Redis answers, locks expire.
ClientSteps == LockExpires \/ Replaying \/ \E i \in Ids : Proceed(i)
ClientFairness == WF_v1vars(ClientSteps)
-----------------------------------------------------------------------------
(***************************************************************************)
(* ListMetrics: what a time range contains.                                *)
(***************************************************************************)
BuildSubRangesOverlapping(s, e) ==  \* Slip
  LET n == (e - s) \div MaxRange + 1
  IN  [i \in 1..n |-> <<s + (i - 1) * MaxRange, IF i = n THEN e ELSE s + i * MaxRange>>]

BuildSubRanges(s, e) ==
  LET n == (e - s) \div MaxRange + 1
  IN  [i \in 1..n |-> <<s + (i - 1) * MaxRange, IF i = n THEN e ELSE s + i * MaxRange - 1>>]

TimestampRange(s, e) == {t \in s..e : (t - s) % Period = 0 /\ t < e} \cup {e}

Total(r, metric, s, e) ==
  SumOver([t \in TimestampRange(s, e) |-> Value(db, generateKey(r, metric, t), 0)],
          TimestampRange(s, e))

\* _getMetricsRange over each part, and _reduceResults.
Listed(r, metric, s, e) ==
  LET parts == BuildSubRanges(s, e)
  IN  SumOver([n \in DOMAIN parts |-> Total(r, metric, parts[n][1], parts[n][2])],
              DOMAIN parts)

\* The ranges validateTimeRange accepts: whole periods.
ValidRanges == {x \in (0..MaxTime) \X (0..(MaxTime + Period)) :
                  x[1] =< x[2] /\ x[1] % Period = 0 /\ (x[2] + 1) % Period = 0}

\* How often a push was counted in a range, what it is counted with, and what
\* all of them should add up to.
Times(i, x) == Cardinality({n \in DOMAIN log[i] : log[i][n] \in x[1]..x[2]})

Weight(m, metric) ==
  CASE metric = "incomingBytes" ->
         IF Method(m) \in {"put", "part"} /\ m.action # "copyObject" THEN m.new ELSE 0
    [] metric = "outgoingBytes" -> IF Method(m) = "get" THEN m.new ELSE 0
    [] OTHER -> IF Counted(m) = metric /\ metric \in Enabled THEN 1 ELSE 0

Weighed(a, metric, x) ==
  SumOver([i \in Ids |-> IF push[i].at = "new" \/ push[i].metric.account # a THEN 0
                         ELSE Times(i, x) * Weight(push[i].metric, metric)], Ids)
-----------------------------------------------------------------------------
(***************************************************************************)
(* Properties.                                                             *)
(***************************************************************************)

\* A metric is counted once, however often it is cached and replayed, unless
\* Redis counted it and reported a failure: then it may be counted again.
CountedOnce ==
  \A i \in Ids : Len(log[i]) > 1 => i \in doubts

\* A listing of any whole periods, however it is split, counts each upload,
\* download and operation of the account in them once and no other.
ListingExact ==
  \A x \in ValidRanges, a \in {m.account : m \in Metrics},
     metric \in {"incomingBytes", "outgoingBytes"} \cup Enabled :
    Listed(a, metric, x[1], x[2]) = Weighed(a, metric, x)

\* The resources that a delete marker was pushed for.
Marked == UNION {ToSet(Levels(push[i].metric)) :
                   i \in {x \in Ids : push[x].at # "new" /\ Method(push[x].metric) = "marker"}}

\* Pushes that follow each other leave, of each counter that exists and is not
\* negative, the present value as its last snapshot, with one exception: where a
\* delete marker was pushed the last snapshot of the bytes may be NaN, which the
\* marker stores if the period had no snapshot of them or it has no size itself.
SnapshotsFollow ==
  (~muddled /\ \A i \in Ids : push[i].at \notin InFlight) =>
    \A r \in UNION {{m.bucket, m.account} : m \in Metrics} :
      LET size == Value(db, generateCounter(r, "storageUtilizedCounter"), Nil)
          number == Value(db, generateCounter(r, "numberOfObjectsCounter"), Nil)
          stored(state) == Latest(db, generateStateKey(r, state), now)
      IN  /\ size # Nil => \/ size < 0 \/ stored("storageUtilized") = size
                           \/ stored("storageUtilized") = NaN /\ r \in Marked
          /\ number # Nil => number < 0 \/ stored("numberOfObjects") = number

\* Every metric that was pushed is counted in the end, or lost to one of the
\* faults; none stays in the list, even if a replay dies and leaves its lock.
Replayed ==
  <>[](\A i \in Ids : push[i].at \in {"new", "done", "lost"})
=============================================================================
