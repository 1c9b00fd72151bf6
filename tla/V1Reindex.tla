----------------------------- MODULE V1Reindex -----------------------------
(***************************************************************************)
(* The weekly job of version 1 that counts what the buckets hold and sets  *)
(* the counters to it, beside the clients that move them: UtapiReindex     *)
(* takes a lock that expires and runs s3_bucketd.py, which lists the       *)
(* buckets page by page and writes Redis command by command.               *)
(***************************************************************************)
EXTENDS V1Client, Sums

CONSTANTS
  Buckets, Owner,  \* the buckets, and the account of each
  Locked,          \* buckets with object lock
  OnlyLatest,      \* onlyCountLatestWhenObjectLocked
  Uploads,         \* bytes in the parts of unfinished uploads, by bucket
  PageSize,        \* maxKeys of a listing
  Sentinels,       \* Redis sentinels to try
  Changes          \* bound: <<bucket, version>> the service may put and delete

\* The keys of a bucket and of an account differ, whatever their names.
ASSUME ReindexAssumption ==
  /\ IsFiniteSet(Buckets)
  /\ Uploads \in [Buckets -> Nat] /\ {PageSize, Sentinels} \subseteq Nat
  /\ \A b \in Buckets : Owner[b] \notin Buckets
  /\ \A x \in Changes : x[1] \in Buckets
  /\ \A b \in Buckets, m \in Metrics : m.account # b

VARIABLES
  contents,     \* the versions in each bucket: <<key, version>>, of one byte each
  exists,       \* buckets that are there
  job,          \* stage of the job
  worker,       \* the listing of each bucket
  failed,       \* buckets that could not be listed
  pipeline,     \* commands that Redis has yet to execute
  reindexLock   \* s3:utapireindex:lock

reindexing == <<contents, exists, job, worker, failed, pipeline, reindexLock>>
script == <<job, worker, failed, pipeline, reindexLock>>

Accounts == {Owner[b] : b \in Buckets}
Idle == [at |-> "idle", left |-> 0]
NoWorker == [at |-> "none", marker |-> Nil, page |-> Nil, count |-> 0, size |-> 0]

ReindexTypeOK ==
  /\ exists \subseteq Buckets
  /\ job.at \in {"idle", "connect", "count", "buckets", "stale", "accounts", "end"}
  /\ job.left \in 0..Sentinels
  /\ \A b \in Buckets : worker[b].at \in {"none", "list", "uploads", "counted", "failed"}
  /\ failed = {b \in Buckets : worker[b].at = "failed"}
  /\ reindexLock \in BOOLEAN

\* The type invariant: Redis has numbers and the values of periods, the clients, the
\* replay and the job are at one of their stages, and failed is what was not listed.
V1TypeOK == TypeOK /\ ReindexTypeOK

ReindexInit ==
  /\ job = Idle
  /\ worker = [b \in Buckets |-> NoWorker]
  /\ failed = {} /\ pipeline = <<>> /\ reindexLock = FALSE
-----------------------------------------------------------------------------
(***************************************************************************)
(* The service: it changes a bucket and pushes the metric.                 *)
(***************************************************************************)
ServedMetric(action, b, new, bytes, objects) ==
  [action |-> action, bucket |-> b, account |-> Owner[b],
   new |-> new, old |-> Nil, bytes |-> bytes, objects |-> objects]

PutVersion(i, b, v) ==
  /\ v \notin contents[b]
  /\ contents' = [contents EXCEPT ![b] = @ \cup {v}]
  /\ exists' = exists \cup {b}
  /\ pushMetric(i, ServedMetric("putObject", b, 1, Nil, Nil))
  /\ UNCHANGED script

DeleteVersion(i, b, v) ==
  /\ v \in contents[b]
  /\ contents' = [contents EXCEPT ![b] = @ \ {v}]
  /\ pushMetric(i, ServedMetric("deleteObject", b, Nil, 1, 1))
  /\ UNCHANGED <<exists, script>>
-----------------------------------------------------------------------------
(***************************************************************************)
(* UtapiReindex: the lock and the choice of a sentinel.                    *)
(***************************************************************************)
RedisUnchanged == UNCHANGED <<v1vars, contents, exists>>

ScheduleJob ==
  /\ job.at = "idle" /\ ~reindexLock
  /\ reindexLock' = TRUE
  /\ job' = [at |-> "connect", left |-> Sentinels]
  /\ RedisUnchanged /\ UNCHANGED <<worker, failed, pipeline>>

JobEnds == job' = Idle /\ reindexLock' = FALSE

ScriptFault ==
  /\ faults < MaxFaults /\ faults' = faults + 1
  /\ UNCHANGED <<redis, push, local, now, history, contents, exists>>

\* The script leaves with the code for a sentinel that is down.
SentinelDown ==
  /\ job.at = "connect"
  /\ IF job.left > 1 THEN job' = [job EXCEPT !.left = @ - 1] /\ UNCHANGED reindexLock
                     ELSE JobEnds
  /\ ScriptFault /\ UNCHANGED <<worker, failed, pipeline>>

\* The script ends with another code, as when users..bucket cannot be listed.
ScriptFails ==
  /\ job.at = "connect"
  /\ JobEnds
  /\ ScriptFault /\ UNCHANGED <<worker, failed, pipeline>>

\* The process dies, and its lock stays.
ReindexCrash ==
  /\ job.at # "idle"
  /\ job' = Idle /\ pipeline' = <<>>
  /\ worker' = [b \in Buckets |-> NoWorker] /\ failed' = {}
  /\ ScriptFault /\ UNCHANGED reindexLock

ReindexLockExpires ==
  /\ reindexLock /\ job.at = "idle"
  /\ reindexLock' = FALSE
  /\ RedisUnchanged /\ UNCHANGED <<job, worker, failed, pipeline>>
-----------------------------------------------------------------------------
(***************************************************************************)
(* BucketDClient: the listing of the buckets, and of each bucket.          *)
(***************************************************************************)
ListBuckets ==
  /\ job.at = "connect"
  /\ job' = [at |-> "count", left |-> 0]
  /\ worker' = [b \in Buckets |-> IF b \in exists THEN [NoWorker EXCEPT !.at = "list"]
                                                  ELSE NoWorker]
  /\ RedisUnchanged /\ UNCHANGED <<failed, pipeline, reindexLock>>

Before(v, w) == v[1] < w[1] \/ (v[1] = w[1] /\ v[2] < w[2])

\* The versions after a marker, the newest version of a key first.
Page(b, marker) ==
  LET rest == {v \in contents[b] : marker = Nil \/ Before(marker, v)}
      size == IF Cardinality(rest) < PageSize THEN Cardinality(rest) ELSE PageSize
      Nth(n) == CHOOSE v \in rest : Cardinality({w \in rest : Before(w, v)}) = n - 1
  IN  [n \in 1..size |-> Nth(n)]

\* _sum_objects over a page: of a locked bucket only the first version of a key
\* may count, and the last key is remembered from page to page.
CountsAll(b, page, last) == Len(page)  \* Slip
Counts(b, page, last) ==
  IF OnlyLatest /\ b \in Locked
  THEN Cardinality({n \in DOMAIN page :
                      page[n][1] # (IF n > 1 THEN page[n - 1][1] ELSE last)})
  ELSE Len(page)

LastKey(w) == IF w.marker = Nil THEN Nil ELSE w.marker[1]

Summed(b, page) ==
  LET n == Counts(b, page, LastKey(worker[b]))
      more == \E v \in contents[b] : page # <<>> /\ Before(Last(page), v)
  IN  [worker[b] EXCEPT !.count = @ + n, !.size = @ + n, !.page = page,
                        !.marker = IF page = <<>> THEN @ ELSE Last(page),
                        !.at = IF more THEN "list" ELSE "uploads"]

ListBucket(b) ==
  /\ worker[b].at = "list"
  /\ worker' = [worker EXCEPT ![b] = Summed(b, Page(b, worker[b].marker))]
  /\ RedisUnchanged /\ UNCHANGED <<job, failed, pipeline, reindexLock>>

ForgetBucket(b) == worker' = [worker EXCEPT ![b] = [NoWorker EXCEPT !.at = "none"]]  \* Slip
FailBucket(b) == worker' = [worker EXCEPT ![b] = [NoWorker EXCEPT !.at = "failed"]]

\* A request that fails three times, or an answer without a listing.
ListingFailed(b) ==
  /\ worker[b].at \in {"list", "uploads"}
  /\ FailBucket(b)
  /\ failed' = failed \cup {b}
  /\ ScriptFault /\ UNCHANGED <<job, pipeline, reindexLock>>

\* A status other than 200, 404 and 500 yields the page before once more.
OddStatus(b) ==
  /\ worker[b].at = "list" /\ worker[b].page # Nil
  /\ LET n == Counts(b, worker[b].page, LastKey(worker[b]))
     IN  worker' = [worker EXCEPT ![b].count = @ + n, ![b].size = @ + n]
  /\ ScriptFault /\ UNCHANGED <<job, failed, pipeline, reindexLock>>

\* list_mpus and count_mpu_parts: parts add to the bytes only.
CountUploads(b) ==
  /\ worker[b].at = "uploads"
  /\ worker' = [worker EXCEPT ![b].size = @ + Uploads[b], ![b].at = "counted"]
  /\ RedisUnchanged /\ UNCHANGED <<job, failed, pipeline, reindexLock>>
-----------------------------------------------------------------------------
(***************************************************************************)
(* The reports, and what they do to Redis without a transaction.           *)
(***************************************************************************)
UpdateRedis(r, n, size) ==
  LET t == getNormalizedTimestamp
  IN  << Cmd("zremrangebyscore", generateStateKey(r, "numberOfObjects"), t),
         Cmd("zremrangebyscore", generateStateKey(r, "storageUtilized"), t),
         Cmd("zadd", generateStateKey(r, "numberOfObjects"), <<t, n>>),
         Cmd("zadd", generateStateKey(r, "storageUtilized"), <<t, size>>),
         Cmd("set", generateCounter(r, "numberOfObjectsCounter"), n),
         Cmd("set", generateCounter(r, "storageUtilizedCounter"), size) >>

\* The count and size of each resource in the domain of total.
Updates(total) ==
  LET S == SetToSeq(DOMAIN total)
  IN  FlattenSeq([n \in DOMAIN S |-> UpdateRedis(S[n], total[S[n]][1], total[S[n]][2])])

ClearAll(S) == Updates([r \in S |-> <<0, 0>>])

Recorded(R) == {r \in R : generateStateKey(r, "storageUtilized") \in DOMAIN db}

Observed == {b \in Buckets : worker[b].at \in {"counted", "failed"}}
FailedAccounts == {Owner[b] : b \in failed}
Reported(a) == {b \in Buckets : worker[b].at = "counted" /\ Owner[b] = a}

StageTo(stage, from, cmds) ==
  /\ job.at = from /\ pipeline = <<>>
  /\ job' = [job EXCEPT !.at = stage]
  /\ \E todo \in {cmds} : pipeline' = todo
  /\ RedisUnchanged /\ UNCHANGED <<worker, failed, reindexLock>>

UpdateBuckets ==
  /\ \A b \in Buckets : worker[b].at \in {"none", "counted", "failed"}
  /\ StageTo("buckets", "count",
             Updates([b \in {x \in Buckets : worker[x].at = "counted"} |->
                        <<worker[b].count, worker[b].size>>]))

ClearBuckets == StageTo("stale", "buckets", ClearAll(Recorded(Buckets) \ Observed))

UpdateAccounts ==
  StageTo("accounts", "stale",
          Updates([a \in {x \in Accounts : Reported(x) # {}} \ FailedAccounts |->
                     << SumOver([b \in Buckets |-> worker[b].count], Reported(a)),
                        SumOver([b \in Buckets |-> worker[b].size], Reported(a)) >>]))

StaleAccountsKnown == Recorded(Accounts) \ {a \in Accounts : Reported(a) # {}}  \* Slip
StaleAccounts == Recorded(Accounts) \ ({a \in Accounts : Reported(a) # {}} \cup FailedAccounts)

ClearAccounts == StageTo("end", "accounts", ClearAll(StaleAccounts))

Execute ==
  /\ pipeline # <<>>
  /\ \E c \in {Head(pipeline)} : db' = Effect(db, c) /\ dying' = dying \ Persisted(db, <<c>>)
  /\ pipeline' = Tail(pipeline)
  /\ muddled' = TRUE
  /\ UNCHANGED <<log, push, local, now, faults, doubts,
                 contents, exists, job, worker, failed, reindexLock>>

\* reporting.py only reads; the lock is deleted whoever holds it.
FinishJob ==
  /\ job.at = "end" /\ pipeline = <<>>
  /\ JobEnds
  /\ worker' = [b \in Buckets |-> NoWorker] /\ failed' = {}
  /\ RedisUnchanged /\ UNCHANGED pipeline
-----------------------------------------------------------------------------
Working ==
  \/ ScheduleJob \/ ReindexLockExpires \/ ListBuckets
  \/ \E b \in Buckets : ListBucket(b) \/ CountUploads(b)
  \/ UpdateBuckets \/ ClearBuckets \/ UpdateAccounts \/ ClearAccounts
  \/ Execute \/ FinishJob

Failing ==
  \/ SentinelDown \/ ScriptFails \/ ReindexCrash
  \/ \E b \in Buckets : ListingFailed(b) \/ OddStatus(b)

Serving ==
  \E i \in Ids : \/ \E x \in Changes : \/ PutVersion(i, x[1], x[2])
                                       \/ DeleteVersion(i, x[1], x[2])
                 \/ Proceed(i) /\ UNCHANGED reindexing

ReindexNext == Working \/ Failing \/ Serving
allvars == <<v1vars, reindexing>>

\* Clients, their replay and the job, from an empty Redis.
V1Spec ==
  /\ Init /\ ReindexInit /\ exists = {} /\ contents = [b \in Buckets |-> {}]
  /\ [][(ClientNext /\ UNCHANGED reindexing) \/ ReindexNext]_allvars

ReindexFairness ==
  /\ WF_allvars(Working)
  /\ WF_allvars((\E i \in Ids : Proceed(i)) /\ UNCHANGED reindexing)
-----------------------------------------------------------------------------
(***************************************************************************)
(* Properties.                                                             *)
(***************************************************************************)

\* A bucket that could not be listed, and its account, keep their metrics: the
\* job neither sets nor clears them.
FailedKept ==
  \A n \in DOMAIN pipeline : pipeline[n].key[1] \notin failed \cup FailedAccounts

True(b) ==
  LET all == contents[b]
  IN  IF OnlyLatest /\ b \in Locked THEN Cardinality({v[1] : v \in all}) ELSE Cardinality(all)

Right(r, buckets) ==
  /\ Value(db, generateCounter(r, "numberOfObjectsCounter"), 0)
       = FoldSet(LAMBDA b, n : n + True(b), 0, buckets)
  /\ Value(db, generateCounter(r, "storageUtilizedCounter"), 0)
       = FoldSet(LAMBDA b, n : n + True(b) + Uploads[b], 0, buckets)

\* Whatever was wrong in Redis, was pushed during a job or went wrong with one,
\* in the end the counters of each bucket that exists or has a snapshot, and of
\* each account, are what the buckets hold, and stay it.  (A job that dies
\* between the commands for a deleted bucket may remove its snapshot and leave
\* its counter, which no later job finds.)
Healed ==
  <>[](/\ \A b \in exists \cup Recorded(Buckets) : Right(b, {b} \cap exists)
       /\ \A a \in {Owner[b] : b \in exists} \cup Recorded(Accounts) :
            Right(a, {b \in exists : Owner[b] = a}))
=============================================================================
