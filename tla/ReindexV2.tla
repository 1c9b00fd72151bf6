----------------------------- MODULE ReindexV2 -----------------------------
(***************************************************************************)
(* ReindexTask of version 2: it sizes each bucket from a listing in pages, *)
(* compares the sum with what the pushed metrics add up to, and writes the *)
(* difference as a correction, of which queries add the latest one.  The   *)
(* service changes buckets meanwhile, and its metrics arrive late.         *)
(***************************************************************************)
EXTENDS Sums, FiniteSetsExt, SequencesExt

CONSTANTS
  Buckets, Owner,  \* the buckets, and the account of each
  Uploads,         \* size of the parts of unfinished uploads, by bucket
  Changes,         \* what the service may do: [bucket, add, remove]
  PageSize,        \* PAGE_SIZE
  MaxChanges,      \* bound: changes
  MaxErrors        \* bound: requests that fail after all retries

ASSUME ReindexAssumption ==
  /\ PageSize \in Nat \ {0} /\ {MaxChanges, MaxErrors} \subseteq Nat
  /\ IsFiniteSet(Buckets)
  /\ \A b \in Buckets : Owner[b] \notin Buckets /\ Uploads[b] \in Nat
  /\ \A x \in Changes : x.bucket \in Buckets

Accounts == {Owner[b] : b \in Buckets}
Resources == Buckets \cup Accounts
Of(r) == {b \in Buckets : b = r \/ Owner[b] = r}

VARIABLES
  metadata,    \* entries of each bucket: <<name, version, size>>; version 0 is the
               \* master, and a delete marker or a placeholder has size -1
  raw,         \* what the metrics in Warp 10 add up to: <<count, size>>
  late,        \* what those still on their way add up to
  repair,      \* the latest correction of each resource
  running,     \* whether the task runs
  index,       \* progress of each bucket and account
  failedIn,    \* buckets whose listing failed
  changes,     \* counts the changes
  errors,      \* counts the requests that failed
  touched,     \* history: buckets that changed since their listing began
  settled      \* history: resources whose last correction nothing disturbed

reindexVars == <<metadata, raw, late, repair, running, index, failedIn, changes, errors, touched, settled>>
sums == <<raw, late, repair>>
bounds == <<changes, errors>>

NoSum == <<0, 0>>
Add(x, y) == <<x[1] + y[1], x[2] + y[2]>>
Sub(x, y) == <<x[1] - y[1], x[2] - y[2]>>

NoIndex == [at |-> "none", total |-> NoSum, marker |-> <<>>, master |-> <<>>, value |-> NoSum]

IsMarker(e) == e[3] < 0

\* The entries that the service keeps of a bucket: names have each version once,
\* and a master that is an object has one among its versions, if it has any.
Listable(E) ==
  /\ IsFiniteSet(E) /\ E \subseteq Nat \X Nat \X Int
  /\ \A e, f \in E : e[1] = f[1] /\ e[2] = f[2] => e = f
  /\ \A e \in E : (e[2] = 0 /\ ~IsMarker(e)) =>
       \/ \A f \in E : f[1] = e[1] => f[2] = 0
       \/ \E f \in E : f[1] = e[1] /\ f[2] # 0 /\ ~IsMarker(f)

Weight(E) == <<Cardinality(E), SumOver([e \in E |-> e[3]], E)>>

\* What a set of entries holds: its versions, and the masters that have none.
Held(E) == Weight({e \in E : /\ ~IsMarker(e)
                             /\ e[2] # 0 \/ \A f \in E : f[1] = e[1] => f[2] = 0})

SumAll(t, S) == <<SumOver([b \in S |-> t[b][1]], S), SumOver([b \in S |-> t[b][2]], S)>>

\* What a bucket, and a resource, should be found to hold.
Sized(b) == Add(Held(metadata[b]), <<0, Uploads[b]>>)
Truth(r) == SumAll([b \in Of(r) |-> Sized(b)], Of(r))

ReindexV2TypeOK ==
  /\ \A r \in Resources : index[r].at \in {"none", "list", "fetch", "write", "done", "failed"}
  /\ failedIn = {b \in Buckets : index[b].at = "failed"}
  /\ touched \subseteq Buckets /\ settled \subseteq Resources
  /\ changes \in 0..MaxChanges /\ errors \in 0..MaxErrors

ReindexV2Init ==
  /\ raw = [r \in Resources |-> NoSum]
  /\ late = [r \in Resources |-> NoSum]
  /\ repair = [r \in Resources |-> NoSum]
  /\ running = FALSE /\ index = [r \in Resources |-> NoIndex] /\ failedIn = {}
  /\ changes = 0 /\ errors = 0
  /\ touched = {} /\ settled = {}
-----------------------------------------------------------------------------
\* The service changes a bucket and pushes what that adds to it.
Change(x) ==
  LET before == metadata[x.bucket]
      after == (before \ x.remove) \cup x.add
      d == Sub(Held(after), Held(before))
  IN  /\ changes < MaxChanges
      /\ x.remove \subseteq before /\ x.add \cap before = {} /\ Listable(after)
      /\ metadata' = [metadata EXCEPT ![x.bucket] = after]
      /\ late' = [late EXCEPT ![x.bucket] = Add(@, d), ![Owner[x.bucket]] = Add(@, d)]
      /\ touched' = touched \cup {x.bucket}
      /\ changes' = changes + 1
      /\ UNCHANGED <<raw, repair, running, index, failedIn, errors, settled>>

IngestLate ==
  /\ \E r \in Resources : late[r] # NoSum
  /\ raw' = [r \in Resources |-> Add(raw[r], late[r])]
  /\ late' = [r \in Resources |-> NoSum]
  /\ UNCHANGED <<metadata, repair, running, index, failedIn, bounds, touched, settled>>
-----------------------------------------------------------------------------
Execute ==
  /\ ~running
  /\ running' = TRUE
  /\ index' = [r \in Resources |-> IF r \in Buckets THEN [NoIndex EXCEPT !.at = "list"] ELSE NoIndex]
  /\ failedIn' = {} /\ touched' = {}
  /\ UNCHANGED <<metadata, sums, bounds, settled>>

Before(e, f) == e[1] < f[1] \/ (e[1] = f[1] /\ e[2] < f[2])

\* listObjects: the entries after a marker, a master before its versions.
PageAfter(b, marker) ==
  LET rest == {e \in metadata[b] : marker = <<>> \/ Before(marker, e)}
      Nth(n) == CHOOSE e \in rest : Cardinality({f \in rest : Before(f, e)}) = n - 1
  IN  [n \in 1..(IF Cardinality(rest) < PageSize THEN Cardinality(rest) ELSE PageSize) |-> Nth(n)]

\* _indexBucket: the first version of a name takes the place of its master.
CountEntryTwice(i, e) ==  \* Slip
  IF IsMarker(e) THEN i ELSE [i EXCEPT !.total = Add(@, <<1, e[3]>>)]

CountEntry(i, e) ==
  IF IsMarker(e) THEN i
  ELSE IF i.master # <<>> /\ e[1] = i.master[1]
  THEN [i EXCEPT !.total = Sub(Add(@, <<1, e[3]>>), <<1, i.master[3]>>), !.master = <<>>]
  ELSE [i EXCEPT !.total = Add(@, <<1, e[3]>>),
                 !.master = IF e[2] = 0 THEN e ELSE @]

\* A page that is not full ends the listing; the uploads add to the size.
ListPage(b) ==
  LET page == PageAfter(b, index[b].marker)
      counted == FoldLeft(CountEntry, index[b], page)
  IN  /\ index[b].at = "list"
      /\ index' = [index EXCEPT ![b] =
           IF Len(page) = PageSize
           THEN [counted EXCEPT !.marker = Last(page)]
           ELSE [counted EXCEPT !.at = "fetch", !.total = Add(@, <<0, Uploads[b]>>),
                                !.marker = <<>>, !.master = <<>>]]
      /\ UNCHANGED <<metadata, sums, running, failedIn, bounds, touched, settled>>

Failing == errors < MaxErrors /\ errors' = errors + 1

ListingFails(b) ==
  /\ index[b].at = "list"
  /\ index' = [index EXCEPT ![b] = [NoIndex EXCEPT !.at = "failed"]]
  /\ failedIn' = failedIn \cup {b}
  /\ Failing
  /\ UNCHANGED <<metadata, sums, running, changes, touched, settled>>

\* _fetchCurrentMetrics, without the corrections.
FetchCurrentMetrics(r) ==
  /\ index[r].at = "fetch"
  /\ index' = [index EXCEPT ![r].at = "write", ![r].value = raw[r]]
  /\ settled' = IF late[r] = NoSum /\ Of(r) \cap touched = {} THEN settled \cup {r} ELSE settled \ {r}
  /\ UNCHANGED <<metadata, sums, running, failedIn, bounds, touched>>

\* _updateMetric.  Without a difference no record is written, and the
\* correction of an earlier run remains the latest.
UpdateMetric(r) ==
  LET d == Sub(index[r].total, index[r].value)
  IN  /\ index[r].at = "write"
      /\ index' = [index EXCEPT ![r].at = "done", ![r].value = NoSum]
      /\ repair' = IF d # NoSum THEN [repair EXCEPT ![r] = d] ELSE repair
      /\ settled' = IF d = NoSum /\ repair[r] # NoSum THEN settled \ {r} ELSE settled
      /\ UNCHANGED <<metadata, raw, late, running, failedIn, bounds, touched>>

\* Either request fails, which is logged.
UpdateFails(r) ==
  /\ index[r].at \in {"fetch", "write"}
  /\ index' = [index EXCEPT ![r].at = "done", ![r].value = NoSum]
  /\ settled' = settled \ {r}
  /\ Failing
  /\ UNCHANGED <<metadata, sums, running, failedIn, changes, touched>>

TotalsOfAll(a) == {b \in Of(a) : index[b].at = "done"} # {}  \* Slip
ToUpdate(a) ==
  /\ Of(a) \cap failedIn = {}
  /\ {b \in Of(a) : index[b].at = "done"} # {}

SumAccounts ==
  /\ running
  /\ \A b \in Buckets : index[b].at \in {"done", "failed"}
  /\ \A a \in Accounts : index[a].at = "none"
  /\ index' = [r \in Resources |->
       IF r \in Buckets THEN index[r]
       ELSE IF ToUpdate(r)
       THEN [NoIndex EXCEPT !.at = "fetch",
               !.total = SumAll([b \in Of(r) |-> index[b].total], Of(r))]
       ELSE [NoIndex EXCEPT !.at = "done"]]
  /\ UNCHANGED <<metadata, sums, running, failedIn, bounds, touched, settled>>

Finished ==
  /\ running
  /\ \A r \in Resources : index[r].at \in {"done", "failed"}
  /\ running' = FALSE
  /\ index' = [r \in Resources |-> NoIndex] /\ failedIn' = {} /\ touched' = {}
  /\ UNCHANGED <<metadata, sums, bounds, settled>>

Dies ==
  /\ running
  /\ running' = FALSE
  /\ index' = [r \in Resources |-> NoIndex] /\ failedIn' = {} /\ touched' = {}
  /\ settled' = settled \ {r \in Resources : index[r].at = "write"}
  /\ Failing
  /\ UNCHANGED <<metadata, sums, changes>>

ReindexV2Next ==
  \/ \E x \in Changes : Change(x)
  \/ IngestLate
  \/ Execute \/ SumAccounts \/ Finished \/ Dies
  \/ \E b \in Buckets : ListPage(b) \/ ListingFails(b)
  \/ \E r \in Resources : FetchCurrentMetrics(r) \/ UpdateMetric(r) \/ UpdateFails(r)

MetadataKept == DOMAIN metadata = Buckets /\ \A b \in Buckets : Listable(metadata[b])

ReindexV2Spec == ReindexV2Init /\ MetadataKept /\ [][ReindexV2Next]_reindexVars
-----------------------------------------------------------------------------
\* A resource that was listed and compared while its buckets did not change and
\* none of its metrics were on their way is right from its correction on: with
\* the metrics that are pushed later, the sum is what its buckets hold.  Metrics
\* may arrive and buckets change between the comparison and the correction, and
\* an account of which one bucket failed is left alone.
ReindexRight ==
  \A r \in settled :
    index[r].at # "write" => Add(Add(raw[r], late[r]), repair[r]) = Truth(r)
=============================================================================
