------------------------------ MODULE Migrate ------------------------------
(***************************************************************************)
(* MigrateTask for one resource: the version 1 history of its storage      *)
(* becomes version 2 records, snapshots before the oldest snapshot that    *)
(* version 2 made itself and checkpoints after it, and what the latest     *)
(* snapshot of version 2 could not know is ingested as a repair.           *)
(*                                                                         *)
(* Two keys in Redis tell a restart what was done.  Requests fail or lose  *)
(* their answers, the process dies, snapshots and repairs run meanwhile.   *)
(* The task has one Warp 10 (bin/migrate.js), and asks no other.           *)
(*                                                                         *)
(* The fields of a record are summed alike, and modelled as one.  The      *)
(* records of the resource are those of one node.                          *)
(***************************************************************************)
EXTENDS FiniteSetsExt, Sequences, Sums

CONSTANTS
  History,      \* <<time, value>> of version 1, in order
  Present,      \* an instant after all of History
  MaxMistakes,  \* bound: requests that fail or seem to, deaths of the process
  MaxSnapshots, \* bound: snapshots taken meanwhile
  None          \* no snapshot

ASSUME MigrateAssumption ==
  /\ History \in Seq(Nat \X Int) /\ Present \in Nat
  /\ \A n \in DOMAIN History : History[n][1] < Present
  /\ \A m, n \in DOMAIN History : m < n => History[m][1] < History[n][1]
  /\ None \notin Nat
  /\ MaxMistakes \in Nat /\ MaxSnapshots \in Nat

VARIABLES
  series,     \* values in Warp 10, by <<class, time>>
  master,     \* time of the node's master snapshot, -1 before the first
  repaired,   \* time of the node's master repair
  marks,      \* keys in Redis that are set
  task,       \* progress of the task
  instant,    \* the clock
  mistakes,   \* counts what went wrong
  taken,      \* counts the snapshots taken meanwhile
  spoiled,    \* history: a snapshot was taken between begin and end
  dropped,    \* history: a snapshot left records behind the master out
  first,      \* history: time of the first snapshot taken meanwhile
  own         \* history: value and snapshots of version 2 before

tasks == <<master, repaired>>
past == <<spoiled, dropped, first, own>>
migration == <<series, tasks, marks, task, instant, mistakes, taken, past>>
world == <<tasks, instant, mistakes, taken, past>>

Stages == {"idle", "latest", "oldest", "metrics", "mark", "isCorrected", "correct", "markCorrected"}

NoTask == [at |-> "idle", ingest |-> FALSE, latest |-> None, oldest |-> None,
           next |-> 1, correction |-> 0]

Classes == {"checkpoint", "snapshot", "correction", "repair"}

MigrateTypeOK ==
  /\ \A k \in DOMAIN series : k[1] \in Classes /\ k[2] \in Nat
  /\ master \in -1..instant /\ repaired \in 0..instant
  /\ marks \subseteq {"migrated", "corrected"}
  /\ task.at \in Stages /\ task.next \in 1..(Len(History) + 1)
  /\ mistakes \in 0..MaxMistakes /\ taken \in 0..MaxSnapshots

MigrateInit ==
  /\ marks = {} /\ task = NoTask /\ instant = Present /\ repaired = 0
  /\ mistakes = 0 /\ taken = 0
  /\ spoiled = FALSE /\ dropped = FALSE /\ first = None
-----------------------------------------------------------------------------
(***************************************************************************)
(* Warp 10: records of one class at one time replace each other.           *)
(***************************************************************************)
Times(class) == {k[2] : k \in {x \in DOMAIN series : x[1] = class}}

SumAfter(class, from, to) ==
  SumOver([t \in Times(class) |-> series[<<class, t>>]],
          {t \in Times(class) : from < t /\ t =< to})

\* The latest snapshot up to time, or -1, and its value.
LastSnapshot(time) ==
  LET snaps == {t \in Times("snapshot") : t =< time}
  IN  IF snaps = {} THEN -1 ELSE Max(snaps)

Base(from) == IF from = -1 THEN 0 ELSE series[<<"snapshot", from>>]

\* What a query sums: the latest snapshot and what came since.  It reads what
\* repairs were folded into, and none that was not.
Folded(from, to) == SumAfter("checkpoint", from, to) + SumAfter("correction", from, to)

At(time) == Base(LastSnapshot(time)) + Folded(LastSnapshot(time), time)

Ingested(class, time, v) ==
  [k \in DOMAIN series \cup {<<class, time>>} |-> IF k = <<class, time>> THEN v ELSE series[k]]

\* What version 2 has of the resource before the migration.  None of its records
\* hits, to the microsecond, an instant of version 1, which are quarters of an hour.
Begun ==
  /\ IsFiniteSet(DOMAIN series)
  /\ \A k \in DOMAIN series :
       /\ k \in (Classes \ {"repair"}) \X Nat /\ series[k] \in Int
       /\ k[2] < Present /\ \A n \in DOMAIN History : k[2] # History[n][1]
  /\ master \in -1..(Present - 1) /\ \A t \in Times("snapshot") : t =< master
  /\ own = [value |-> At(Present),
            oldest |-> IF Times("snapshot") = {} THEN None ELSE Min(Times("snapshot")),
            latest |-> IF Times("snapshot") = {} THEN None ELSE Max(Times("snapshot"))]
-----------------------------------------------------------------------------
To(stage) == task' = [task EXCEPT !.at = stage]

\* The record of the metric at n: what changed since the one before.
Delta(n) == History[n][2] - (IF n = 1 THEN 0 ELSE History[n - 1][2])

PredatesOldest(t) == task.oldest # None /\ t < task.oldest  \* Slip
Predates(t) == task.latest # None /\ t < task.latest

Corrected(n) == task.correction + (IF Predates(History[n][1]) THEN Delta(n) ELSE 0)

\* Before the oldest snapshot of version 2 the sum so far is a snapshot; a
\* metric between two snapshots, or after them, is a checkpoint.
OldDelta(n) == Delta(n)  \* Slip
Old(n) == Corrected(n)

IsOld(n) == task.oldest # None /\ History[n][1] < task.oldest

Migrated(n) ==
  IF IsOld(n) THEN Ingested("snapshot", History[n][1], Old(n))
              ELSE Ingested("checkpoint", History[n][1], Delta(n))

IsMigrated ==
  /\ task.at = "idle"
  /\ task' = [NoTask EXCEPT !.at = "latest", !.ingest = "migrated" \notin marks]
  /\ UNCHANGED <<series, marks, world>>

FindLatestSnapshot ==
  /\ task.at = "latest"
  /\ task' = IF Times("snapshot") = {} THEN [task EXCEPT !.at = "metrics"]
             ELSE [task EXCEPT !.at = "oldest", !.latest = Max(Times("snapshot"))]
  /\ UNCHANGED <<series, marks, world>>

FindOldestSnapshot ==
  /\ task.at = "oldest"
  /\ task' = [task EXCEPT !.at = "metrics", !.oldest = Min(Times("snapshot"))]
  /\ UNCHANGED <<series, marks, world>>

MigrateMetric ==
  /\ task.at = "metrics"
  /\ IF task.next > Len(History)
     THEN To("mark") /\ UNCHANGED series
     ELSE /\ series' = IF task.ingest THEN Migrated(task.next) ELSE series
          /\ task' = [task EXCEPT !.next = @ + 1, !.correction = Corrected(task.next)]
  /\ UNCHANGED <<marks, world>>

MarkMigrated ==
  /\ task.at = "mark"
  /\ marks' = marks \cup {"migrated"}
  /\ To("isCorrected")
  /\ UNCHANGED <<series, world>>

IsCorrected ==
  /\ task.at = "isCorrected"
  /\ IF "corrected" \in marks THEN task' = NoTask ELSE To("correct")
  /\ UNCHANGED <<series, marks, world>>

IngestCorrection ==
  /\ task.at = "correct"
  /\ series' = Ingested("repair", instant, task.correction)
  /\ To("markCorrected")
  /\ UNCHANGED <<marks, world>>

MarkCorrected ==
  /\ task.at = "markCorrected"
  /\ marks' = marks \cup {"corrected"}
  /\ task' = NoTask
  /\ UNCHANGED <<series, world>>

Migrating ==
  \/ IsMigrated \/ FindLatestSnapshot \/ FindOldestSnapshot \/ MigrateMetric
  \/ MarkMigrated \/ IsCorrected \/ IngestCorrection \/ MarkCorrected
-----------------------------------------------------------------------------
Mistake == mistakes < MaxMistakes /\ mistakes' = mistakes + 1
           /\ task' = NoTask /\ instant' = instant + 1

\* A request without effect, and a death of the process: the task ends.
RequestFails ==
  /\ task.at # "idle"
  /\ Mistake
  /\ UNCHANGED <<series, tasks, marks, taken, past>>

\* A request that is done and seems to fail.
AnswerLost ==
  /\ \/ /\ task.at = "metrics" /\ task.next =< Len(History) /\ task.ingest
        /\ series' = Migrated(task.next)
        /\ UNCHANGED marks
     \/ /\ task.at = "mark"
        /\ marks' = marks \cup {"migrated"}
        /\ UNCHANGED series
     \/ /\ task.at = "correct"
        /\ series' = Ingested("repair", instant, task.correction)
        /\ UNCHANGED marks
     \/ /\ task.at = "markCorrected"
        /\ marks' = marks \cup {"corrected"}
        /\ UNCHANGED series
  /\ Mistake
  /\ UNCHANGED <<tasks, taken, past>>
-----------------------------------------------------------------------------
(***************************************************************************)
(* The tasks that run beside it.                                           *)
(***************************************************************************)
Since(from, to) ==
  {t \in Times("checkpoint") \cup Times("correction") : from < t /\ t =< to}

\* A resource has a new snapshot when it has records after the master snapshot:
\* its last one and those records, and none that was written behind the master.
TakeSnapshot ==
  \E end \in (master + 1)..instant :
    /\ taken < MaxSnapshots
    /\ taken' = taken + 1
    /\ instant' = instant + 1
    /\ master' = end
    /\ IF Since(master, end) = {}
       THEN UNCHANGED <<series, spoiled, dropped, first>>
       ELSE /\ series' = Ingested("snapshot", end,
                                 Base(LastSnapshot(end)) + Folded(master, end))
            /\ spoiled' = (spoiled \/ "corrected" \notin marks)
            /\ dropped' = (dropped \/ Since(LastSnapshot(end), master) # {})
            /\ first' = IF first = None THEN end ELSE first
    /\ UNCHANGED <<repaired, marks, task, mistakes, own>>

\* repairRecords decodes what the migration ingested as an event.  That names no
\* resource, so there is no correction of it, and the master goes past it.
RepairRecords ==
  /\ repaired < instant
  /\ repaired' = instant
  /\ UNCHANGED <<series, master, marks, task, instant, mistakes, taken, past>>

MigrateNext ==
  \/ Migrating \/ RequestFails \/ AnswerLost
  \/ TakeSnapshot \/ RepairRecords

MigrateSpec == MigrateInit /\ Begun /\ [][MigrateNext]_migration

-----------------------------------------------------------------------------
Total == IF History = <<>> THEN 0 ELSE History[Len(History)][2]

\* What version 1 had at the last metric before the latest snapshot of version 2.
Missed ==
  LET before == {n \in DOMAIN History : own.latest # None /\ History[n][1] < own.latest}
  IN  IF before = {} THEN 0 ELSE History[Max(before)][2]

\* However often the migration fails and is restarted, a query about the present
\* has, once, what version 1 gained since the latest snapshot of version 2, with
\* what version 2 counted; and each correction is exactly the rest, which the
\* query has not.  Exceptions: a snapshot of the resource was made before the
\* correction, or behind the master (the metrics that it left out are lost).
MigratedOnce ==
  ~spoiled =>
    /\ "migrated" \in marks /\ ~dropped => At(instant) = own.value + Total - Missed
    /\ \A t \in Times("repair") : series[<<"repair", t>>] = Missed

\* 'Add metric to correction if it predates the latest snapshot': when the one
\* correction of a resource was marked and repairs have run since, a query about
\* the present has all that version 1 had.
CorrectionCounts ==
  (/\ "corrected" \in marks /\ ~spoiled /\ ~dropped
   /\ Cardinality(Times("repair")) = 1 /\ \A t \in Times("repair") : t < repaired)
  => At(instant) = own.value + Total

\* What version 2 counted up to then is the history that it was given.
Alone(time) ==
  \A t \in Since(-1, time) : \E n \in DOMAIN History : t = History[n][1]

\* At each instant of the history before version 2 took its first snapshot and
\* counted its first record, a query gives what version 1 had, whichever records a
\* restart wrote again.
HistoryKept ==
  ("migrated" \in marks /\ ~spoiled) =>
    \A n \in DOMAIN History :
      /\ \A t \in {own.oldest, first} : t = None \/ History[n][1] < t
      /\ Alone(History[n][1])
      => At(History[n][1]) = History[n][2]
=============================================================================
