----------------------------- MODULE DiskUsage -----------------------------
(***************************************************************************)
(* MonitorDiskUsage beside the tasks that write to Warp 10: the leader     *)
(* deletes what is older than the retention, slice by slice, and the other *)
(* processes turn the updates of their Warp 10 off when the disk is full.  *)
(* Each process has one Warp 10 (bin/diskUsage.js).                        *)
(*                                                                         *)
(* Of the records of a resource, only checkpoints of one unit and the      *)
(* snapshots that sum them are told apart.                                 *)
(***************************************************************************)
EXTENDS FiniteSetsExt, SequencesExt, Sums

CONSTANTS
  Retention,   \* _metricRetentionMicroSecs
  Chunk,       \* expirationChunkDuration
  Limit,       \* hardLimit
  Usages,      \* sizes the disk may have
  MaxClock,    \* bound: last instant
  MaxManual,   \* bound: manual locks and unlocks
  MaxMisses    \* bound: deletions that fail

ASSUME DiskAssumption ==
  /\ {Retention, Chunk, Limit} \subseteq Nat \ {0}
  /\ Usages \subseteq Nat /\ {MaxClock, MaxManual, MaxMisses} \subseteq Nat

VARIABLES
  clock,
  records,   \* [time, snapshot, size]
  slices,    \* slices the expiration has yet to delete
  updates,   \* whether Warp 10 accepts updates
  usage,     \* bytes of leveldb and datalog
  metricsOn, \* whether the processes have metrics enabled
  halted,    \* whether the leader's schedule was lost
  manual,    \* counts the manual locks and unlocks
  misses,    \* counts the deletions that failed
  written,   \* history: checkpoints that were written
  lapsed     \* history: no snapshot was within the retention

disk ==
  <<clock, records, slices, updates, usage, metricsOn, halted, manual, misses, written, lapsed>>
counts == <<metricsOn, halted, manual, misses>>

DiskTypeOK ==
  /\ clock \in 0..MaxClock /\ usage \in Usages /\ updates \in BOOLEAN
  /\ \A r \in records : r.time \in 0..MaxClock /\ r.size \in 0..written
  /\ \A n \in DOMAIN slices : slices[n][1] =< slices[n][2]
  /\ metricsOn \in BOOLEAN /\ halted \in {FALSE, ~metricsOn}
  /\ manual \in 0..MaxManual /\ misses \in 0..MaxMisses

DiskInit ==
  /\ clock = 0 /\ slices = <<>> /\ updates = TRUE
  /\ records = {[time |-> 0, snapshot |-> TRUE, size |-> 0]}
  /\ manual = 0 /\ misses = 0 /\ written = 0 /\ lapsed = FALSE
  /\ usage \in Usages /\ metricsOn \in BOOLEAN /\ halted = FALSE
-----------------------------------------------------------------------------
\* The time of the latest snapshot, what a query sums, and its sum.
From ==
  LET snaps == {r \in records : r.snapshot}
  IN  IF snaps = {} THEN -1 ELSE Max({r.time : r \in snaps})

Summed == {r \in records : IF r.snapshot THEN r.time = From ELSE r.time > From}

Current == SumOver([r \in records |-> r.size], Summed)

WriteCheckpoint ==
  /\ updates
  /\ \A r \in records : ~(r.time = clock)
  /\ records' = records \cup {[time |-> clock, snapshot |-> FALSE, size |-> 1]}
  /\ written' = written + 1
  /\ UNCHANGED <<clock, slices, updates, usage, counts, lapsed>>

\* A unit of time, at the end of which a snapshot may be taken.
Pass ==
  /\ clock < MaxClock
  /\ clock' = clock + 1
  /\ \/ UNCHANGED records
     \/ updates /\ records' = records \cup {[time |-> clock, snapshot |-> TRUE, size |-> Current]}
  /\ lapsed' = (lapsed \/ \A r \in records' : r.snapshot => r.time =< clock' - Retention)
  /\ UNCHANGED <<slices, updates, usage, counts, written>>

DiskFills ==
  /\ \E u \in Usages : usage' = u /\ u # usage /\ (u > usage => updates)
  /\ clock < MaxClock
  /\ UNCHANGED <<clock, records, slices, updates, counts, written, lapsed>>
-----------------------------------------------------------------------------
(***************************************************************************)
(* The leader.                                                             *)
(***************************************************************************)
sliceTimeRangeOpen(s, e) ==  \* Slip
  LET n == Cardinality({i \in 0..(e - s) : s + (i + 1) * Chunk - 1 < e})
  IN  [i \in 1..(n + 1) |-> IF i = n + 1 THEN <<s + n * Chunk, e - 1>>
                            ELSE <<s + (i - 1) * Chunk, s + i * Chunk - 1>>]

sliceTimeRangeEmpty(s, e) ==  \* Slip
  LET n == Cardinality({i \in 0..(e - s) : s + (i + 1) * Chunk - 1 =< e})
  IN  [i \in 1..(n + 1) |-> IF i = n + 1 THEN <<s + n * Chunk, e>>
                            ELSE <<s + (i - 1) * Chunk, s + i * Chunk - 1>>]

sliceTimeRange(s, e) ==
  LET n == Cardinality({i \in 0..(e - s) : s + (i + 1) * Chunk - 1 < e})
  IN  [i \in 1..(n + 1) |-> IF i = n + 1 THEN <<s + n * Chunk, e>>
                            ELSE <<s + (i - 1) * Chunk, s + i * Chunk - 1>>]

EndTimestampNow == clock  \* Slip
EndTimestamp == clock - Retention

Oldest == Min({r.time : r \in records})

ExpireMetrics ==
  /\ slices = <<>> /\ ~halted
  /\ records # {} /\ Oldest =< EndTimestamp
  /\ slices' = sliceTimeRange(Oldest - 1, EndTimestamp)
  /\ UNCHANGED <<clock, records, updates, usage, counts, written, lapsed>>

DeleteSlice ==
  /\ slices # <<>>
  /\ records' = {r \in records : r.time \notin Head(slices)[1]..Head(slices)[2]}
  /\ slices' = Tail(slices)
  /\ UNCHANGED <<clock, updates, usage, counts, written, lapsed>>

\* The run ends with the slice that could not be deleted, and is scheduled again
\* where metrics are enabled: execute counts the failure with a handler that is null
\* otherwise, and its throw leaves the schedule cancelled.
DeleteFailed ==
  /\ slices # <<>> /\ misses < MaxMisses
  /\ misses' = misses + 1
  /\ slices' = <<>>
  /\ halted' = ~metricsOn
  /\ UNCHANGED <<clock, records, updates, usage, metricsOn, manual, written, lapsed>>
-----------------------------------------------------------------------------
(***************************************************************************)
(* The limit.                                                              *)
(***************************************************************************)
Percentage(u) == (200 * u + Limit) \div (2 * Limit)  \* (u / Limit).toFixed(2)

OverWarned(u) == Percentage(u) >= 80  \* Slip
Over(u) == Percentage(u) >= 95

CheckHardLimit ==
  /\ updates' = ~Over(usage)
  /\ UNCHANGED <<clock, records, slices, usage, counts, written, lapsed>>

ManualLock ==
  /\ manual < MaxManual /\ manual' = manual + 1
  /\ updates' \in BOOLEAN
  /\ UNCHANGED <<clock, records, slices, usage, metricsOn, halted, misses, written, lapsed>>

Expiring == ExpireMetrics \/ DeleteSlice

DiskNext ==
  \/ WriteCheckpoint \/ Pass \/ DiskFills
  \/ Expiring \/ DeleteFailed
  \/ CheckHardLimit \/ ManualLock

DiskSpec == DiskInit /\ [][DiskNext]_disk

DiskFairness == WF_disk(Expiring) /\ WF_disk(CheckHardLimit) /\ WF_disk(Pass)
-----------------------------------------------------------------------------
\* While there has always been a snapshot within the retention, the deletion of
\* older records, at whatever slice it is or fails, leaves the current value.
ActiveKept == ~lapsed => Current = written

\* Once nothing is written any more, no record older than the retention is left,
\* however often a deletion failed; without metrics, unless one failed.
ExpiredGone ==
  <>[](clock = MaxClock /\ (halted \/ \A r \in records : r.time > EndTimestamp))

\* Updates are on when the disk has less than 94.5 percent of the limit, and off
\* otherwise, in the end, whatever was locked or unlocked by hand.
UpdatesFollow == <>[](updates <=> 1000 * usage < 945 * Limit)
=============================================================================
