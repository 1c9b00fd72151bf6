--------------------------- MODULE MetricStoreInv ---------------------------
(***************************************************************************)
(* The inductive invariant behind the safety properties of MetricStore, in *)
(* layers: each is inductive given the ones before it.                     *)
(***************************************************************************)
EXTENDS MetricStore

Lag(t) ==
  CASE t = "checkpoint" -> CheckpointLag
    [] t = "repair" -> RepairLag
    [] t = "snapshot" -> SnapshotLag

Folders == {"checkpoint", "repair"}

Of(kind) == {r \in records : r.kind = kind}
Folded == Of("checkpoint") \cup Of("repair")
Snapshots == Of("snapshot")
Planned == run["snapshot"].todo

(***************************************************************************)
(* Runs and the clock.                                                     *)
(***************************************************************************)
RunShape ==
  \A t \in Task :
    /\ ~run[t].active => run[t] = Idle
    /\ \A r \in run[t].todo : r.kind = t /\ r.tick = run[t].end
    /\ \A r \in run[t].todo : r.label \notin run[t].wrote
    /\ \A r, s \in run[t].todo : r.label = s.label => r = s

RunClock ==
  \A t \in Task : run[t].active =>
    /\ run[t].since <= now
    /\ now <= run[t].since + MaxRun
    /\ run[t].end + Lag(t) <= run[t].since
    /\ t \in Folders => run[t].end + Lag(t) = run[t].since
    /\ halted[t] = "no" => run[t].since < now

RecordClock ==
  /\ \A r \in records : r.kind \in Task /\ r.tick + Lag(r.kind) <= now
  /\ \A t \in Task : \A m \in master[t] : m + Lag(t) <= now

\* A run of a folding task writes at an instant past all it wrote before.
Advance ==
  \A t \in Folders :
    /\ ~run[t].active /\ halted[t] = "no" =>
         /\ \A r \in Of(t) : r.tick + Lag(t) < now
         /\ \A m \in master[t] : m + Lag(t) < now
    /\ run[t].active =>
         /\ \A r \in Of(t) : /\ r.tick <= run[t].end
                             /\ r.tick = run[t].end => r.label \in run[t].wrote
         /\ \A m \in master[t] : m < run[t].end

OneValuePerCell == \A r, s \in records : SameCell(r, s) => r = s

(***************************************************************************)
(* Points.                                                                 *)
(***************************************************************************)
OnePointPerEvent ==
  /\ \A p, q \in fast : p.id = q.id => p = q
  /\ \A p, q \in slow : p.id = q.id => p = q
  /\ \A p \in fast, q \in slow : p.id # q.id
  /\ \A p \in fast \cup slow : p.tick <= now

(***************************************************************************)
(* No event is lost by a folding task t: one that a master record is past  *)
(* is in a record at or before that master, and one that a run has read is *)
(* in a record the run wrote or has yet to write.                          *)
(***************************************************************************)
Source(t) == IF t = "checkpoint" THEN fast ELSE slow

KeptByMasters(t) ==
  \A p \in Source(t), m \in master[t] :
    p.id \notin late /\ p.tick <= m =>
      \A l \in LabelsOf[p.id] :
        \E c \in Of(t) : c.label = l /\ c.tick <= m /\ p.id \in c.once

KeptByRun(t) ==
  \A p \in Source(t) :
    p.id \notin late /\ run[t].active /\ p.tick <= run[t].end =>
      \/ \E m \in master[t] : p.tick <= m
      \/ \A l \in LabelsOf[p.id] :
           \E c \in Of(t) \cup run[t].todo :
             c.label = l /\ c.tick = run[t].end /\ p.id \in c.once

Kept(t) == KeptByMasters(t) /\ KeptByRun(t)

FastKept == Kept("checkpoint")
SlowKept == Kept("repair")

(***************************************************************************)
(* Snapshots.                                                              *)
(***************************************************************************)
SnapshotsInclude ==
  \A s \in Snapshots \cup Planned, c \in Folded :
    c.label = s.label /\ c.tick <= s.tick => c.once \subseteq s.once

SnapshotsInvent ==
  \A s \in Snapshots \cup Planned : \A e \in s.once :
    \E c \in Folded : c.label = s.label /\ c.tick <= s.tick /\ e \in c.once

SnapshotsReach ==
  /\ \A m \in master["snapshot"], c \in Folded : c.tick <= m =>
       \E s \in Snapshots :
         s.label = c.label /\ c.tick <= s.tick /\ s.tick <= m
  /\ run["snapshot"].active =>
       /\ \A m \in master["snapshot"] : m <= run["snapshot"].end
       /\ \A c \in Folded : c.tick <= run["snapshot"].end =>
            \E s \in Snapshots \cup Planned :
              /\ s.label = c.label
              /\ c.tick <= s.tick
              /\ s.tick <= run["snapshot"].end

LatestExists ==
  \A l \in Label, end \in Nat :
    Upto("snapshot", l, end) # {} => Latest(Upto("snapshot", l, end)) # {}

(***************************************************************************)
(* No event is folded two times into a label no run died on.               *)
(***************************************************************************)
\* A folding run only holds points of its class past every master record.
FoldedContents ==
  \A t \in Folders :
    /\ \A c \in Of(t) \cup run[t].todo :
         /\ c.twice = {}
         /\ \A e \in c.once :
              \E p \in Source(t) :
                p.id = e /\ p.tick <= c.tick /\ c.label \in LabelsOf[e]
    /\ \A c \in run[t].todo, p \in Source(t), m \in master[t] :
         p.id \in c.once => m < p.tick

FoldedClosed ==
  \A c \in Folded : c.label \notin torn =>
    \/ c.tick \in master[c.kind]
    \/ /\ run[c.kind].active
       /\ c.label \in run[c.kind].wrote
       /\ c.tick = run[c.kind].end

FoldedApart ==
  \A c, d \in Folded :
    c.label = d.label /\ c.label \notin torn /\ c # d => c.once \cap d.once = {}

SnapshotsClosed ==
  \A s \in Snapshots : s.label \notin torn =>
    \/ \E m \in master["snapshot"] : s.tick <= m
    \/ /\ run["snapshot"].active
       /\ s.label \in run["snapshot"].wrote
       /\ s.tick <= run["snapshot"].end

SnapshotsOnce ==
  \A s \in Snapshots \cup Planned : s.label \notin torn => s.twice = {}

TimeInv ==
  /\ TypeOK
  /\ RunShape
  /\ RunClock
  /\ RecordClock
  /\ Advance
  /\ OneValuePerCell
  /\ OnePointPerEvent

SnapshotInv ==
  /\ SnapshotsInclude
  /\ SnapshotsInvent
  /\ SnapshotsReach
  /\ LatestExists

OnceInv ==
  /\ FoldedContents
  /\ FoldedClosed
  /\ FoldedApart
  /\ SnapshotsClosed
  /\ SnapshotsOnce

\* LatestExists, for the instants a run has.
LatestExistsHere ==
  \A l \in Label, end \in Instants :
    Upto("snapshot", l, end) # {} => Latest(Upto("snapshot", l, end)) # {}

\* The inductive invariant, and what it is there for: the answers survive runs
\* that die.
Inductive ==
  /\ TimeInv
  /\ FastKept
  /\ SlowKept
  /\ SnapshotsInclude /\ SnapshotsInvent /\ SnapshotsReach
  /\ LatestExistsHere
  /\ OnceInv
  /\ NothingLost /\ RepairsCounted /\ NothingCountedTwice

\* All the origins are one: the repair macro then leaves no event behind.
SingleOrigin == \A e, f \in Event : OriginOf[e] = OriginOf[f]
=============================================================================
