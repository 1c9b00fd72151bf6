---------------------------- MODULE MetricStore ----------------------------
(***************************************************************************)
(* The Warp 10 side of Utapi v2 for one node label: the events that        *)
(* ingestion lands, the checkpoint, snapshot and repair tasks that fold    *)
(* them into records, and the answer getMetricsAt computes from what is    *)
(* stored.  Every macro filters on the node label, so nodes share no       *)
(* state and a query adds one independent instance of this module per      *)
(* node.                                                                   *)
(*                                                                         *)
(* A record of the code sums counters over the events it aggregates; here  *)
(* it carries the events themselves, once the events it counts and twice   *)
(* those it counts more than one time: the properties tell no other        *)
(* multiplicities apart.                                                   *)
(***************************************************************************)
EXTENDS Integers

CONSTANTS
  Event,          \* metrics sent by the clients
  Label,          \* values of the indexed fields: an account, a bucket, ...
  Origin,         \* utapi processes that ingest into this node
  LabelsOf,       \* the indexed fields each event carries
  OriginOf,       \* the process that ingests each event
  RepairLag,      \* how far a repair run stays behind the clock
  CheckpointLag,  \* how far a checkpoint run stays behind the clock
  SnapshotLag,    \* how far a snapshot run stays behind the clock
  MaxSnapshot,    \* longest span one snapshot run may fold
  MaxRun,         \* environment: a macro finishes or dies within this time
  MaxDelay,       \* bound: age of an event when it lands
  MaxTime,        \* bound: the clock
  MaxAborts,      \* bound: macro executions that die half way
  MetricsEnabled  \* whether the tasks expose metrics of their own

ASSUME LabelsAssumption == LabelsOf \in [Event -> SUBSET Label]
ASSUME OriginAssumption == OriginOf \in [Event -> Origin]
ASSUME LagAssumption ==
  /\ RepairLag \in Nat
  /\ CheckpointLag \in Nat
  /\ SnapshotLag \in Nat
  /\ MaxSnapshot \in Nat
  /\ MaxRun \in Nat
  /\ MaxDelay \in Nat
  /\ MaxTime \in Nat \ {0}
  /\ MaxAborts \in Nat
  /\ MetricsEnabled \in BOOLEAN
\* 5, 300 and 900 seconds in the code: a run has ten minutes to complete
\* before a snapshot run can look at the instant it writes at.
ASSUME RunAssumption ==
  /\ CheckpointLag + MaxRun < SnapshotLag
  /\ RepairLag + MaxRun < SnapshotLag

VARIABLES
  now,      \* the clock
  fast,     \* landed utapi.event points
  slow,     \* landed utapi.repair.event points
  late,     \* history: events landed at an instant a run had already read
  records,  \* checkpoints, corrections and snapshots
  master,   \* ticks of the master records of each task
  run,      \* the macro execution of each task
  halted,   \* tasks the scheduler does not start: for now, or ever again
  torn,     \* history: labels a run wrote for before dying
  aborts    \* counts the runs that died

vars == <<now, fast, slow, late, records, master, run, halted, torn, aborts>>

Task == {"checkpoint", "repair", "snapshot"}
Point == [id : Event, tick : Nat]
Record == [kind : Task \cup {"event"}, tick : Nat, label : Label,
           once : SUBSET Event, twice : SUBSET Event]
Run == [active : BOOLEAN, since : Nat, end : Nat, wrote : SUBSET Label,
        todo : SUBSET Record]

Idle == [active |-> FALSE, since |-> 0, end |-> 0, wrote |-> {}, todo |-> {}]

TypeOK ==
  /\ now \in Nat
  /\ fast \in SUBSET Point
  /\ slow \in SUBSET Point
  /\ late \in SUBSET Event
  /\ records \in SUBSET Record
  /\ master \in [Task -> SUBSET Nat]
  /\ run \in [Task -> Run]
  /\ halted \in [Task -> {"no", "now", "forever"}]
  /\ torn \in SUBSET Label
  /\ aborts \in 0..MaxAborts

Init ==
  /\ now = 1
  /\ fast = {}
  /\ slow = {}
  /\ late = {}
  /\ records = {}
  /\ master = [t \in Task |-> {}]
  /\ run = [t \in Task |-> Idle]
  /\ halted = [t \in Task |-> "no"]
  /\ torn = {}
  /\ aborts = 0
-----------------------------------------------------------------------------
(***************************************************************************)
(* Sums of records.                                                        *)
(***************************************************************************)
Once(R) == UNION {r.once : r \in R}

Twice(R) ==
  (UNION {r.twice : r \in R})
    \cup {e \in Event : \E r, s \in R : r # s /\ e \in r.once /\ e \in s.once}

Sum(kind, tick, l, R) ==
  [kind |-> kind, tick |-> tick, label |-> l,
   once |-> Once(R), twice |-> Twice(R)]

\* The events among points P that carry label l, as a record: each is
\* counted one time.
Events(kind, tick, l, P) ==
  [kind |-> kind, tick |-> tick, label |-> l,
   once |-> {p.id : p \in {x \in P : l \in LabelsOf[x.id]}}, twice |-> {}]

(***************************************************************************)
(* What the macros fetch.  An instant is new to a reader if it is past     *)
(* every master record the reader can see.                                 *)
(***************************************************************************)
Upto(kind, l, end) ==
  {r \in records : r.kind = kind /\ r.label = l /\ r.tick <= end}

Latest(R) == {r \in R : \A s \in R : s.tick <= r.tick}

\* Slip: a run starts at the master record instead of the instant after it.
PastMasterInclusive(t, tick, end) == \A m \in master[t] : m <= end => m <= tick

PastMaster(t, tick, end) == \A m \in master[t] : m <= end => m < tick

NewPoints(P, t, end) ==
  {p \in P : p.tick <= end /\ PastMaster(t, p.tick, end)}

(***************************************************************************)
(* getMetricsAt: the latest snapshot of the label, the checkpoints and     *)
(* corrections after it, and the events past the latest master checkpoint. *)
(***************************************************************************)
\* Slip: a query starts at the instant of the snapshot.
SinceSnapshotInclusive(kind, l, end) ==
  {r \in Upto(kind, l, end) :
     \A s \in Upto("snapshot", l, end) : s.tick <= r.tick}

SinceSnapshot(kind, l, end) ==
  {r \in Upto(kind, l, end) :
     \A s \in Upto("snapshot", l, end) : s.tick < r.tick}

getMetricsAt(l, end) ==
  Latest(Upto("snapshot", l, end))
    \cup SinceSnapshot("checkpoint", l, end)
    \cup SinceSnapshot("repair", l, end)
    \cup {Events("event", end, l, NewPoints(fast, "checkpoint", end))}

Counted(l, end) == Once(getMetricsAt(l, end))
CountedTwice(l, end) == Twice(getMetricsAt(l, end))
-----------------------------------------------------------------------------
(***************************************************************************)
(* Ingestion.  An event lands in one of two classes, with a timestamp at   *)
(* most MaxDelay old.  It is late if a run in progress, or a completed     *)
(* one, has already read past that timestamp.                              *)
(***************************************************************************)
Landed == {p.id : p \in fast \cup slow}

Missed(t, tick) ==
  \/ run[t].active /\ tick <= run[t].end
  \/ \E m \in master[t] : tick <= m

LandingTicks == {t \in 1..now : now - t <= MaxDelay}

IngestEvent(e, tick) ==
  /\ e \notin Landed
  /\ fast' = fast \cup {[id |-> e, tick |-> tick]}
  /\ late' = IF Missed("checkpoint", tick) THEN late \cup {e} ELSE late
  /\ UNCHANGED <<now, slow, records, master, run, halted, torn, aborts>>

IngestRepairEvent(e, tick) ==
  /\ e \notin Landed
  /\ slow' = slow \cup {[id |-> e, tick |-> tick]}
  /\ late' = IF Missed("repair", tick) THEN late \cup {e} ELSE late
  /\ UNCHANGED <<now, fast, records, master, run, halted, torn, aborts>>

(***************************************************************************)
(* A task calls its macro with the clock minus its lag as end.  The macro  *)
(* fetches what is new, writes one record per label, each with its own     *)
(* UPDATE, and the master record last.  It can die between any two writes. *)
(***************************************************************************)
\* The scheduler never overlaps two executions of one task, nor starts two
\* at the same instant.
Ready(t) == ~run[t].active /\ halted[t] = "no"

\* Slip: the schedule fires again at the instant of the execution.
BeginAgain(t, end, todo) ==
  /\ run' = [run EXCEPT ![t] = [active |-> TRUE, since |-> now, end |-> end,
                                wrote |-> {}, todo |-> todo]]
  /\ UNCHANGED <<now, fast, slow, late, records, master, halted, torn, aborts>>

Begin(t, end, todo) ==
  /\ run' = [run EXCEPT ![t] = [active |-> TRUE, since |-> now, end |-> end,
                                wrote |-> {}, todo |-> todo]]
  /\ halted' = [halted EXCEPT ![t] = "now"]
  /\ UNCHANGED <<now, fast, slow, late, records, master, torn, aborts>>

End(t) == run' = [run EXCEPT ![t] = Idle]

LabelsIn(P) == UNION {LabelsOf[p.id] : p \in P}

CreateCheckpoint ==
  LET end == now - CheckpointLag
      new == NewPoints(fast, "checkpoint", end)
  IN /\ Ready("checkpoint")
     /\ end > 0
     /\ Begin("checkpoint", end,
              {Events("checkpoint", end, l, new) : l \in LabelsIn(new)})

\* The macro takes the first series of the fetch: the events of one origin.
\* With no event it stops before it writes anything.
RepairRecords ==
  LET end == now - RepairLag
      new == NewPoints(slow, "repair", end)
  IN /\ Ready("repair")
     /\ end > 0
     /\ \E o \in {OriginOf[p.id] : p \in new} :
          LET taken == {p \in new : OriginOf[p.id] = o}
          IN Begin("repair", end,
                   {Events("repair", end, l, taken) : l \in LabelsIn(taken)})

Ticks(kind) == {r.tick : r \in {x \in records : x.kind = kind}}

\* Where a snapshot without predecessor starts counting its span: at the
\* oldest checkpoint or, failing that, at the oldest correction.
OldestTick ==
  LET T == IF Ticks("checkpoint") # {} THEN Ticks("checkpoint")
                                       ELSE Ticks("repair")
  IN {t \in T : \A u \in T : t <= u}

Lesser(a, b) == IF a <= b THEN a ELSE b

\* Slip: the span is taken off the last master snapshot.
SnapshotEndsBack(end) ==
  LET seen == {m \in master["snapshot"] : m <= end}
  IN IF seen = {} THEN {end}
     ELSE {Lesser(m - 1 - MaxSnapshot, end) :
             m \in {x \in seen : \A y \in seen : y <= x}}

\* The end of a snapshot run: the lagged clock, or less when the span since
\* the last master snapshot is longer than MaxSnapshot.  Empty when such a
\* run has nothing to fold.
SnapshotEnds(end) ==
  LET seen == {m \in master["snapshot"] : m <= end}
  IN IF seen = {}
     THEN IF end > MaxSnapshot
          THEN {Lesser(t + MaxSnapshot, end) : t \in OldestTick}
          ELSE {end}
     ELSE {Lesser(m + 1 + MaxSnapshot, end) :
             m \in {x \in seen : \A y \in seen : y <= x}}

\* Slip: snapshots leave the corrections out.
NewCheckpoints(l, end) ==
  {r \in Upto("checkpoint", l, end) :
     PastMaster("snapshot", r.tick, now - SnapshotLag)}

\* The checkpoints and corrections a snapshot run up to end folds.
NewRecords(l, end) ==
  {r \in Upto("checkpoint", l, end) \cup Upto("repair", l, end) :
     PastMaster("snapshot", r.tick, now - SnapshotLag)}

\* Slip: a snapshot does not start from the one before it.
CreateSnapshotAfresh ==
  /\ Ready("snapshot")
  /\ now - SnapshotLag > 0
  /\ \E end \in SnapshotEnds(now - SnapshotLag) :
       Begin("snapshot", end,
             {Sum("snapshot", end, l, NewRecords(l, end)) :
                l \in {k \in Label : NewRecords(k, end) # {}}})

CreateSnapshot ==
  /\ Ready("snapshot")
  /\ now - SnapshotLag > 0
  /\ \E end \in SnapshotEnds(now - SnapshotLag) :
       Begin("snapshot", end,
             {Sum("snapshot", end, l,
                  Latest(Upto("snapshot", l, end)) \cup NewRecords(l, end)) :
                l \in {k \in Label : NewRecords(k, end) # {}}})

\* UPDATE overwrites the value of the same series at the same tick.
SameCell(r, s) == r.kind = s.kind /\ r.label = s.label /\ r.tick = s.tick

WriteRecord(t, r) ==
  /\ run[t].active
  /\ records' = {s \in records : ~SameCell(r, s)} \cup {r}
  /\ run' = [run EXCEPT ![t].todo = @ \ {r}, ![t].wrote = @ \cup {r.label}]
  /\ UNCHANGED <<now, fast, slow, late, master, halted, torn, aborts>>

\* Slip: the master record is written before the records it vouches for.
WriteMasterEarly(t) ==
  /\ run[t].active
  /\ master' = [master EXCEPT ![t] = @ \cup {run[t].end}]
  /\ End(t)
  /\ UNCHANGED <<now, fast, slow, late, records, halted, torn, aborts>>

WriteMaster(t) ==
  /\ run[t].active
  /\ run[t].todo = {}
  /\ master' = [master EXCEPT ![t] = @ \cup {run[t].end}]
  /\ End(t)
  /\ UNCHANGED <<now, fast, slow, late, records, halted, torn, aborts>>

\* Slip: a run that fails is taken for one that succeeded.
AbortDone(t) ==
  /\ run[t].active
  /\ aborts < MaxAborts
  /\ now < MaxTime
  /\ End(t)
  /\ master' = [master EXCEPT ![t] = @ \cup {run[t].end}]
  /\ aborts' = aborts + 1
  /\ torn' = torn \cup run[t].wrote
  /\ UNCHANGED <<now, fast, slow, late, records, halted>>

\* Slip: no failure restores the schedule.
AbortForGood(t) ==
  /\ run[t].active
  /\ aborts < MaxAborts
  /\ now < MaxTime
  /\ End(t)
  /\ halted' = [halted EXCEPT ![t] = "forever"]
  /\ torn' = torn \cup run[t].wrote
  /\ aborts' = aborts + 1
  /\ UNCHANGED <<now, fast, slow, late, records, master>>

\* Warp 10 dies, or the execution fails on one of its limits.  The handler of
\* the failure counts it in a metric: where the tasks have none it throws,
\* and the schedule that was cancelled for the execution is not restored.
\* Bound: no run dies at the last instant of the clock.
Abort(t) ==
  /\ run[t].active
  /\ aborts < MaxAborts
  /\ now < MaxTime
  /\ End(t)
  /\ halted' = IF MetricsEnabled THEN halted
                                 ELSE [halted EXCEPT ![t] = "forever"]
  /\ torn' = torn \cup run[t].wrote
  /\ aborts' = aborts + 1
  /\ UNCHANGED <<now, fast, slow, late, records, master>>

ClockTick ==
  /\ now < MaxTime
  /\ \A t \in Task : run[t].active => now - run[t].since < MaxRun
  /\ now' = now + 1
  /\ halted' = [t \in Task |-> IF halted[t] = "now" THEN "no" ELSE halted[t]]
  /\ UNCHANGED <<fast, slow, late, records, master, run, torn, aborts>>

Ingest ==
  \E e \in Event, tick \in LandingTicks :
    IngestEvent(e, tick) \/ IngestRepairEvent(e, tick)

Execute(t) ==
  (\E r \in run[t].todo : WriteRecord(t, r)) \/ WriteMaster(t)

Next ==
  \/ Ingest
  \/ CreateCheckpoint
  \/ RepairRecords
  \/ CreateSnapshot
  \/ \E t \in Task : Execute(t) \/ Abort(t)
  \/ ClockTick

Spec == Init /\ [][Next]_vars
-----------------------------------------------------------------------------
(***************************************************************************)
(* Properties.  They speak of every instant a query may ask for.           *)
(***************************************************************************)
Instants == 0..MaxTime

\* Whatever the tasks are doing, and wherever they died before, a query
\* counts every utapi.event that landed in time: folding events into
\* checkpoints and snapshots never hides one (getMetricsAt.mc2).
NothingLost ==
  \A end \in Instants, p \in fast :
    p.tick <= end /\ p.id \notin late =>
      \A l \in LabelsOf[p.id] : p.id \in Counted(l, end)

\* Once a repair run has advanced its master record past a slow event, the
\* event is in the answer of every later instant (repairRecords.mc2).
RepairsCounted ==
  \A end \in Instants, p \in slow, m \in master["repair"] :
    p.tick <= m /\ m <= end /\ p.id \notin late =>
      \A l \in LabelsOf[p.id] : p.id \in Counted(l, end)

\* An event counts one time in every answer about a label for which no run
\* died half way.  The one exception is a checkpoint run that has written
\* the checkpoint of the label and has yet to write the master record: until
\* then a query adds that checkpoint and the events it folds.
NothingCountedTwice ==
  \A l \in Label \ torn, end \in Instants :
    CountedTwice(l, end) # {} =>
      /\ run["checkpoint"].active
      /\ l \in run["checkpoint"].wrote
      /\ run["checkpoint"].end <= end

\* A snapshot stands for exactly the checkpoints and corrections up to its
\* tick: the answer at any instant, past ones included, is the answer of a
\* store where no snapshot was ever written.
WithoutSnapshots(l, end) ==
  Upto("checkpoint", l, end) \cup Upto("repair", l, end)
    \cup {Events("event", end, l, NewPoints(fast, "checkpoint", end))}

SnapshotsInvisible ==
  \A l \in Label, end \in Instants :
    Counted(l, end) = Once(WithoutSnapshots(l, end))

(***************************************************************************)
(* What the store promises to a query about the present: answers change    *)
(* because an event lands or a correction is written, for no other reason. *)
(***************************************************************************)
Answer == [l \in Label |-> Counted(l, now) \ late]

Ledger == INSTANCE MetricLedger
            WITH answer <- Answer, pending <- {p.id : p \in slow}

\* The detailed store implements the ledger: every step of a checkpoint, a
\* snapshot or a clock tick leaves all the answers about the present alone.
ImplementsLedger == Ledger!Spec

(***************************************************************************)
(* Liveness.  The scheduler runs every task again and again, a macro that  *)
(* started goes on, and time passes.                                       *)
(***************************************************************************)
FairSpec ==
  /\ Spec
  /\ WF_vars(ClockTick)
  /\ WF_vars(RepairRecords)
  /\ WF_vars(CreateCheckpoint)
  /\ WF_vars(CreateSnapshot)
  /\ \A t \in Task : WF_vars(Execute(t))

\* A slow event that landed in time ends up in the answers for good, through
\* a correction first and a snapshot later: runs that die delay it only.
RepairsSettle ==
  \A e \in Event :
    (\E p \in slow : /\ p.id = e
                     /\ e \notin late
                     /\ now + RepairLag < MaxTime)
      ~> [](\A l \in LabelsOf[e] : e \in Counted(l, now))
=============================================================================
