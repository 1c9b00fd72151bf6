------------------------- MODULE MetricStore_proofs -------------------------
(***************************************************************************)
(* Proofs about MetricStore, for every set of events and labels, every lag *)
(* that leaves a run time to complete, and every bound.                    *)
(***************************************************************************)
EXTENDS MetricStoreInv, TLAPS

USE LabelsAssumption, OriginAssumption, LagAssumption, RunAssumption

LEMMA TaskCases ==
  ASSUME NEW t \in Task
  PROVE  t = "checkpoint" \/ t = "repair" \/ t = "snapshot"
BY DEF Task

LEMMA EventsType ==
  ASSUME NEW kind \in Task \cup {"event"}, NEW tick \in Nat, NEW l \in Label,
         NEW P \in SUBSET Point
  PROVE  Events(kind, tick, l, P) \in Record
BY DEF Events, Record, Point

LEMMA SumType ==
  ASSUME NEW kind \in Task, NEW tick \in Nat, NEW l \in Label,
         NEW R \in SUBSET Record
  PROVE  Sum(kind, tick, l, R) \in Record
<1>1. Once(R) \in SUBSET Event
  BY DEF Once, Record
<1>2. Twice(R) \in SUBSET Event
  BY DEF Twice, Record
<1> QED BY <1>1, <1>2 DEF Sum, Record

LEMMA EventsFields ==
  ASSUME NEW kind, NEW tick, NEW l, NEW P
  PROVE  /\ Events(kind, tick, l, P).kind = kind
         /\ Events(kind, tick, l, P).tick = tick
         /\ Events(kind, tick, l, P).label = l
         /\ Events(kind, tick, l, P).twice = {}
BY DEF Events

LEMMA SumFields ==
  ASSUME NEW kind, NEW tick, NEW l, NEW R
  PROVE  /\ Sum(kind, tick, l, R).kind = kind
         /\ Sum(kind, tick, l, R).tick = tick
         /\ Sum(kind, tick, l, R).label = l
         /\ Sum(kind, tick, l, R).once = Once(R)
         /\ Sum(kind, tick, l, R).twice = Twice(R)
BY DEF Sum

\* One record per label, all at one tick.
LEMMA EventsPlan ==
  ASSUME NEW kind, NEW tick, NEW L, NEW P
  PROVE  /\ \A r \in {Events(kind, tick, l, P) : l \in L} :
              r.kind = kind /\ r.tick = tick
         /\ \A r, s \in {Events(kind, tick, l, P) : l \in L} :
              r.label = s.label => r = s
<1>1. \A r \in {Events(kind, tick, l, P) : l \in L} :
        r.kind = kind /\ r.tick = tick /\ r = Events(kind, tick, r.label, P)
  BY EventsFields
<1> QED BY <1>1

LEMMA SumPlan ==
  ASSUME NEW end, NEW L
  PROVE  LET todo == {Sum("snapshot", end, l,
                          Latest(Upto("snapshot", l, end)) \cup NewRecords(l, end)) :
                        l \in L}
         IN /\ \A r \in todo : r.kind = "snapshot" /\ r.tick = end
            /\ \A r, s \in todo : r.label = s.label => r = s
<1> DEFINE R(l) == Latest(Upto("snapshot", l, end)) \cup NewRecords(l, end)
<1> HIDE DEF R
<1>1. \A r \in {Sum("snapshot", end, l, R(l)) : l \in L} :
        /\ r.kind = "snapshot"
        /\ r.tick = end
        /\ r = Sum("snapshot", end, r.label, R(r.label))
  BY SumFields
<1>2. \A r, s \in {Sum("snapshot", end, l, R(l)) : l \in L} :
        r.label = s.label => r = s
  BY <1>1
<1> QED BY <1>1, <1>2 DEF R

LEMMA NewPointsType ==
  ASSUME NEW P \in SUBSET Point, NEW t, NEW end
  PROVE  NewPoints(P, t, end) \in SUBSET P
BY DEF NewPoints

LEMMA LabelsInType ==
  ASSUME NEW P \in SUBSET Point
  PROVE  LabelsIn(P) \in SUBSET Label
BY DEF LabelsIn, Point

LEMMA SnapshotEndsType ==
  ASSUME TypeOK, NEW end \in Nat, NEW k \in SnapshotEnds(end)
  PROVE  k \in Nat /\ k <= end
<1>1. CASE {m \in master["snapshot"] : m <= end} = {}
  <2>1. OldestTick \subseteq Nat
    BY DEF OldestTick, Ticks, TypeOK, Record
  <2> QED BY <1>1, <2>1 DEF SnapshotEnds, Lesser
<1>2. CASE {m \in master["snapshot"] : m <= end} # {}
  <2>1. PICK m \in master["snapshot"] : k = Lesser(m + 1 + MaxSnapshot, end)
    BY <1>2 DEF SnapshotEnds
  <2>2. m \in Nat
    BY <2>1 DEF TypeOK, Task
  <2> QED BY <2>1, <2>2 DEF Lesser
<1> QED BY <1>1, <1>2

LEMMA IdleType == Idle \in Run
BY DEF Idle, Run

LEMMA BeginType ==
  ASSUME TypeOK, NEW t \in Task, NEW end \in Nat, NEW todo \in SUBSET Record,
         Begin(t, end, todo)
  PROVE  TypeOK'
<1>1. [active |-> TRUE, since |-> now, end |-> end, wrote |-> {}, todo |-> todo]
        \in Run
  BY DEF Run, TypeOK
<1>2. run' \in [Task -> Run]
  BY <1>1 DEF Begin, TypeOK
<1>3. halted' \in [Task -> {"no", "now", "forever"}]
  BY DEF Begin, TypeOK
<1> QED BY <1>2, <1>3 DEF Begin, TypeOK

\* What a run plans to write.
LEMMA CheckpointPlan ==
  ASSUME TypeOK, now - CheckpointLag > 0
  PROVE  LET end == now - CheckpointLag
             new == NewPoints(fast, "checkpoint", end)
         IN /\ end \in Nat
            /\ {Events("checkpoint", end, l, new) : l \in LabelsIn(new)}
                 \in SUBSET Record
<1> DEFINE end == now - CheckpointLag
           new == NewPoints(fast, "checkpoint", end)
<1>1. end \in Nat
  BY DEF TypeOK
<1>2. new \in SUBSET Point
  BY NewPointsType DEF TypeOK
<1> HIDE DEF end, new
<1>3. ASSUME NEW l \in LabelsIn(new)
      PROVE  Events("checkpoint", end, l, new) \in Record
  BY <1>1, <1>2, EventsType, LabelsInType DEF Task
<1> QED BY <1>1, <1>2, <1>3 DEF end, new

LEMMA RepairPlan ==
  ASSUME TypeOK, now - RepairLag > 0, NEW o
  PROVE  LET end == now - RepairLag
             new == NewPoints(slow, "repair", end)
             taken == {p \in new : OriginOf[p.id] = o}
         IN /\ end \in Nat
            /\ {Events("repair", end, l, taken) : l \in LabelsIn(taken)}
                 \in SUBSET Record
<1> DEFINE end == now - RepairLag
           new == NewPoints(slow, "repair", end)
           taken == {p \in new : OriginOf[p.id] = o}
<1>1. end \in Nat
  BY DEF TypeOK
<1>2. taken \in SUBSET Point
  BY NewPointsType DEF TypeOK
<1> HIDE DEF end, taken
<1>3. ASSUME NEW l \in LabelsIn(taken)
      PROVE  Events("repair", end, l, taken) \in Record
  BY <1>1, <1>2, EventsType, LabelsInType DEF Task
<1> QED BY <1>1, <1>2, <1>3 DEF end, taken

LEMMA SnapshotPlan ==
  ASSUME TypeOK, NEW end \in Nat
  PROVE  {Sum("snapshot", end, l,
              Latest(Upto("snapshot", l, end)) \cup NewRecords(l, end)) :
            l \in {k \in Label : NewRecords(k, end) # {}}} \in SUBSET Record
<1>1. ASSUME NEW l \in Label
      PROVE  Latest(Upto("snapshot", l, end)) \cup NewRecords(l, end)
               \in SUBSET Record
  BY DEF Latest, Upto, NewRecords, TypeOK
<1>2. ASSUME NEW l \in Label
      PROVE  Sum("snapshot", end, l,
                 Latest(Upto("snapshot", l, end)) \cup NewRecords(l, end)) \in Record
  BY <1>1, SumType DEF Task
<1> QED BY <1>2

\* The variables keep their types.
THEOREM TypeCorrect == Spec => []TypeOK
<1>1. Init => TypeOK
  BY IdleType DEF Init, TypeOK
<1>2. TypeOK /\ [Next]_vars => TypeOK'
  <2> SUFFICES ASSUME TypeOK, [Next]_vars
               PROVE  TypeOK'
    OBVIOUS
  <2>1. ASSUME NEW e \in Event, NEW tick \in LandingTicks,
               IngestEvent(e, tick) \/ IngestRepairEvent(e, tick)
        PROVE  TypeOK'
    <3>1. tick \in Nat
      BY DEF LandingTicks, TypeOK
    <3>2. [id |-> e, tick |-> tick] \in Point
      BY <3>1 DEF Point
    <3>3. CASE IngestEvent(e, tick)
      BY <3>2, <3>3 DEF IngestEvent, TypeOK
    <3>4. CASE IngestRepairEvent(e, tick)
      BY <3>2, <3>4 DEF IngestRepairEvent, TypeOK
    <3> QED BY <2>1, <3>3, <3>4
  <2>2. CASE CreateCheckpoint
    BY <2>2, CheckpointPlan, BeginType DEF CreateCheckpoint, Task
  <2>3. CASE RepairRecords
    <3> DEFINE end == now - RepairLag
               new == NewPoints(slow, "repair", end)
               taken(o) == {p \in new : OriginOf[p.id] = o}
    <3>1. PICK o : Begin("repair", end, {Events("repair", end, l, taken(o)) :
                                          l \in LabelsIn(taken(o))})
      BY <2>3 DEF RepairRecords
    <3>2. end > 0
      BY <2>3 DEF RepairRecords
    <3>3. /\ end \in Nat
          /\ {Events("repair", end, l, taken(o)) : l \in LabelsIn(taken(o))}
               \in SUBSET Record
      BY <3>2, RepairPlan
    <3> HIDE DEF end, new, taken
    <3> QED BY <3>1, <3>3, BeginType DEF Task
  <2>4. CASE CreateSnapshot
    <3>1. PICK end \in SnapshotEnds(now - SnapshotLag) :
            Begin("snapshot", end,
                  {Sum("snapshot", end, l,
                       Latest(Upto("snapshot", l, end)) \cup NewRecords(l, end)) :
                     l \in {k \in Label : NewRecords(k, end) # {}}})
      BY <2>4 DEF CreateSnapshot
    <3>2. now - SnapshotLag \in Nat
      BY <2>4 DEF CreateSnapshot, TypeOK
    <3>3. end \in Nat
      BY <3>2, SnapshotEndsType
    <3> QED BY <3>1, <3>3, SnapshotPlan, BeginType DEF Task
  <2>5. ASSUME NEW t \in Task, NEW r \in run[t].todo, WriteRecord(t, r)
        PROVE  TypeOK'
    <3>1. run[t] \in Run
      BY DEF TypeOK
    <3>2. r \in Record /\ r.label \in Label
      BY <3>1 DEF Run, Record
    <3>3. [run[t] EXCEPT !.todo = @ \ {r}, !.wrote = @ \cup {r.label}] \in Run
      BY <3>1, <3>2 DEF Run
    <3>4. run' = [run EXCEPT ![t] =
                    [run[t] EXCEPT !.todo = @ \ {r}, !.wrote = @ \cup {r.label}]]
      BY <2>5, <3>1 DEF WriteRecord, TypeOK, Run
    <3>5. run' \in [Task -> Run]
      BY <3>3, <3>4 DEF TypeOK
    <3> QED BY <2>5, <3>2, <3>5 DEF WriteRecord, TypeOK
  <2>6. ASSUME NEW t \in Task, WriteMaster(t)
        PROVE  TypeOK'
    <3>1. run[t].end \in Nat
      BY DEF TypeOK, Run
    <3> QED BY <2>6, <3>1, IdleType DEF WriteMaster, End, TypeOK
  <2>7. ASSUME NEW t \in Task, Abort(t)
        PROVE  TypeOK'
    <3>1. run[t].wrote \in SUBSET Label
      BY DEF TypeOK, Run
    <3>2. halted' \in [Task -> {"no", "now", "forever"}]
      BY <2>7 DEF Abort, TypeOK
    <3>3. aborts' \in 0..MaxAborts
      BY <2>7 DEF Abort, TypeOK
    <3>4. run' \in [Task -> Run]
      BY <2>7, IdleType DEF Abort, End, TypeOK
    <3> QED BY <2>7, <3>1, <3>2, <3>3, <3>4 DEF Abort, TypeOK
  <2>8. CASE ClockTick
    BY <2>8 DEF ClockTick, TypeOK
  <2>9. CASE UNCHANGED vars
    BY <2>9 DEF vars, TypeOK
  <2> QED
    BY <2>1, <2>2, <2>3, <2>4, <2>5, <2>6, <2>7, <2>8, <2>9
    DEF Next, Ingest, Execute
<1> QED BY <1>1, <1>2, PTL DEF Spec
-----------------------------------------------------------------------------
(***************************************************************************)
(* Time: a run writes at an instant past all its task wrote before.        *)
(***************************************************************************)
LEMMA LagValues ==
  /\ Lag("checkpoint") = CheckpointLag
  /\ Lag("repair") = RepairLag
  /\ Lag("snapshot") = SnapshotLag
  /\ \A t \in Task : Lag(t) \in Nat
BY DEF Lag, Task

LEMMA TimeIngest ==
  ASSUME TimeInv, TypeOK', NEW e \in Event, NEW tick \in LandingTicks,
         IngestEvent(e, tick) \/ IngestRepairEvent(e, tick)
  PROVE  TimeInv'
<1>1. OnePointPerEvent'
  <2>1. tick <= now
    BY DEF LandingTicks, TimeInv, TypeOK
  <2>2. CASE IngestEvent(e, tick)
    BY <2>1, <2>2 DEF IngestEvent, Landed, TimeInv, OnePointPerEvent
  <2>3. CASE IngestRepairEvent(e, tick)
    BY <2>1, <2>3 DEF IngestRepairEvent, Landed, TimeInv, OnePointPerEvent
  <2> QED BY <2>2, <2>3
<1>2. UNCHANGED <<now, records, master, run, halted>>
  BY DEF IngestEvent, IngestRepairEvent
<1> QED
  BY <1>1, <1>2
  DEF TimeInv, RunShape, RunClock, RecordClock, Advance, OneValuePerCell, Of, SameCell

LEMMA TimeBegin ==
  ASSUME TimeInv, TypeOK', NEW t \in Task, NEW end \in Nat,
         NEW todo \in SUBSET Record,
         Ready(t), Begin(t, end, todo),
         end + Lag(t) <= now,
         t \in Folders => end + Lag(t) = now,
         \A r \in todo : r.kind = t /\ r.tick = end,
         \A r, s \in todo : r.label = s.label => r = s
  PROVE  TimeInv'
<1> USE DEF TimeInv
<1>1. /\ run'[t] = [active |-> TRUE, since |-> now, end |-> end,
                    wrote |-> {}, todo |-> todo]
      /\ halted'[t] = "now"
      /\ \A u \in Task : u # t => run'[u] = run[u] /\ halted'[u] = halted[u]
      /\ UNCHANGED <<now, fast, slow, records, master>>
  BY DEF Begin, TypeOK
<1>2. RunShape'
  BY <1>1 DEF RunShape
<1>3. RunClock'
  BY <1>1, LagValues DEF RunClock, TypeOK
<1>4. RecordClock' /\ OneValuePerCell' /\ OnePointPerEvent'
  BY <1>1 DEF RecordClock, OneValuePerCell, OnePointPerEvent, SameCell
<1>5. Advance'
  <2> SUFFICES ASSUME NEW u \in Folders
               PROVE  /\ ~run'[u].active /\ halted'[u] = "no" =>
                           /\ \A r \in Of(u) : r.tick + Lag(u) < now
                           /\ \A m \in master[u] : m + Lag(u) < now
                      /\ run'[u].active =>
                           /\ \A r \in Of(u) :
                                /\ r.tick <= run'[u].end
                                /\ r.tick = run'[u].end => r.label \in run'[u].wrote
                           /\ \A m \in master[u] : m < run'[u].end
    BY <1>1 DEF Advance, Of
  <2>1. u \in Task
    BY DEF Folders, Task
  <2>2. CASE u # t
    BY <1>1, <2>1, <2>2 DEF Advance
  <2>3. CASE u = t
    <3>1. /\ \A r \in Of(t) : r.tick + Lag(t) < end + Lag(t)
          /\ \A m \in master[t] : m + Lag(t) < end + Lag(t)
      BY <2>3 DEF Advance, Ready
    <3>2. /\ \A r \in Of(t) : r.tick \in Nat
          /\ \A m \in master[t] : m \in Nat
          /\ Lag(t) \in Nat
      BY LagValues DEF Of, TypeOK, Record
    <3> QED BY <1>1, <2>3, <3>1, <3>2
  <2> QED BY <2>2, <2>3
<1> QED BY <1>2, <1>3, <1>4, <1>5

LEMMA TimeWrite ==
  ASSUME TimeInv, TypeOK', NEW t \in Task, NEW r \in run[t].todo,
         WriteRecord(t, r)
  PROVE  TimeInv'
<1> USE DEF TimeInv
<1>1. /\ run'[t].active /\ run[t].active
      /\ run'[t].since = run[t].since
      /\ run'[t].end = run[t].end
      /\ run'[t].wrote = run[t].wrote \cup {r.label}
      /\ run'[t].todo = run[t].todo \ {r}
      /\ \A u \in Task : u # t => run'[u] = run[u]
      /\ records' = {s \in records : ~SameCell(r, s)} \cup {r}
      /\ UNCHANGED <<now, fast, slow, master, halted>>
  BY DEF WriteRecord, TypeOK, Run
<1>2. r.kind = t /\ r.tick = run[t].end
  BY DEF RunShape
<1>3. RunShape'
  BY <1>1 DEF RunShape
<1>4. RunClock'
  BY <1>1 DEF RunClock
<1>5. RecordClock'
  <2>1. r.tick + Lag(r.kind) <= now
    <3>1. run[t].end + Lag(t) <= run[t].since /\ run[t].since <= now
      BY <1>1 DEF RunClock
    <3>2. run[t].end \in Nat /\ run[t].since \in Nat /\ Lag(t) \in Nat /\ now \in Nat
      BY LagValues DEF TypeOK, Run
    <3> QED BY <1>2, <3>1, <3>2
  <2> QED BY <1>1, <1>2, <2>1 DEF RecordClock
<1>6. Advance'
  <2> SUFFICES ASSUME NEW u \in Folders
               PROVE  /\ ~run'[u].active /\ halted'[u] = "no" =>
                           /\ \A s \in Of(u)' : s.tick + Lag(u) < now'
                           /\ \A m \in master'[u] : m + Lag(u) < now'
                      /\ run'[u].active =>
                           /\ \A s \in Of(u)' :
                                /\ s.tick <= run'[u].end
                                /\ s.tick = run'[u].end => s.label \in run'[u].wrote
                           /\ \A m \in master'[u] : m < run'[u].end
    BY DEF Advance
  <2>1. u \in Task
    BY DEF Folders, Task
  <2>2. CASE u # t
    BY <1>1, <1>2, <2>1, <2>2 DEF Advance, Of
  <2>3. CASE u = t
    <3>1. \A s \in Of(t)' : s \in Of(t) \/ s = r
      BY <1>1 DEF Of
    <3>2. run[t].end \in Nat
      BY DEF TypeOK, Run
    <3> QED BY <1>1, <1>2, <2>3, <3>1, <3>2 DEF Advance
  <2> QED BY <2>2, <2>3
<1>7. OneValuePerCell'
  BY <1>1 DEF OneValuePerCell, SameCell
<1>8. OnePointPerEvent'
  BY <1>1 DEF OnePointPerEvent
<1> QED BY <1>3, <1>4, <1>5, <1>6, <1>7, <1>8

\* A run ends with its master record, or without.
LEMMA TimeEnd ==
  ASSUME TimeInv, TypeOK', NEW t \in Task, run[t].active, End(t),
         UNCHANGED <<now, fast, slow, records>>,
         \A u \in Task : \A m \in master'[u] :
           m \in master[u] \/ (u = t /\ m = run[t].end),
         \A u \in Task : halted'[u] = "no" => halted[u] = "no"
  PROVE  TimeInv'
<1> USE DEF TimeInv
<1>1. /\ run'[t] = Idle
      /\ \A u \in Task : u # t => run'[u] = run[u]
  BY DEF End, TypeOK
<1>2. run'[t].todo = {} /\ ~run'[t].active
  BY <1>1 DEF Idle
<1>3. RunShape'
  BY <1>1, <1>2 DEF RunShape
<1>4. RunClock'
  BY <1>1, <1>2 DEF RunClock
<1>5. /\ run[t].end \in Nat /\ run[t].since \in Nat /\ Lag(t) \in Nat /\ now \in Nat
      /\ \A s \in records : s.tick \in Nat
      /\ \A m \in master[t] : m \in Nat
  BY LagValues DEF TypeOK, Run, Record
<1>6. /\ run[t].end + Lag(t) <= run[t].since
      /\ run[t].since <= now
      /\ t \in Folders => run[t].end + Lag(t) = run[t].since
      /\ halted[t] = "no" => run[t].since < now
  BY DEF RunClock
<1>7. run[t].end + Lag(t) <= now
  BY <1>5, <1>6
<1>8. RecordClock'
  BY <1>7 DEF RecordClock
<1>9. Advance'
  <2> SUFFICES ASSUME NEW u \in Folders
               PROVE  /\ ~run'[u].active /\ halted'[u] = "no" =>
                           /\ \A s \in Of(u)' : s.tick + Lag(u) < now'
                           /\ \A m \in master'[u] : m + Lag(u) < now'
                      /\ run'[u].active =>
                           /\ \A s \in Of(u)' :
                                /\ s.tick <= run'[u].end
                                /\ s.tick = run'[u].end => s.label \in run'[u].wrote
                           /\ \A m \in master'[u] : m < run'[u].end
    BY DEF Advance
  <2>1. u \in Task /\ Of(u)' = Of(u)
    BY DEF Folders, Task, Of
  <2>2. CASE u # t
    BY <1>1, <2>1, <2>2 DEF Advance
  <2>3. CASE u = t
    <3>1. ASSUME halted'[u] = "no"
          PROVE  run[t].end + Lag(t) < now
      BY <1>5, <1>6, <2>1, <2>3, <3>1
    <3>2. \A s \in Of(t) : s.tick <= run[t].end /\ s.tick \in Nat
      BY <1>5, <2>3 DEF Advance, Of
    <3>3. \A m \in master[t] : m < run[t].end /\ m \in Nat
      BY <1>5, <2>3 DEF Advance
    <3>4. \A m \in master'[t] : m <= run[t].end /\ m \in Nat
      BY <1>5, <3>3
    <3> QED BY <1>2, <1>5, <2>1, <2>3, <3>1, <3>2, <3>4
  <2> QED BY <2>2, <2>3
<1>10. OneValuePerCell' /\ OnePointPerEvent'
  BY DEF OneValuePerCell, OnePointPerEvent, SameCell
<1> QED BY <1>3, <1>4, <1>8, <1>9, <1>10

LEMMA TimeTick ==
  ASSUME TimeInv, TypeOK', ClockTick
  PROVE  TimeInv'
<1> USE DEF TimeInv
<1>1. /\ now' = now + 1
      /\ \A t \in Task : run[t].active => now - run[t].since < MaxRun
      /\ UNCHANGED <<fast, slow, records, master, run>>
  BY DEF ClockTick
<1>2. /\ now \in Nat
      /\ \A t \in Task : run[t].since \in Nat /\ Lag(t) \in Nat
      /\ \A r \in records : r.tick \in Nat
      /\ \A t \in Task : \A m \in master[t] : m \in Nat
      /\ \A p \in fast \cup slow : p.tick \in Nat
  BY LagValues DEF TypeOK, Run, Record, Point
<1>3. RunShape'
  BY <1>1 DEF RunShape
<1>4. RunClock'
  BY <1>1, <1>2 DEF RunClock
<1>5. RecordClock'
  BY <1>1, <1>2 DEF RecordClock
<1>6. Advance'
  <2> SUFFICES ASSUME NEW t \in Folders
               PROVE  /\ ~run[t].active /\ halted'[t] = "no" =>
                           /\ \A r \in Of(t) : r.tick + Lag(t) < now'
                           /\ \A m \in master[t] : m + Lag(t) < now'
                      /\ run[t].active =>
                           /\ \A r \in Of(t) :
                                /\ r.tick <= run[t].end
                                /\ r.tick = run[t].end => r.label \in run[t].wrote
                           /\ \A m \in master[t] : m < run[t].end
    BY <1>1 DEF Advance, Of
  <2>1. t \in Task
    BY DEF Folders, Task
  <2>2. \A r \in Of(t) : r.tick + Lag(t) < now'
    BY <1>1, <1>2, <2>1 DEF RecordClock, Of
  <2>3. \A m \in master[t] : m + Lag(t) < now'
    BY <1>1, <1>2, <2>1 DEF RecordClock
  <2> QED BY <2>2, <2>3 DEF Advance
<1>7. OneValuePerCell' /\ OnePointPerEvent'
  BY <1>1, <1>2 DEF OneValuePerCell, OnePointPerEvent, SameCell
<1> QED BY <1>3, <1>4, <1>5, <1>6, <1>7

\* What the three tasks begin.
LEMMA CheckpointBegins ==
  ASSUME TypeOK, CreateCheckpoint
  PROVE  /\ Ready("checkpoint")
         /\ now - CheckpointLag \in Nat
         /\ \E todo \in SUBSET Record :
              /\ Begin("checkpoint", now - CheckpointLag, todo)
              /\ todo = {Events("checkpoint", now - CheckpointLag, l,
                                NewPoints(fast, "checkpoint", now - CheckpointLag)) :
                           l \in LabelsIn(NewPoints(fast, "checkpoint",
                                                    now - CheckpointLag))}
<1>1. now - CheckpointLag > 0 /\ Ready("checkpoint")
  BY DEF CreateCheckpoint
<1> QED BY <1>1, CheckpointPlan DEF CreateCheckpoint

LEMMA RepairBegins ==
  ASSUME TypeOK, RepairRecords
  PROVE  /\ Ready("repair")
         /\ now - RepairLag \in Nat
         /\ \E o \in Origin, taken \in SUBSET NewPoints(slow, "repair", now - RepairLag),
              todo \in SUBSET Record :
              /\ Begin("repair", now - RepairLag, todo)
              /\ taken = {p \in NewPoints(slow, "repair", now - RepairLag) :
                            OriginOf[p.id] = o}
              /\ todo = {Events("repair", now - RepairLag, l, taken) :
                           l \in LabelsIn(taken)}
<1> DEFINE end == now - RepairLag
           new == NewPoints(slow, "repair", end)
<1>1. end > 0 /\ Ready("repair")
  BY DEF RepairRecords
<1>2. PICK o \in {OriginOf[p.id] : p \in new} :
        LET taken == {p \in new : OriginOf[p.id] = o}
        IN Begin("repair", end, {Events("repair", end, l, taken) : l \in LabelsIn(taken)})
  BY DEF RepairRecords
<1>3. o \in Origin
  BY NewPointsType DEF TypeOK, Point
<1> DEFINE taken == {p \in new : OriginOf[p.id] = o}
           todo == {Events("repair", end, l, taken) : l \in LabelsIn(taken)}
<1>4. end \in Nat /\ todo \in SUBSET Record
  BY <1>1, RepairPlan
<1>5. taken \in SUBSET new /\ Begin("repair", end, todo)
  BY <1>2
<1> QED BY <1>1, <1>3, <1>4, <1>5

LEMMA SnapshotBegins ==
  ASSUME TypeOK, CreateSnapshot
  PROVE  /\ Ready("snapshot")
         /\ now - SnapshotLag \in Nat
         /\ \E end \in SnapshotEnds(now - SnapshotLag), todo \in SUBSET Record :
              /\ end \in Nat
              /\ end <= now - SnapshotLag
              /\ Begin("snapshot", end, todo)
              /\ todo = {Sum("snapshot", end, l,
                             Latest(Upto("snapshot", l, end)) \cup NewRecords(l, end)) :
                           l \in {k \in Label : NewRecords(k, end) # {}}}
<1>1. now - SnapshotLag \in Nat /\ Ready("snapshot")
  BY DEF CreateSnapshot, TypeOK
<1>2. PICK end \in SnapshotEnds(now - SnapshotLag) :
        Begin("snapshot", end,
              {Sum("snapshot", end, l,
                   Latest(Upto("snapshot", l, end)) \cup NewRecords(l, end)) :
                 l \in {k \in Label : NewRecords(k, end) # {}}})
  BY DEF CreateSnapshot
<1>3. end \in Nat /\ end <= now - SnapshotLag
  BY <1>1, SnapshotEndsType
<1>4. {Sum("snapshot", end, l,
           Latest(Upto("snapshot", l, end)) \cup NewRecords(l, end)) :
         l \in {k \in Label : NewRecords(k, end) # {}}} \in SUBSET Record
  BY <1>3, SnapshotPlan
<1> QED BY <1>1, <1>2, <1>3, <1>4

LEMMA TimeNext == TypeOK' /\ TimeInv /\ [Next]_vars => TimeInv'
<1> SUFFICES ASSUME TypeOK', TimeInv, [Next]_vars
             PROVE  TimeInv'
  OBVIOUS
<1>0. TypeOK
  BY DEF TimeInv
<1>1. CASE Ingest
  BY <1>1, TimeIngest DEF Ingest
<1>2. CASE CreateCheckpoint
  <2>1. Ready("checkpoint") /\ now - CheckpointLag \in Nat
    BY <1>0, <1>2, CheckpointBegins
  <2>2. PICK todo \in SUBSET Record :
          /\ Begin("checkpoint", now - CheckpointLag, todo)
          /\ todo = {Events("checkpoint", now - CheckpointLag, l,
                            NewPoints(fast, "checkpoint", now - CheckpointLag)) :
                       l \in LabelsIn(NewPoints(fast, "checkpoint", now - CheckpointLag))}
    BY <1>0, <1>2, CheckpointBegins
  <2>3. /\ \A r \in todo : r.kind = "checkpoint" /\ r.tick = now - CheckpointLag
        /\ \A r, s \in todo : r.label = s.label => r = s
    BY <2>2, EventsPlan
  <2>4. now - CheckpointLag + Lag("checkpoint") = now
    BY <1>0, LagValues DEF TypeOK
  <2> QED BY <1>0, <2>1, <2>2, <2>3, <2>4, TimeBegin DEF Task, TypeOK
<1>3. CASE RepairRecords
  <2>1. Ready("repair") /\ now - RepairLag \in Nat
    BY <1>0, <1>3, RepairBegins
  <2>2. PICK o \in Origin, taken \in SUBSET NewPoints(slow, "repair", now - RepairLag),
             todo \in SUBSET Record :
          /\ Begin("repair", now - RepairLag, todo)
          /\ taken = {p \in NewPoints(slow, "repair", now - RepairLag) :
                        OriginOf[p.id] = o}
          /\ todo = {Events("repair", now - RepairLag, l, taken) : l \in LabelsIn(taken)}
    BY <1>0, <1>3, RepairBegins
  <2>3. /\ \A r \in todo : r.kind = "repair" /\ r.tick = now - RepairLag
        /\ \A r, s \in todo : r.label = s.label => r = s
    <3>1. todo = {Events("repair", now - RepairLag, l, taken) : l \in LabelsIn(taken)}
      BY <2>2
    <3> QED BY <3>1, EventsPlan
  <2>4. now - RepairLag + Lag("repair") = now
    BY <1>0, LagValues DEF TypeOK
  <2>5. Begin("repair", now - RepairLag, todo)
    BY <2>2
  <2>6. now - RepairLag + Lag("repair") <= now
    BY <1>0, <2>4 DEF TypeOK
  <2> QED BY <2>1, <2>3, <2>4, <2>5, <2>6, TimeBegin DEF Task
<1>4. CASE CreateSnapshot
  <2>1. Ready("snapshot") /\ now - SnapshotLag \in Nat
    BY <1>0, <1>4, SnapshotBegins
  <2>2. PICK end \in Nat, todo \in SUBSET Record :
          /\ end <= now - SnapshotLag
          /\ Begin("snapshot", end, todo)
          /\ todo = {Sum("snapshot", end, l,
                         Latest(Upto("snapshot", l, end)) \cup NewRecords(l, end)) :
                       l \in {k \in Label : NewRecords(k, end) # {}}}
    BY <1>0, <1>4, SnapshotBegins
  <2>3. /\ \A r \in todo : r.kind = "snapshot" /\ r.tick = end
        /\ \A r, s \in todo : r.label = s.label => r = s
    BY <2>2, SumPlan
  <2>4. end + Lag("snapshot") <= now
    BY <1>0, <2>2, LagValues DEF TypeOK
  <2> QED BY <1>0, <2>1, <2>2, <2>3, <2>4, TimeBegin DEF Task, Folders
<1>5. ASSUME NEW t \in Task, Execute(t) \/ Abort(t)
      PROVE  TimeInv'
  <2>1. CASE \E r \in run[t].todo : WriteRecord(t, r)
    BY <2>1, TimeWrite
  <2>2. CASE WriteMaster(t)
    <3>1. /\ run[t].active
          /\ End(t)
          /\ UNCHANGED <<now, fast, slow, records, halted>>
          /\ \A u \in Task : \A m \in master'[u] :
               m \in master[u] \/ (u = t /\ m = run[t].end)
      BY <1>0, <2>2 DEF WriteMaster, TypeOK
    <3> QED BY <3>1, TimeEnd
  <2>3. CASE Abort(t)
    <3>1. /\ run[t].active
          /\ End(t)
          /\ UNCHANGED <<now, fast, slow, records, master>>
          /\ \A u \in Task : halted'[u] = "no" => halted[u] = "no"
      BY <1>0, <2>3 DEF Abort, TypeOK
    <3> QED BY <3>1, TimeEnd
  <2> QED BY <1>5, <2>1, <2>2, <2>3 DEF Execute
<1>6. CASE ClockTick
  BY <1>6, TimeTick
<1>7. CASE UNCHANGED vars
  BY <1>7
  DEF vars, TimeInv, RunShape, RunClock, RecordClock, Advance, OneValuePerCell,
      OnePointPerEvent, Of, SameCell
<1> QED BY <1>1, <1>2, <1>3, <1>4, <1>5, <1>6, <1>7 DEF Next

LEMMA TimeInit == Init => TimeInv
<1> SUFFICES ASSUME Init PROVE TimeInv
  OBVIOUS
<1>1. TypeOK
  BY IdleType DEF Init, TypeOK
<1>2. RunShape /\ RunClock /\ Advance
  BY DEF Init, RunShape, RunClock, Advance, Idle, Of, Folders, Task
<1> QED
  BY <1>1, <1>2
  DEF Init, TimeInv, RecordClock, OneValuePerCell, OnePointPerEvent

\* A run of a folding task works at an instant past every record and master
\* record its task wrote before, and no task writes ahead of its lag.
THEOREM TimeCorrect == Spec => []TimeInv
<1>1. TypeOK' /\ TimeInv /\ [Next]_vars => TimeInv'
  BY TimeNext
<1> QED BY <1>1, TimeInit, TypeCorrect, PTL DEF Spec
-----------------------------------------------------------------------------
(***************************************************************************)
(* No event is lost between a folding task's records and master records.   *)
(***************************************************************************)
LEMMA SourceType ==
  ASSUME TypeOK, NEW t \in Folders
  PROVE  Source(t) \in SUBSET Point /\ t \in Task
BY DEF Source, TypeOK, Folders, Task

\* A folding task overwrites no record.
LEMMA WriteAdds ==
  ASSUME TimeInv, NEW t \in Folders, NEW r \in run[t].todo, WriteRecord(t, r)
  PROVE  records' = records \cup {r}
<1>1. t \in Task
  BY DEF Folders, Task
<1>2. r.kind = t /\ r.tick = run[t].end /\ r.label \notin run[t].wrote
  BY <1>1 DEF TimeInv, RunShape
<1>3. \A s \in records : ~SameCell(r, s)
  BY <1>2 DEF TimeInv, Advance, WriteRecord, SameCell, Of
<1> QED BY <1>3 DEF WriteRecord

LEMMA WriteEffect ==
  ASSUME TypeOK, NEW t \in Task, NEW r \in run[t].todo, WriteRecord(t, r)
  PROVE  /\ run'[t].active /\ run[t].active
         /\ run'[t].since = run[t].since
         /\ run'[t].end = run[t].end
         /\ run'[t].wrote = run[t].wrote \cup {r.label}
         /\ run'[t].todo = run[t].todo \ {r}
         /\ \A u \in Task : u # t => run'[u] = run[u]
         /\ UNCHANGED <<now, fast, slow, late, master, halted, torn>>
BY DEF WriteRecord, TypeOK, Run

LEMMA BeginEffect ==
  ASSUME TypeOK, NEW t \in Task, NEW end, NEW todo, Begin(t, end, todo)
  PROVE  /\ run'[t] = [active |-> TRUE, since |-> now, end |-> end,
                       wrote |-> {}, todo |-> todo]
         /\ \A u \in Task : u # t => run'[u] = run[u]
         /\ UNCHANGED <<now, fast, slow, late, records, master, torn>>
BY DEF Begin, TypeOK

LEMMA EndEffect ==
  ASSUME TypeOK, NEW t \in Task, End(t)
  PROVE  /\ ~run'[t].active /\ run'[t].todo = {} /\ run'[t].wrote = {}
         /\ \A u \in Task : u # t => run'[u] = run[u]
BY DEF End, TypeOK, Idle

LEMMA KeptWrite ==
  ASSUME TimeInv, NEW t \in Folders, Kept(t),
         NEW u \in Task, NEW r \in run[u].todo, WriteRecord(u, r)
  PROVE  Kept(t)'
<1>0. TypeOK /\ t \in Task
  BY DEF TimeInv, Folders, Task
<1>1. UNCHANGED <<Source(t), late, master>>
  BY DEF WriteRecord, Source
<1>2. CASE u = t
  <2>1. records' = records \cup {r}
    BY <1>2, WriteAdds
  <2>2. r.kind = t
    BY <1>0, <1>2 DEF TimeInv, RunShape
  <2>3. Of(t)' = Of(t) \cup {r}
    BY <2>1, <2>2 DEF Of
  <2>4. /\ run'[t].active = run[t].active
        /\ run'[t].end = run[t].end
        /\ Of(t)' \cup run'[t].todo = Of(t) \cup run[t].todo
    <3>1. /\ run'[t].active /\ run[t].active
          /\ run'[t].end = run[t].end
          /\ run'[t].todo = run[t].todo \ {r}
      BY <1>0, <1>2, WriteEffect
    <3> QED BY <1>2, <2>3, <3>1
  <2>5. KeptByMasters(t)'
    BY <1>1, <2>3 DEF Kept, KeptByMasters
  <2>6. KeptByRun(t)'
    BY <1>1, <2>4 DEF Kept, KeptByRun
  <2> QED BY <2>5, <2>6 DEF Kept
<1>3. CASE u # t
  <2>1. r.kind # t
    BY <1>3 DEF TimeInv, RunShape
  <2>2. Of(t)' = Of(t)
    BY <2>1 DEF WriteRecord, SameCell, Of
  <2>3. run'[t] = run[t]
    BY <1>0, <1>3, WriteEffect
  <2> QED BY <1>1, <2>2, <2>3 DEF Kept, KeptByMasters, KeptByRun
<1> QED BY <1>2, <1>3

LEMMA KeptIngest ==
  ASSUME TimeInv, NEW t \in Folders, Kept(t), NEW e \in Event,
         NEW tick \in LandingTicks, IngestEvent(e, tick) \/ IngestRepairEvent(e, tick)
  PROVE  Kept(t)'
<1>1. /\ UNCHANGED <<Of(t), run, master>>
      /\ late \subseteq late'
  BY DEF IngestEvent, IngestRepairEvent, Of
<1>2. ASSUME NEW p \in Source(t)', p.id \notin late'
      PROVE  \/ p \in Source(t)
             \/ ~Missed(t, p.tick)
  BY <1>2 DEF IngestEvent, IngestRepairEvent, Source, Folders
<1>3. run[t].end \in Nat /\ \A m \in master[t] : m \in Nat
  BY DEF TimeInv, TypeOK, Folders, Task, Run
<1>4. KeptByMasters(t)'
  BY <1>1, <1>2 DEF Kept, KeptByMasters, Missed
<1>5. KeptByRun(t)'
  BY <1>1, <1>2 DEF Kept, KeptByRun, Missed
<1> QED BY <1>4, <1>5 DEF Kept

\* A run that takes all the new points of its class keeps them.
LEMMA KeptBegin ==
  ASSUME TimeInv, NEW t \in Folders, Kept(t), NEW u \in Task, NEW end \in Nat,
         NEW todo, Begin(u, end, todo),
         u = t => todo = {Events(t, end, l, NewPoints(Source(t), t, end)) :
                           l \in LabelsIn(NewPoints(Source(t), t, end))}
  PROVE  Kept(t)'
<1>0. TypeOK /\ t \in Task
  BY DEF TimeInv, Folders, Task
<1>1. UNCHANGED <<Of(t), Source(t), late, master>>
  BY DEF Begin, Of, Source
<1>2. KeptByMasters(t)'
  BY <1>1 DEF Kept, KeptByMasters
<1>3. CASE u # t
  <2>1. run'[t] = run[t]
    BY <1>0, <1>3, BeginEffect
  <2> QED BY <1>1, <1>2, <2>1 DEF Kept, KeptByRun
<1>4. CASE u = t
  <2> DEFINE new == NewPoints(Source(t), t, end)
  <2>1. run'[t].end = end /\ run'[t].todo = todo
    <3>1. run'[t] = [active |-> TRUE, since |-> now, end |-> end,
                     wrote |-> {}, todo |-> todo]
      BY <1>0, <1>4, BeginEffect
    <3> QED BY <3>1
  <2>2. ASSUME NEW p \in Source(t), p.tick <= end,
               ~ \E m \in master[t] : p.tick <= m, NEW l \in LabelsOf[p.id]
        PROVE  \E c \in todo : c.label = l /\ c.tick = end /\ p.id \in c.once
    <3>1. p.tick \in Nat /\ \A m \in master[t] : m \in Nat
      BY <1>0, <2>2, SourceType DEF TypeOK, Point
    <3>2. p \in new
      BY <2>2, <3>1 DEF NewPoints, PastMaster
    <3>3. l \in LabelsIn(new)
      BY <2>2, <3>2 DEF LabelsIn
    <3>4. Events(t, end, l, new) \in todo
      BY <1>4, <3>3
    <3>5. p.id \in Events(t, end, l, new).once
      BY <2>2, <3>2 DEF Events
    <3> HIDE DEF new
    <3> QED BY <3>4, <3>5, EventsFields
  <2>3. KeptByRun(t)'
    BY <1>1, <2>1, <2>2 DEF KeptByRun
  <2> QED BY <1>2, <2>3 DEF Kept
<1> QED BY <1>3, <1>4

LEMMA KeptEnd ==
  ASSUME TimeInv, NEW t \in Folders, Kept(t), NEW u \in Task, End(u),
         UNCHANGED <<fast, slow, late, records>>,
         master' = master \/ WriteMaster(u)
  PROVE  Kept(t)'
<1>0. TypeOK /\ t \in Task
  BY DEF TimeInv, Folders, Task
<1>1. UNCHANGED <<Of(t), Source(t)>>
  BY DEF Of, Source
<1>2. KeptByRun(t)'
  <2>1. CASE u = t
    BY <1>0, <2>1, EndEffect DEF KeptByRun
  <2>2. CASE u # t
    <3>1. run'[t] = run[t] /\ master'[t] = master[t]
      BY <1>0, <2>2, EndEffect DEF WriteMaster, TypeOK
    <3> QED BY <1>1, <3>1 DEF Kept, KeptByRun
  <2> QED BY <2>1, <2>2
<1>3. KeptByMasters(t)'
  <2>1. CASE master'[t] = master[t]
    BY <1>1, <2>1 DEF Kept, KeptByMasters
  <2>2. CASE master'[t] # master[t]
    <3>1. u = t /\ WriteMaster(t)
      BY <1>0, <2>2 DEF WriteMaster, TypeOK
    <3>2. /\ master'[t] = master[t] \cup {run[t].end}
          /\ run[t].active
          /\ run[t].todo = {}
      BY <1>0, <3>1 DEF WriteMaster, TypeOK
    <3>3. \A m \in master[t] : m < run[t].end /\ m \in Nat
      BY <1>0, <3>2 DEF TimeInv, Advance, TypeOK
    <3>4. run[t].end \in Nat /\ \A c \in Of(t) : c.tick \in Nat
      BY <1>0 DEF TypeOK, Run, Of, Record
    <3>5. ASSUME NEW p \in Source(t), p.id \notin late, p.tick <= run[t].end,
                 NEW l \in LabelsOf[p.id]
          PROVE  \E c \in Of(t) : /\ c.label = l
                                  /\ c.tick <= run[t].end
                                  /\ p.id \in c.once
      <4>1. CASE \E m \in master[t] : p.tick <= m
        <5>1. PICK m \in master[t] : p.tick <= m
          BY <4>1
        <5>2. PICK c \in Of(t) : c.label = l /\ c.tick <= m /\ p.id \in c.once
          BY <3>5, <5>1 DEF Kept, KeptByMasters
        <5> QED BY <3>3, <3>4, <5>2
      <4>2. CASE ~ \E m \in master[t] : p.tick <= m
        <5>1. PICK c \in Of(t) :
                c.label = l /\ c.tick = run[t].end /\ p.id \in c.once
          BY <3>2, <3>5, <4>2 DEF Kept, KeptByRun
        <5> QED BY <3>4, <5>1
      <4> QED BY <4>1, <4>2
    <3> QED BY <1>1, <3>2, <3>5 DEF Kept, KeptByMasters
  <2> QED BY <2>1, <2>2
<1> QED BY <1>2, <1>3 DEF Kept

\* The repair macro only keeps up when one origin sends all the events.
LEMMA KeptNext ==
  ASSUME TimeInv, NEW t \in Folders, Kept(t), t = "repair" => SingleOrigin,
         [Next]_vars
  PROVE  Kept(t)'
<1>0. TypeOK
  BY DEF TimeInv
<1>1. CASE Ingest
  BY <1>1, KeptIngest DEF Ingest
<1>2. CASE CreateCheckpoint
  <2> DEFINE end == now - CheckpointLag
             new == NewPoints(fast, "checkpoint", end)
             todo == {Events("checkpoint", end, l, new) : l \in LabelsIn(new)}
  <2>1. end \in Nat /\ Begin("checkpoint", end, todo)
    BY <1>0, <1>2, CheckpointBegins
  <2>2. t = "checkpoint" => Source(t) = fast
    BY DEF Source
  <2> HIDE DEF end
  <2> QED BY <2>1, <2>2, KeptBegin DEF Task
<1>3. CASE RepairRecords
  <2> DEFINE end == now - RepairLag
             new == NewPoints(slow, "repair", end)
  <2>1. end \in Nat
    BY <1>0, <1>3, RepairBegins
  <2> DEFINE taken(o) == {p \in new : OriginOf[p.id] = o}
             plan(P) == {Events("repair", end, l, P) : l \in LabelsIn(P)}
  <2>2. PICK o \in {OriginOf[p.id] : p \in new} : Begin("repair", end, plan(taken(o)))
    BY <1>3 DEF RepairRecords
  <2>3. new \in SUBSET Point
    BY <1>0, NewPointsType DEF TypeOK
  <2>4. t = "repair" => taken(o) = new
    BY <2>2, <2>3 DEF SingleOrigin, Point
  <2>5. t = "repair" => Source(t) = slow
    BY DEF Source
  <2>6. t = "repair" =>
          plan(taken(o)) = {Events(t, end, l, NewPoints(Source(t), t, end)) :
                             l \in LabelsIn(NewPoints(Source(t), t, end))}
    BY <2>4, <2>5
  <2> HIDE DEF end, taken, plan
  <2> QED BY <2>1, <2>2, <2>6, KeptBegin DEF Task
<1>4. CASE CreateSnapshot
  <2>1. PICK end \in Nat, todo \in SUBSET Record : Begin("snapshot", end, todo)
    BY <1>0, <1>4, SnapshotBegins
  <2> QED BY <2>1, KeptBegin DEF Task, Folders
<1>5. ASSUME NEW u \in Task, Execute(u) \/ Abort(u)
      PROVE  Kept(t)'
  <2>1. CASE \E r \in run[u].todo : WriteRecord(u, r)
    BY <2>1, KeptWrite
  <2>2. CASE WriteMaster(u)
    <3>1. End(u) /\ UNCHANGED <<fast, slow, late, records>>
      BY <2>2 DEF WriteMaster
    <3> QED BY <2>2, <3>1, KeptEnd
  <2>3. CASE Abort(u)
    <3>1. End(u) /\ UNCHANGED <<fast, slow, late, records, master>>
      BY <2>3 DEF Abort
    <3> QED BY <3>1, KeptEnd
  <2> QED BY <1>5, <2>1, <2>2, <2>3 DEF Execute
<1>6. CASE ClockTick \/ UNCHANGED vars
  BY <1>6
  DEF ClockTick, vars, Kept, KeptByMasters, KeptByRun, Of, Source
<1> QED BY <1>1, <1>2, <1>3, <1>4, <1>5, <1>6 DEF Next

LEMMA KeptInit ==
  ASSUME Init, NEW t \in Folders
  PROVE  Kept(t)
BY DEF Init, Kept, KeptByMasters, KeptByRun, Source, Folders, Task, Idle

\* Every utapi.event that landed in time is in a checkpoint of each of its
\* labels by the time a master record is past it, and until then a query
\* still fetches it as an event.
THEOREM FastKeptCorrect == Spec => []FastKept
<1>1. "checkpoint" \in Folders
  BY DEF Folders
<1>2. Init => FastKept
  BY <1>1, KeptInit DEF FastKept
<1>3. TimeInv /\ FastKept /\ [Next]_vars => FastKept'
  BY <1>1, KeptNext DEF FastKept
<1> QED BY <1>2, <1>3, TimeCorrect, PTL DEF Spec

\* The same for slow events and corrections, when one origin sends them all.
THEOREM SlowKeptCorrect == SingleOrigin => (Spec => []SlowKept)
<1>1. "repair" \in Folders
  BY DEF Folders
<1>2. Init => SlowKept
  BY <1>1, KeptInit DEF SlowKept
<1>3. SingleOrigin /\ TimeInv /\ SlowKept /\ [Next]_vars => SlowKept'
  BY <1>1, KeptNext DEF SlowKept
<1>4. SUFFICES ASSUME SingleOrigin
               PROVE  Spec => []SlowKept
  OBVIOUS
<1>5. TimeInv /\ SlowKept /\ [Next]_vars => SlowKept'
  BY <1>3, <1>4
<1> QED BY <1>2, <1>5, TimeCorrect, PTL DEF Spec
-----------------------------------------------------------------------------
(***************************************************************************)
(* Snapshots hold exactly the checkpoints and corrections up to their tick.*)
(***************************************************************************)
\* A folding run in progress writes at an instant no snapshot run can see
\* before that folding run is over: this is what RunAssumption buys.
LEMMA FoldersAhead ==
  ASSUME TimeInv, NEW t \in Folders, run[t].active
  PROVE  /\ \A s \in Snapshots \cup Planned : s.tick < run[t].end
         /\ \A m \in master["snapshot"] : m < run[t].end
         /\ run["snapshot"].active => run["snapshot"].end < run[t].end
<1>1. /\ t \in Task /\ "snapshot" \in Task
      /\ Lag(t) + MaxRun < SnapshotLag
      /\ Lag("snapshot") = SnapshotLag
      /\ Lag(t) \in Nat
  BY LagValues DEF Folders, Task
<1>2. /\ now \in Nat
      /\ run[t].end \in Nat /\ run[t].since \in Nat
      /\ run["snapshot"].end \in Nat /\ run["snapshot"].since \in Nat
      /\ \A s \in Snapshots : s.tick \in Nat
      /\ \A m \in master["snapshot"] : m \in Nat
  BY <1>1 DEF TimeInv, TypeOK, Run, Snapshots, Of, Record
<1>3. run[t].end + Lag(t) = run[t].since /\ now <= run[t].since + MaxRun
  BY <1>1 DEF TimeInv, RunClock
<1>4. now < run[t].end + SnapshotLag
  BY <1>1, <1>2, <1>3
<1>5. /\ \A s \in Snapshots : s.tick + SnapshotLag <= now
      /\ \A m \in master["snapshot"] : m + SnapshotLag <= now
  BY <1>1 DEF TimeInv, RecordClock, Snapshots, Of
<1>6. run["snapshot"].active => run["snapshot"].end + SnapshotLag <= now
  BY <1>1, <1>2 DEF TimeInv, RunClock
<1>7. \A s \in Planned : run["snapshot"].active /\ s.tick = run["snapshot"].end
  BY <1>1 DEF TimeInv, RunShape, Planned, Idle
<1> QED BY <1>2, <1>4, <1>5, <1>6, <1>7

LEMMA SnapshotFold ==
  ASSUME TimeInv, SnapshotInv, NEW t \in Folders, NEW r \in run[t].todo,
         WriteRecord(t, r)
  PROVE  SnapshotInv'
<1>1. t \in Task /\ t # "snapshot" /\ TypeOK
  BY DEF TimeInv, Folders, Task
<1>2. r.kind = t /\ r.tick = run[t].end /\ run[t].active
  BY <1>1 DEF TimeInv, RunShape, WriteRecord
<1>3. records' = records \cup {r}
  BY WriteAdds
<1>4. Folded' = Folded \cup {r} /\ Snapshots' = Snapshots
  BY <1>1, <1>2, <1>3 DEF Folded, Snapshots, Of, Folders
<1>5. run'["snapshot"] = run["snapshot"] /\ master' = master /\ Planned' = Planned
  BY <1>1, WriteEffect DEF Planned, Task
<1>6. /\ r.tick \in Nat
      /\ \A s \in Snapshots \cup Planned : s.tick < r.tick /\ s.tick \in Nat
      /\ \A m \in master["snapshot"] : m < r.tick /\ m \in Nat
      /\ run["snapshot"].active => run["snapshot"].end < r.tick
      /\ run["snapshot"].end \in Nat
  <2>1. "snapshot" \in Task
    BY DEF Task
  <2>2. /\ run[t].end \in Nat
        /\ run["snapshot"].end \in Nat
        /\ \A s \in Snapshots \cup Planned : s.tick \in Nat
        /\ \A m \in master["snapshot"] : m \in Nat
    BY <1>1, <2>1 DEF TypeOK, Run, Record, Snapshots, Planned, Of
  <2> QED BY <1>2, <2>2, FoldersAhead
<1>7. SnapshotsInclude'
  BY <1>4, <1>5, <1>6 DEF SnapshotInv, SnapshotsInclude
<1>8. SnapshotsInvent'
  BY <1>4, <1>5 DEF SnapshotInv, SnapshotsInvent
<1>9. SnapshotsReach'
  BY <1>4, <1>5, <1>6 DEF SnapshotInv, SnapshotsReach
<1>10. LatestExists'
  <2>1. \A l, end : Upto("snapshot", l, end)' = Upto("snapshot", l, end)
    BY <1>4 DEF Upto, Snapshots, Of
  <2> QED BY <2>1 DEF SnapshotInv, LatestExists, Latest
<1> QED BY <1>7, <1>8, <1>9, <1>10 DEF SnapshotInv

LEMMA SnapshotWrite ==
  ASSUME TimeInv, SnapshotInv, NEW r \in run["snapshot"].todo,
         WriteRecord("snapshot", r)
  PROVE  SnapshotInv'
<1>0. TypeOK /\ "snapshot" \in Task
  BY DEF TimeInv, Task
<1>1. r \in Planned /\ r.kind = "snapshot" /\ r.tick \in Nat
  BY <1>0 DEF TimeInv, RunShape, Planned, TypeOK, Run, Record
<1>2. Folded' = Folded
  BY <1>1 DEF WriteRecord, SameCell, Folded, Of
<1>3. Snapshots' = {s \in Snapshots : ~(s.label = r.label /\ s.tick = r.tick)} \cup {r}
  BY <1>1 DEF WriteRecord, SameCell, Snapshots, Of
<1>4. /\ Planned' = Planned \ {r}
      /\ run'["snapshot"].active = run["snapshot"].active
      /\ run'["snapshot"].end = run["snapshot"].end
      /\ master' = master
  <2>1. /\ run'["snapshot"].todo = run["snapshot"].todo \ {r}
        /\ run'["snapshot"].active /\ run["snapshot"].active
        /\ run'["snapshot"].end = run["snapshot"].end
        /\ master' = master
    BY <1>0, WriteEffect
  <2> QED BY <2>1 DEF Planned
<1>5. /\ Snapshots' \cup Planned' \subseteq Snapshots \cup Planned
      /\ \A s \in Snapshots : \E x \in Snapshots' :
           x.label = s.label /\ x.tick = s.tick
      /\ \A s \in Planned : \E x \in Snapshots' \cup Planned' :
           x.label = s.label /\ x.tick = s.tick
  BY <1>1, <1>3, <1>4
<1>6. SnapshotsInclude'
  BY <1>2, <1>5 DEF SnapshotInv, SnapshotsInclude
<1>7. SnapshotsInvent'
  BY <1>2, <1>5 DEF SnapshotInv, SnapshotsInvent
<1>8. SnapshotsReach'
  <2>1. ASSUME NEW m \in master["snapshot"], NEW c \in Folded, c.tick <= m
        PROVE  \E s \in Snapshots' :
                 s.label = c.label /\ c.tick <= s.tick /\ s.tick <= m
    <3>1. PICK s \in Snapshots : s.label = c.label /\ c.tick <= s.tick /\ s.tick <= m
      BY <2>1 DEF SnapshotInv, SnapshotsReach
    <3> QED BY <1>5, <3>1
  <2>2. ASSUME run["snapshot"].active, NEW c \in Folded,
               c.tick <= run["snapshot"].end
        PROVE  \E s \in Snapshots' \cup Planned' :
                 /\ s.label = c.label
                 /\ c.tick <= s.tick
                 /\ s.tick <= run["snapshot"].end
    <3>1. PICK s \in Snapshots \cup Planned :
            s.label = c.label /\ c.tick <= s.tick /\ s.tick <= run["snapshot"].end
      BY <2>2 DEF SnapshotInv, SnapshotsReach
    <3> QED BY <1>5, <3>1
  <2> QED BY <1>2, <1>4, <2>1, <2>2 DEF SnapshotInv, SnapshotsReach
<1>9. LatestExists'
  <2> SUFFICES ASSUME NEW l \in Label, NEW end \in Nat,
                      Upto("snapshot", l, end)' # {}
               PROVE  \E x \in Upto("snapshot", l, end)' :
                        \A s \in Upto("snapshot", l, end)' : s.tick <= x.tick
    BY DEF LatestExists, Latest
  <2> DEFINE U == Upto("snapshot", l, end)
  <2>1. U = {s \in Snapshots : s.label = l /\ s.tick <= end}
    BY DEF Upto, Snapshots, Of
  <2>2. U' = {s \in Snapshots' : s.label = l /\ s.tick <= end}
    BY DEF Upto, Snapshots, Of
  <2>3. \A s \in Snapshots : s.tick \in Nat
    BY <1>0 DEF TypeOK, Record, Snapshots, Of
  <2>4. U # {} => \E x \in U : \A s \in U : s.tick <= x.tick
    BY DEF SnapshotInv, LatestExists, Latest
  <2> HIDE DEF U
  <2>5. CASE r \notin U'
    <3>1. U' = U
      BY <1>3, <2>1, <2>2, <2>5
    <3> QED BY <2>4, <3>1 DEF U
  <2>6. CASE r \in U'
    <3>1. /\ U' \subseteq U \cup {r}
          /\ \A s \in U : s \in U' \/ s.tick = r.tick
      BY <1>3, <2>1, <2>2, <2>6
    <3>2. CASE U = {}
      BY <1>1, <2>6, <3>1, <3>2 DEF U
    <3>3. CASE U # {}
      <4>1. PICK x \in U : \A s \in U : s.tick <= x.tick
        BY <2>4, <3>3
      <4>2. x.tick \in Nat /\ \A s \in U : s.tick \in Nat
        BY <2>1, <2>3
      <4>3. CASE x.tick <= r.tick
        <5>1. \A s \in U' : s.tick <= r.tick
          BY <1>1, <3>1, <4>1, <4>2, <4>3
        <5> QED BY <2>6, <5>1 DEF U
      <4>4. CASE r.tick < x.tick
        <5>1. x \in U'
          BY <1>1, <3>1, <4>2, <4>4
        <5>2. \A s \in U' : s.tick <= x.tick
          BY <1>1, <3>1, <4>1, <4>2, <4>4
        <5> QED BY <5>1, <5>2 DEF U
      <4> QED BY <1>1, <4>2, <4>3, <4>4
    <3> QED BY <3>2, <3>3
  <2> QED BY <2>5, <2>6
<1> QED BY <1>6, <1>7, <1>8, <1>9 DEF SnapshotInv

\* The instants of all the master snapshots a run sees are at or before its end.
LEMMA SnapshotEndsPast ==
  ASSUME TypeOK, NEW limit \in Nat, NEW end \in SnapshotEnds(limit),
         NEW m \in master["snapshot"], m <= limit
  PROVE  m <= end
<1> DEFINE seen == {x \in master["snapshot"] : x <= limit}
<1>1. seen # {} /\ \A x \in seen : x \in Nat
  BY DEF TypeOK, Task
<1>2. PICK x \in seen : /\ \A y \in seen : y <= x
                        /\ end = Lesser(x + 1 + MaxSnapshot, limit)
  BY <1>1 DEF SnapshotEnds
<1>3. m <= x /\ m \in Nat /\ x \in Nat
  BY <1>1, <1>2
<1> QED BY <1>2, <1>3 DEF Lesser

LEMMA SnapshotBegin ==
  ASSUME TimeInv, SnapshotInv, CreateSnapshot
  PROVE  SnapshotInv'
<1>0. TypeOK /\ "snapshot" \in Task
  BY DEF TimeInv, Task
<1> DEFINE limit == now - SnapshotLag
           R(l, end) == Latest(Upto("snapshot", l, end)) \cup NewRecords(l, end)
<1>1. limit \in Nat
  BY <1>0, SnapshotBegins
<1>2. PICK end \in SnapshotEnds(limit), todo \in SUBSET Record :
        /\ end \in Nat
        /\ end <= limit
        /\ Begin("snapshot", end, todo)
        /\ todo = {Sum("snapshot", end, l, R(l, end)) :
                     l \in {k \in Label : NewRecords(k, end) # {}}}
  BY <1>0, SnapshotBegins
<1>3. /\ UNCHANGED <<Folded, Snapshots, master>>
      /\ Planned' = todo
      /\ run'["snapshot"].active
      /\ run'["snapshot"].end = end
  <2>1. /\ run'["snapshot"] = [active |-> TRUE, since |-> now, end |-> end,
                               wrote |-> {}, todo |-> todo]
        /\ UNCHANGED <<records, master>>
    <3>1. Begin("snapshot", end, todo)
      BY <1>2
    <3> HIDE DEF R
    <3> QED BY <1>0, <3>1, BeginEffect
  <2> QED BY <2>1 DEF Folded, Snapshots, Of, Planned
<1>4. \A m \in master["snapshot"] : m <= limit /\ m <= end /\ m \in Nat
  <2>1. ASSUME NEW m \in master["snapshot"]
        PROVE  m \in Nat /\ m <= limit
    <3>1. m \in Nat /\ now \in Nat
      BY <1>0 DEF TypeOK
    <3>2. m + SnapshotLag <= now
      BY <1>0, LagValues DEF TimeInv, RecordClock
    <3> QED BY <3>1, <3>2
  <2> QED BY <1>0, <1>1, <1>2, <2>1, SnapshotEndsPast
<1>5. \A r \in Folded \cup Snapshots : r \in Record /\ r.tick \in Nat /\ r.label \in Label
  BY <1>0 DEF TypeOK, Record, Folded, Snapshots, Of
<1> HIDE DEF limit, R
<1>6. ASSUME NEW c \in Folded, c.tick <= end, c \notin NewRecords(c.label, end)
      PROVE  \E s \in Snapshots : s.label = c.label /\ c.tick <= s.tick /\ s.tick <= end
  <2>1. c \in Upto("checkpoint", c.label, end) \cup Upto("repair", c.label, end)
    BY <1>6 DEF Folded, Of, Upto
  <2>2. PICK m \in master["snapshot"] : m <= limit /\ ~(m < c.tick)
    BY <1>6, <2>1 DEF NewRecords, PastMaster, limit
  <2>3. m \in Nat /\ m <= end /\ c.tick <= m
    BY <1>4, <1>5, <2>2
  <2>4. PICK s \in Snapshots : s.label = c.label /\ c.tick <= s.tick /\ s.tick <= m
    BY <2>3 DEF SnapshotInv, SnapshotsReach
  <2> QED BY <1>2, <1>5, <2>3, <2>4
<1>7. \A p \in todo : /\ p.label \in Label
                      /\ p.tick = end
                      /\ p.once = Once(R(p.label, end))
  BY <1>2, SumFields
<1>8. SnapshotsInclude'
  <2>1. ASSUME NEW p \in todo, NEW c \in Folded, c.label = p.label, c.tick <= end
        PROVE  c.once \subseteq p.once
    <3>1. CASE c \in NewRecords(c.label, end)
      <4>1. c \in R(p.label, end)
        BY <2>1, <3>1 DEF R
      <4> QED BY <1>7, <4>1 DEF Once
    <3>2. CASE c \notin NewRecords(c.label, end)
      <4>1. PICK s \in Snapshots :
              s.label = c.label /\ c.tick <= s.tick /\ s.tick <= end
        BY <1>6, <2>1, <3>2
      <4>2. s \in Upto("snapshot", p.label, end)
        BY <2>1, <4>1 DEF Upto, Snapshots, Of
      <4>3. PICK x \in Latest(Upto("snapshot", p.label, end)) : TRUE
        BY <1>2, <1>7, <4>2 DEF SnapshotInv, LatestExists
      <4>4. x \in Snapshots /\ x.label = p.label /\ s.tick <= x.tick
        BY <4>2, <4>3 DEF Latest, Upto, Snapshots, Of
      <4>5. c.tick <= x.tick
        BY <1>5, <4>1, <4>4
      <4>6. c.once \subseteq x.once
        BY <2>1, <4>4, <4>5 DEF SnapshotInv, SnapshotsInclude
      <4>7. x \in R(p.label, end)
        BY <4>3 DEF R
      <4> QED BY <1>7, <4>6, <4>7 DEF Once
    <3> QED BY <3>1, <3>2
  <2> QED BY <1>3, <1>7, <2>1 DEF SnapshotInv, SnapshotsInclude
<1>9. SnapshotsInvent'
  <2>1. ASSUME NEW p \in todo, NEW e \in p.once
        PROVE  \E c \in Folded : c.label = p.label /\ c.tick <= end /\ e \in c.once
    <3>1. PICK x \in R(p.label, end) : e \in x.once
      BY <1>7, <2>1 DEF Once
    <3>2. CASE x \in NewRecords(p.label, end)
      BY <3>1, <3>2 DEF NewRecords, Upto, Folded, Of
    <3>3. CASE x \in Latest(Upto("snapshot", p.label, end))
      <4>1. x \in Snapshots /\ x.label = p.label /\ x.tick <= end
        BY <3>3 DEF Latest, Upto, Snapshots, Of
      <4>2. PICK c \in Folded : c.label = x.label /\ c.tick <= x.tick /\ e \in c.once
        BY <3>1, <4>1 DEF SnapshotInv, SnapshotsInvent
      <4>3. c.tick <= end
        BY <1>2, <1>5, <4>1, <4>2
      <4> QED BY <4>1, <4>2, <4>3
    <3> QED BY <3>1, <3>2, <3>3 DEF R
  <2> QED BY <1>3, <1>7, <2>1 DEF SnapshotInv, SnapshotsInvent
<1>10. SnapshotsReach'
  <2>1. ASSUME NEW c \in Folded, c.tick <= end
        PROVE  \E s \in Snapshots \cup todo :
                 s.label = c.label /\ c.tick <= s.tick /\ s.tick <= end
    <3>1. CASE c \in NewRecords(c.label, end)
      <4>1. Sum("snapshot", end, c.label, R(c.label, end)) \in todo
        BY <1>2, <1>5, <3>1
      <4> QED BY <1>2, <2>1, <4>1, SumFields
    <3>2. CASE c \notin NewRecords(c.label, end)
      BY <1>6, <2>1, <3>2
    <3> QED BY <3>1, <3>2
  <2> QED BY <1>3, <1>4, <2>1 DEF SnapshotInv, SnapshotsReach
<1>11. LatestExists'
  <2>1. \A l, k : Upto("snapshot", l, k)' = Upto("snapshot", l, k)
    BY <1>2 DEF Begin, Upto
  <2> QED BY <2>1 DEF SnapshotInv, LatestExists, Latest
<1> QED BY <1>8, <1>9, <1>10, <1>11 DEF SnapshotInv

\* A snapshot run ends with its master record, or without.
LEMMA SnapshotEnd ==
  ASSUME TimeInv, SnapshotInv, WriteMaster("snapshot") \/ Abort("snapshot")
  PROVE  SnapshotInv'
<1>0. TypeOK /\ "snapshot" \in Task
  BY DEF TimeInv, Task
<1>1. /\ UNCHANGED <<Folded, Snapshots>>
      /\ \A l, k : Upto("snapshot", l, k)' = Upto("snapshot", l, k)
      /\ run["snapshot"].active
  BY DEF WriteMaster, Abort, Folded, Snapshots, Of, Upto
<1>2. Planned' = {} /\ ~run'["snapshot"].active
  <2>1. End("snapshot")
    BY DEF WriteMaster, Abort
  <2> QED BY <1>0, <2>1, EndEffect DEF Planned
<1>3. SnapshotsInclude' /\ SnapshotsInvent'
  BY <1>1, <1>2 DEF SnapshotInv, SnapshotsInclude, SnapshotsInvent
<1>4. SnapshotsReach'
  <2>1. CASE Abort("snapshot")
    BY <1>1, <1>2, <2>1 DEF Abort, SnapshotInv, SnapshotsReach
  <2>2. CASE WriteMaster("snapshot")
    <3>1. /\ master'["snapshot"] = master["snapshot"] \cup {run["snapshot"].end}
          /\ Planned = {}
      BY <1>0, <2>2 DEF WriteMaster, TypeOK, Planned
    <3> QED BY <1>1, <1>2, <3>1 DEF SnapshotInv, SnapshotsReach
  <2> QED BY <2>1, <2>2
<1>5. LatestExists'
  BY <1>1 DEF SnapshotInv, LatestExists, Latest
<1> QED BY <1>3, <1>4, <1>5 DEF SnapshotInv

\* The steps that touch neither the records nor the snapshot task.
LEMMA SnapshotIdle ==
  ASSUME SnapshotInv, UNCHANGED <<records, master["snapshot"], run["snapshot"]>>
  PROVE  SnapshotInv'
<1>1. /\ UNCHANGED <<Folded, Snapshots, Planned>>
      /\ \A l, k : Upto("snapshot", l, k)' = Upto("snapshot", l, k)
  BY DEF Folded, Snapshots, Of, Planned, Upto
<1> QED
  BY <1>1
  DEF SnapshotInv, SnapshotsInclude, SnapshotsInvent, SnapshotsReach, LatestExists, Latest

LEMMA SnapshotNext == TimeInv /\ SnapshotInv /\ [Next]_vars => SnapshotInv'
<1> SUFFICES ASSUME TimeInv, SnapshotInv, [Next]_vars
             PROVE  SnapshotInv'
  OBVIOUS
<1>0. TypeOK /\ "snapshot" \in Task
  BY DEF TimeInv, Task
<1>1. CASE Ingest
  BY <1>1, SnapshotIdle DEF Ingest, IngestEvent, IngestRepairEvent
<1>2. CASE CreateCheckpoint
  <2>1. PICK end, todo : Begin("checkpoint", end, todo)
    BY <1>2 DEF CreateCheckpoint
  <2>2. "checkpoint" \in Task
    BY DEF Task
  <2>3. UNCHANGED <<records, master["snapshot"], run["snapshot"]>>
    BY <1>0, <2>1, <2>2, BeginEffect
  <2> QED BY <2>3, SnapshotIdle
<1>3. CASE RepairRecords
  <2>1. PICK end, todo : Begin("repair", end, todo)
    BY <1>3 DEF RepairRecords
  <2>2. "repair" \in Task
    BY DEF Task
  <2>3. UNCHANGED <<records, master["snapshot"], run["snapshot"]>>
    BY <1>0, <2>1, <2>2, BeginEffect
  <2> QED BY <2>3, SnapshotIdle
<1>4. CASE CreateSnapshot
  BY <1>4, SnapshotBegin
<1>5. ASSUME NEW t \in Task, Execute(t) \/ Abort(t)
      PROVE  SnapshotInv'
  <2>1. CASE t = "snapshot"
    BY <1>5, <2>1, SnapshotWrite, SnapshotEnd DEF Execute
  <2>2. CASE t # "snapshot"
    <3>1. t \in Folders
      BY <2>2 DEF Task, Folders
    <3>2. CASE \E r \in run[t].todo : WriteRecord(t, r)
      BY <3>1, <3>2, SnapshotFold
    <3>3. CASE WriteMaster(t) \/ Abort(t)
      <4>1. End(t) /\ records' = records /\ master'["snapshot"] = master["snapshot"]
        BY <1>0, <2>2, <3>3 DEF WriteMaster, Abort, TypeOK
      <4> QED BY <1>0, <2>2, <4>1, EndEffect, SnapshotIdle
    <3> QED BY <1>5, <3>2, <3>3 DEF Execute
  <2> QED BY <2>1, <2>2
<1>6. CASE ClockTick \/ UNCHANGED vars
  BY <1>6, SnapshotIdle DEF ClockTick, vars
<1> QED BY <1>1, <1>2, <1>3, <1>4, <1>5, <1>6 DEF Next

LEMMA SnapshotInit == Init => SnapshotInv
<1> SUFFICES ASSUME Init PROVE SnapshotInv
  OBVIOUS
<1>1. Folded = {} /\ Snapshots = {} /\ Planned = {} /\ master["snapshot"] = {}
  BY DEF Init, Folded, Snapshots, Of, Planned, Idle, Task
<1>2. ~run["snapshot"].active
  BY DEF Init, Idle, Task
<1>3. \A l, end : Upto("snapshot", l, end) = {}
  BY DEF Init, Upto
<1> QED
  BY <1>1, <1>2, <1>3
  DEF SnapshotInv, SnapshotsInclude, SnapshotsInvent, SnapshotsReach, LatestExists

\* A snapshot holds the events of the checkpoints and corrections up to its
\* tick, none less and none more, and covers them by its master record.
THEOREM SnapshotCorrect == Spec => []SnapshotInv
BY TimeCorrect, SnapshotInit, SnapshotNext, PTL DEF Spec
-----------------------------------------------------------------------------
(***************************************************************************)
(* The answers.                                                            *)
(***************************************************************************)
LEMMA AnswersAlike ==
  ASSUME TypeOK, SnapshotInv, NEW l \in Label, NEW end \in Nat
  PROVE  Counted(l, end) = Once(WithoutSnapshots(l, end))
<1> DEFINE U == Upto("snapshot", l, end)
           F == Upto("checkpoint", l, end) \cup Upto("repair", l, end)
           P == {Events("event", end, l, NewPoints(fast, "checkpoint", end))}
           G == SinceSnapshot("checkpoint", l, end) \cup SinceSnapshot("repair", l, end)
<1>1. getMetricsAt(l, end) = Latest(U) \cup G \cup P
  BY DEF getMetricsAt
<1>2. WithoutSnapshots(l, end) = F \cup P
  BY DEF WithoutSnapshots
<1>3. G = {r \in F : \A s \in U : s.tick < r.tick}
  BY DEF SinceSnapshot
<1>4. F = {c \in Folded : c.label = l /\ c.tick <= end}
  BY DEF Upto, Folded, Of
<1>5. U = {s \in Snapshots : s.label = l /\ s.tick <= end}
  BY DEF Upto, Snapshots, Of
<1>6. \A r \in Folded \cup Snapshots : r.tick \in Nat
  BY DEF TypeOK, Record, Folded, Snapshots, Of
<1>7. U # {} => Latest(U) # {}
  BY DEF SnapshotInv, LatestExists
<1> HIDE DEF U, F, P, G
<1>8. ASSUME NEW c \in F
      PROVE  \E r \in Latest(U) \cup G : c.once \subseteq r.once
  <2>1. CASE c \in G
    BY <2>1
  <2>2. CASE c \notin G
    <3>1. PICK s \in U : ~(s.tick < c.tick)
      BY <1>3, <1>8, <2>2
    <3>2. PICK x \in Latest(U) : TRUE
      BY <1>7, <3>1
    <3>3. x \in U /\ s.tick <= x.tick
      BY <3>1, <3>2 DEF Latest
    <3>4. c \in Folded /\ s \in Snapshots /\ x \in Snapshots
      BY <1>4, <1>5, <1>8, <3>1, <3>3
    <3>5. c.tick <= x.tick /\ c.label = x.label
      BY <1>4, <1>5, <1>6, <1>8, <3>1, <3>3, <3>4
    <3>6. c.once \subseteq x.once
      BY <3>4, <3>5 DEF SnapshotInv, SnapshotsInclude
    <3> QED BY <3>2, <3>6
  <2> QED BY <2>1, <2>2
<1>9. ASSUME NEW r \in Latest(U) \cup G, NEW e \in r.once
      PROVE  \E c \in F : e \in c.once
  <2>1. CASE r \in G
    BY <1>3, <1>9, <2>1
  <2>2. CASE r \in Latest(U)
    <3>1. r \in Snapshots /\ r.label = l /\ r.tick <= end
      BY <1>5, <2>2 DEF Latest
    <3>2. PICK c \in Folded : c.label = r.label /\ c.tick <= r.tick /\ e \in c.once
      BY <1>9, <3>1 DEF SnapshotInv, SnapshotsInvent
    <3>3. c.tick <= end
      BY <1>6, <3>1, <3>2
    <3> QED BY <1>4, <3>1, <3>2, <3>3
  <2> QED BY <1>9, <2>1, <2>2
<1>10. Counted(l, end) \subseteq Once(WithoutSnapshots(l, end))
  BY <1>1, <1>2, <1>9 DEF Counted, Once
<1>11. Once(WithoutSnapshots(l, end)) \subseteq Counted(l, end)
  BY <1>1, <1>2, <1>8 DEF Counted, Once
<1> QED BY <1>10, <1>11

\* No query can tell whether snapshots were ever written.
THEOREM SnapshotsInvisibleCorrect == Spec => []SnapshotsInvisible
<1>1. TypeOK /\ SnapshotInv => SnapshotsInvisible
  BY AnswersAlike DEF SnapshotsInvisible, Instants
<1> QED BY <1>1, TypeCorrect, SnapshotCorrect, PTL

\* Every utapi.event that landed in time is in every answer it belongs to,
\* whatever the tasks are doing and wherever they died before.
THEOREM NothingLostCorrect == Spec => []NothingLost
<1>1. ASSUME TypeOK, FastKept, SnapshotInv, NEW end \in Instants, NEW p \in fast,
             p.tick <= end, p.id \notin late, NEW l \in LabelsOf[p.id]
      PROVE  p.id \in Counted(l, end)
  <2>1. /\ end \in Nat /\ p.tick \in Nat /\ p.id \in Event /\ l \in Label
        /\ \A m \in master["checkpoint"] : m \in Nat
        /\ \A c \in records : c.tick \in Nat
    BY <1>1 DEF Instants, TypeOK, Point, Task, Record
  <2>2. CASE PastMaster("checkpoint", p.tick, end)
    <3>1. p \in NewPoints(fast, "checkpoint", end)
      BY <1>1, <2>2 DEF NewPoints
    <3>2. p.id \in Events("event", end, l, NewPoints(fast, "checkpoint", end)).once
      BY <1>1, <3>1 DEF Events
    <3>3. Events("event", end, l, NewPoints(fast, "checkpoint", end))
            \in getMetricsAt(l, end)
      BY DEF getMetricsAt
    <3> QED BY <3>2, <3>3 DEF Counted, Once
  <2>3. CASE ~PastMaster("checkpoint", p.tick, end)
    <3>1. PICK m \in master["checkpoint"] : m <= end /\ ~(m < p.tick)
      BY <2>3 DEF PastMaster
    <3>2. PICK c \in Of("checkpoint") :
            c.label = l /\ c.tick <= m /\ p.id \in c.once
      BY <1>1, <2>1, <3>1 DEF FastKept, Kept, KeptByMasters, Source
    <3>3. c \in Upto("checkpoint", l, end)
      BY <2>1, <3>1, <3>2 DEF Of, Upto
    <3>4. p.id \in Once(WithoutSnapshots(l, end))
      BY <3>2, <3>3 DEF WithoutSnapshots, Once
    <3> QED BY <1>1, <2>1, <3>4, AnswersAlike
  <2> QED BY <2>2, <2>3
<1>2. TypeOK /\ FastKept /\ SnapshotInv => NothingLost
  BY <1>1 DEF NothingLost
<1> QED BY <1>2, TypeCorrect, FastKeptCorrect, SnapshotCorrect, PTL

\* With one origin, an answer past the master record of the repair task holds
\* every slow event that record is past.
THEOREM RepairsCountedCorrect == SingleOrigin => (Spec => []RepairsCounted)
<1>1. ASSUME TypeOK, SlowKept, SnapshotInv, NEW end \in Instants, NEW p \in slow,
             NEW m \in master["repair"], p.tick <= m, m <= end, p.id \notin late,
             NEW l \in LabelsOf[p.id]
      PROVE  p.id \in Counted(l, end)
  <2>1. /\ end \in Nat /\ m \in Nat /\ l \in Label
        /\ \A c \in records : c.tick \in Nat
    BY <1>1 DEF Instants, TypeOK, Point, Task, Record
  <2>2. PICK c \in Of("repair") : c.label = l /\ c.tick <= m /\ p.id \in c.once
    BY <1>1 DEF SlowKept, Kept, KeptByMasters, Source
  <2>3. c \in Upto("repair", l, end)
    BY <1>1, <2>1, <2>2 DEF Of, Upto
  <2>4. p.id \in Once(WithoutSnapshots(l, end))
    BY <2>2, <2>3 DEF WithoutSnapshots, Once
  <2> QED BY <1>1, <2>1, <2>4, AnswersAlike
<1>2. TypeOK /\ SlowKept /\ SnapshotInv => RepairsCounted
  BY <1>1 DEF RepairsCounted
<1>3. SUFFICES ASSUME SingleOrigin
               PROVE  Spec => []RepairsCounted
  OBVIOUS
<1>4. Spec => []SlowKept
  BY <1>3, SlowKeptCorrect
<1> QED BY <1>2, <1>4, TypeCorrect, SnapshotCorrect, PTL
=============================================================================
