-------------------------- MODULE MetricOnce_proofs --------------------------
(***************************************************************************)
(* No event is counted twice: the layer of the inductive invariant of      *)
(* MetricStore that says which record holds which event, and the answers;  *)
(* then all of its layers together, and the refinement of the ledger.      *)
(***************************************************************************)
EXTENDS MetricStore_proofs

USE LabelsAssumption, OriginAssumption, LagAssumption, RunAssumption

LEMMA FolderTasks == \A t \in Folders : t \in Task /\ t # "snapshot"
BY DEF Folders, Task

\* An event has one point, in one of the two classes.
LEMMA OnePoint ==
  ASSUME TimeInv, NEW t \in Folders, NEW u \in Folders,
         NEW p \in Source(t), NEW q \in Source(u), p.id = q.id
  PROVE  t = u /\ p = q
BY DEF TimeInv, OnePointPerEvent, Source, Folders

\* An event that lands is in no record yet.
LEMMA OnceIngest ==
  ASSUME TimeInv, OnceInv, NEW e \in Event, NEW tick \in LandingTicks,
         IngestEvent(e, tick) \/ IngestRepairEvent(e, tick)
  PROVE  OnceInv'
<1>1. /\ UNCHANGED <<Folded, Snapshots, Planned, records, run, master, torn>>
      /\ \A t : Of(t)' = Of(t)
  BY DEF IngestEvent, IngestRepairEvent, Folded, Snapshots, Planned, Of
<1>2. ASSUME NEW t \in Folders
      PROVE  /\ Source(t) \subseteq Source(t)'
             /\ \A p \in Source(t)' : p \in Source(t) \/ p.id \notin Landed
  BY DEF IngestEvent, IngestRepairEvent, Source
<1>3. ASSUME NEW t \in Folders, NEW p \in Source(t)
      PROVE  p.id \in Landed
  BY DEF Source, Landed
<1>4. FoldedContents'
  <2> SUFFICES ASSUME NEW t \in Folders
               PROVE  /\ \A c \in Of(t) \cup run[t].todo :
                           /\ c.twice = {}
                           /\ \A e1 \in c.once :
                                \E p \in Source(t)' :
                                  /\ p.id = e1
                                  /\ p.tick <= c.tick
                                  /\ c.label \in LabelsOf[e1]
                      /\ \A c \in run[t].todo, p \in Source(t)', m \in master[t] :
                           p.id \in c.once => m < p.tick
    BY <1>1 DEF FoldedContents
  <2>1. \A c \in run[t].todo, p \in Source(t)' : p.id \in c.once => p \in Source(t)
    BY <1>2, <1>3 DEF OnceInv, FoldedContents
  <2> QED BY <1>2, <2>1 DEF OnceInv, FoldedContents
<1>5. FoldedClosed' /\ FoldedApart' /\ SnapshotsClosed' /\ SnapshotsOnce'
  BY <1>1 DEF OnceInv, FoldedClosed, FoldedApart, SnapshotsClosed, SnapshotsOnce
<1> QED BY <1>4, <1>5 DEF OnceInv

\* A folding run that begins takes only points past its master records.
LEMMA OnceBegin ==
  ASSUME TimeInv, TimeInv', OnceInv, NEW t \in Folders, NEW end \in Nat,
         NEW P \in SUBSET NewPoints(Source(t), t, end), Ready(t),
         Begin(t, end, {Events(t, end, l, P) : l \in LabelsIn(P)})
  PROVE  OnceInv'
<1> DEFINE todo == {Events(t, end, l, P) : l \in LabelsIn(P)}
<1>0. TypeOK /\ t \in Task /\ t # "snapshot" /\ "snapshot" \in Task
  BY FolderTasks DEF TimeInv, Task
<1>1. /\ run'[t].todo = todo /\ run'[t].active /\ run'[t].end = end
      /\ \A u \in Task : u # t => run'[u] = run[u]
      /\ UNCHANGED <<now, fast, slow, late, records, master, torn>>
  <2>1. Begin(t, end, todo)
    OBVIOUS
  <2> HIDE DEF todo
  <2>2. /\ run'[t] = [active |-> TRUE, since |-> now, end |-> end,
                      wrote |-> {}, todo |-> todo]
        /\ \A u \in Task : u # t => run'[u] = run[u]
        /\ UNCHANGED <<now, fast, slow, late, records, master, torn>>
    BY <1>0, <2>1, BeginEffect
  <2> QED BY <2>2
<1>2. /\ UNCHANGED <<Folded, Snapshots, Planned>>
      /\ \A u : Of(u)' = Of(u) /\ Source(u)' = Source(u)
  BY <1>0, <1>1 DEF Folded, Snapshots, Planned, Of, Source
<1>3. \A m \in master[t] : m < end
  BY <1>0, <1>1 DEF TimeInv, Advance
<1>4. ASSUME NEW c \in todo
      PROVE  /\ c.twice = {}
             /\ \A e \in c.once :
                  \E p \in P : p.id = e /\ p.tick <= c.tick /\ c.label \in LabelsOf[e]
  <2>1. PICK l \in LabelsIn(P) : c = Events(t, end, l, P)
    OBVIOUS
  <2>2. \A p \in P : p.tick <= end
    BY DEF NewPoints
  <2> QED BY <2>1, <2>2 DEF Events
<1>5. ASSUME NEW c \in todo, NEW p \in Source(t), NEW m \in master[t], p.id \in c.once
      PROVE  m < p.tick
  <2>1. PICK q \in P : q.id = p.id
    BY <1>4, <1>5
  <2>2. q \in Source(t) /\ PastMaster(t, q.tick, end)
    BY DEF NewPoints
  <2>3. p = q
    BY <2>1, <2>2, OnePoint
  <2>4. m < end /\ m \in Nat
    BY <1>0, <1>3 DEF TypeOK
  <2> QED BY <2>2, <2>3, <2>4 DEF PastMaster
<1>6. P \subseteq Source(t)
  BY DEF NewPoints
<1> HIDE DEF todo
<1>7. FoldedContents'
  <2>1. ASSUME NEW u \in Folders, u = t
        PROVE  /\ \A c \in Of(u) \cup todo :
                    /\ c.twice = {}
                    /\ \A e \in c.once :
                         \E p \in Source(u) :
                           p.id = e /\ p.tick <= c.tick /\ c.label \in LabelsOf[e]
               /\ \A c \in todo, p \in Source(u), m \in master[u] :
                    p.id \in c.once => m < p.tick
    BY <1>4, <1>5, <1>6, <2>1 DEF OnceInv, FoldedContents
  <2> QED BY <1>1, <1>2, <2>1, FolderTasks DEF OnceInv, FoldedContents
<1>8. ~run[t].active
  BY DEF Ready
<1>9. FoldedClosed'
  <2>1. \A c \in Folded : c.kind \in Folders
    BY DEF Folded, Of, Folders
  <2> QED BY <1>1, <1>2, <1>8, <2>1, FolderTasks DEF OnceInv, FoldedClosed
<1>10. FoldedApart' /\ SnapshotsClosed' /\ SnapshotsOnce'
  BY <1>0, <1>1, <1>2 DEF OnceInv, FoldedApart, SnapshotsClosed, SnapshotsOnce
<1> QED BY <1>7, <1>9, <1>10 DEF OnceInv

\* The record a folding run writes shares no event with the ones before it.
LEMMA OnceFold ==
  ASSUME TimeInv, OnceInv, NEW t \in Folders, NEW r \in run[t].todo, WriteRecord(t, r)
  PROVE  OnceInv'
<1>0. TypeOK /\ t \in Task /\ t # "snapshot" /\ "snapshot" \in Task
  BY FolderTasks DEF TimeInv, Task
<1>1. r.kind = t /\ r.tick = run[t].end /\ r.label \notin run[t].wrote
  BY <1>0 DEF TimeInv, RunShape
<1>2. records' = records \cup {r}
  BY WriteAdds
<1>3. /\ run'[t].active
      /\ run'[t].end = run[t].end
      /\ run'[t].wrote = run[t].wrote \cup {r.label}
      /\ run'[t].todo = run[t].todo \ {r}
      /\ \A u \in Task : u # t => run'[u] = run[u]
      /\ UNCHANGED <<fast, slow, master, torn>>
  BY <1>0, WriteEffect
<1>4. /\ Of(t)' = Of(t) \cup {r}
      /\ \A u : u # t => Of(u)' = Of(u)
      /\ \A u : Source(u)' = Source(u)
      /\ Folded' = Folded \cup {r}
      /\ UNCHANGED <<Snapshots, Planned>>
  <2>1. /\ Of(t)' = Of(t) \cup {r}
        /\ \A u : u # t => Of(u)' = Of(u)
    BY <1>1, <1>2 DEF Of
  <2> QED BY <1>0, <1>3, <2>1 DEF Folded, Snapshots, Planned, Source, Folders
<1>5. FoldedContents'
  <2>1. ASSUME NEW u \in Folders
        PROVE  /\ Of(u)' \cup run'[u].todo \subseteq Of(u) \cup run[u].todo
               /\ run'[u].todo \subseteq run[u].todo
               /\ Source(u)' = Source(u)
               /\ master'[u] = master[u]
    BY <1>3, <1>4, FolderTasks
  <2> QED BY <2>1 DEF OnceInv, FoldedContents
<1>6. FoldedClosed'
  <2>1. \A c \in Folded : c.kind \in Folders
    BY DEF Folded, Of, Folders
  <2>2. ASSUME NEW c \in Folded', c.label \notin torn
        PROVE  \/ c.tick \in master[c.kind]
               \/ /\ run'[c.kind].active
                  /\ c.label \in run'[c.kind].wrote
                  /\ c.tick = run'[c.kind].end
    <3>1. CASE c = r
      BY <1>1, <1>3, <3>1
    <3>2. CASE c # r
      BY <1>3, <1>4, <2>1, <2>2, <3>2, FolderTasks DEF OnceInv, FoldedClosed
    <3> QED BY <3>1, <3>2
  <2> QED BY <1>3, <2>2 DEF FoldedClosed
<1>7. FoldedApart'
  <2>1. ASSUME NEW d \in Folded, d.label = r.label, r.label \notin torn,
               NEW e \in r.once, e \in d.once
        PROVE  FALSE
    <3>1. d.kind \in Folders /\ d \in Of(d.kind)
      BY DEF Folded, Of, Folders
    <3>2. PICK p \in Source(t) : p.id = e /\ p.tick <= r.tick
      BY <2>1 DEF OnceInv, FoldedContents
    <3>3. PICK q \in Source(d.kind) : q.id = e /\ q.tick <= d.tick
      BY <2>1, <3>1 DEF OnceInv, FoldedContents
    <3>4. d.kind = t /\ p = q
      BY <3>1, <3>2, <3>3, OnePoint
    <3>5. d.tick \in master[t]
      BY <1>1, <2>1, <3>4 DEF OnceInv, FoldedClosed
    <3>6. d.tick < p.tick
      BY <2>1, <3>2, <3>5 DEF OnceInv, FoldedContents
    <3>7. d.tick \in Nat /\ p.tick \in Nat
      <4>1. d \in Record /\ p \in Point
        BY <1>0, <3>1, SourceType DEF TypeOK, Of
      <4> QED BY <4>1 DEF Record, Point
    <3> QED BY <3>3, <3>4, <3>6, <3>7
  <2> QED BY <1>3, <1>4, <2>1 DEF OnceInv, FoldedApart
<1>8. SnapshotsClosed' /\ SnapshotsOnce'
  BY <1>0, <1>3, <1>4 DEF OnceInv, SnapshotsClosed, SnapshotsOnce
<1> QED BY <1>5, <1>6, <1>7, <1>8 DEF OnceInv

\* Snapshots fold what earlier snapshots hold, and records past them.
LEMMA OnceSnapshot ==
  ASSUME TimeInv, TimeInv', SnapshotInv, OnceInv, CreateSnapshot
  PROVE  OnceInv'
<1>0. TypeOK /\ "snapshot" \in Task
  BY DEF TimeInv, Task
<1> DEFINE limit == now - SnapshotLag
           R(l, end) == Latest(Upto("snapshot", l, end)) \cup NewRecords(l, end)
<1>1. PICK end \in SnapshotEnds(limit), todo \in SUBSET Record :
        /\ end \in Nat
        /\ Begin("snapshot", end, todo)
        /\ todo = {Sum("snapshot", end, l, R(l, end)) :
                     l \in {k \in Label : NewRecords(k, end) # {}}}
  BY <1>0, SnapshotBegins
<1>2. /\ run'["snapshot"].todo = todo
      /\ \A u \in Task : u # "snapshot" => run'[u] = run[u]
      /\ UNCHANGED <<fast, slow, records, master, torn>>
  <2>1. Begin("snapshot", end, todo)
    BY <1>1
  <2> HIDE DEF R
  <2>2. /\ run'["snapshot"] = [active |-> TRUE, since |-> now, end |-> end,
                               wrote |-> {}, todo |-> todo]
        /\ \A u \in Task : u # "snapshot" => run'[u] = run[u]
        /\ UNCHANGED <<now, fast, slow, late, records, master, torn>>
    BY <1>0, <2>1, BeginEffect
  <2> QED BY <2>2
<1>3. /\ UNCHANGED <<Folded, Snapshots>>
      /\ Planned' = todo
      /\ \A u : Of(u)' = Of(u) /\ Source(u)' = Source(u)
  BY <1>2 DEF Folded, Snapshots, Planned, Of, Source
<1>4. ~run["snapshot"].active
  BY <1>0, SnapshotBegins DEF Ready
<1>5. ASSUME NEW l \in Label, NEW r \in R(l, end)
      PROVE  \/ /\ r \in Folded
                /\ r.label = l
                /\ \A m \in master["snapshot"] : m <= limit => m < r.tick
             \/ /\ r \in Snapshots
                /\ r.label = l
                /\ \A s \in Latest(Upto("snapshot", l, end)) : s.tick <= r.tick
  BY <1>5 DEF Latest, Upto, NewRecords, PastMaster, Folded, Snapshots, Of
<1>6. \A r \in Folded \cup Snapshots : r \in Record /\ r.tick \in Nat
  BY <1>0 DEF TypeOK, Record, Folded, Snapshots, Of
<1> HIDE DEF R
\* A folded record and a snapshot of one sum share no event.
<1>7. ASSUME NEW l \in Label \ torn, NEW x \in R(l, end), NEW c \in R(l, end),
             x \in Snapshots, c \in Folded, NEW e \in x.once, e \in c.once
      PROVE  FALSE
  <2>1. /\ x.label = l /\ c.label = l
        /\ \A m \in master["snapshot"] : m <= limit => m < c.tick
    BY <1>5, <1>7 DEF Folded, Snapshots, Of
  <2>2. PICK d \in Folded : d.label = x.label /\ d.tick <= x.tick /\ e \in d.once
    BY <1>7 DEF SnapshotInv, SnapshotsInvent
  <2>3. d = c
    BY <1>7, <2>1, <2>2 DEF OnceInv, FoldedApart
  <2>4. PICK m \in master["snapshot"] : x.tick <= m
    BY <1>4, <1>7, <2>1 DEF OnceInv, SnapshotsClosed
  <2>5. m \in Nat /\ m + SnapshotLag <= now /\ now \in Nat
    BY <1>0, LagValues DEF TimeInv, RecordClock, TypeOK
  <2>6. m < c.tick
    BY <2>1, <2>5 DEF limit
  <2> QED BY <1>6, <1>7, <2>2, <2>3, <2>4, <2>5, <2>6
<1>8. ASSUME NEW l \in Label \ torn, NEW x \in R(l, end), NEW y \in R(l, end),
             x # y, NEW e \in x.once, e \in y.once
      PROVE  FALSE
  <2>1. CASE x \in Folded /\ y \in Folded
    BY <1>5, <1>8, <2>1 DEF OnceInv, FoldedApart, Folded, Snapshots, Of
  <2>2. CASE x \in Snapshots /\ y \in Snapshots
    <3>1. x \in Latest(Upto("snapshot", l, end)) /\ y \in Latest(Upto("snapshot", l, end))
      BY <2>2 DEF R, NewRecords, Upto, Snapshots, Of
    <3>2. SameCell(x, y)
      BY <1>6, <2>2, <3>1 DEF Latest, Upto, SameCell, Snapshots, Of
    <3> QED BY <1>8, <2>2, <3>2 DEF TimeInv, OneValuePerCell, Snapshots, Of
  <2> QED BY <1>5, <1>7, <1>8, <2>1, <2>2
<1>9. ASSUME NEW p \in todo, p.label \notin torn
      PROVE  p.twice = {}
  <2>1. PICK l \in Label : p = Sum("snapshot", end, l, R(l, end))
    BY <1>1
  <2>2. p.twice = Twice(R(l, end)) /\ l \notin torn
    BY <1>9, <2>1, SumFields
  <2>3. ASSUME NEW r \in R(l, end)
        PROVE  r.twice = {}
    <3>1. CASE r \in Folded
      <4>1. PICK t \in Folders : r \in Of(t)
        BY <3>1 DEF Folded, Folders
      <4> QED BY <4>1 DEF OnceInv, FoldedContents
    <3>2. CASE r \in Snapshots /\ r.label = l
      BY <2>2, <3>2 DEF OnceInv, SnapshotsOnce
    <3> QED BY <1>5, <3>1, <3>2
  <2>4. Twice(R(l, end)) = {}
    BY <1>8, <2>2, <2>3 DEF Twice
  <2> QED BY <2>2, <2>4
<1>10. FoldedContents'
  BY <1>2, <1>3, FolderTasks DEF OnceInv, FoldedContents
<1>11. FoldedClosed' /\ FoldedApart'
  <2>1. \A c \in Folded : c.kind \in Folders
    BY DEF Folded, Of, Folders
  <2> QED BY <1>2, <1>3, <2>1, FolderTasks DEF OnceInv, FoldedClosed, FoldedApart
<1>12. SnapshotsClosed'
  BY <1>2, <1>3, <1>4 DEF OnceInv, SnapshotsClosed
<1>13. SnapshotsOnce'
  BY <1>2, <1>3, <1>9 DEF OnceInv, SnapshotsOnce
<1> QED BY <1>10, <1>11, <1>12, <1>13 DEF OnceInv

LEMMA OnceSnapshotWrite ==
  ASSUME TimeInv, OnceInv, NEW r \in run["snapshot"].todo, WriteRecord("snapshot", r)
  PROVE  OnceInv'
<1>0. TypeOK /\ "snapshot" \in Task
  BY DEF TimeInv, Task
<1>1. r.kind = "snapshot" /\ r.tick = run["snapshot"].end /\ r.tick \in Nat
  BY <1>0 DEF TimeInv, RunShape, TypeOK, Run
<1>2. /\ run'["snapshot"].active
      /\ run'["snapshot"].end = run["snapshot"].end
      /\ run'["snapshot"].wrote = run["snapshot"].wrote \cup {r.label}
      /\ run'["snapshot"].todo = run["snapshot"].todo \ {r}
      /\ \A u \in Task : u # "snapshot" => run'[u] = run[u]
      /\ UNCHANGED <<fast, slow, master, torn>>
  BY <1>0, WriteEffect
<1>3. /\ Snapshots' \subseteq Snapshots \cup {r}
      /\ \A t \in Folders : Of(t)' = Of(t) /\ Source(t)' = Source(t)
      /\ Folded' = Folded
      /\ Planned' \subseteq Planned /\ r \in Planned
  BY <1>1, <1>2 DEF WriteRecord, SameCell, Folded, Snapshots, Planned, Of, Source, Folders
<1>4. FoldedContents'
  BY <1>2, <1>3, FolderTasks DEF OnceInv, FoldedContents
<1>5. FoldedClosed' /\ FoldedApart'
  <2>1. \A c \in Folded : c.kind \in Folders
    BY DEF Folded, Of, Folders
  <2> QED BY <1>2, <1>3, <2>1, FolderTasks DEF OnceInv, FoldedClosed, FoldedApart
<1>6. SnapshotsClosed'
  BY <1>1, <1>2, <1>3 DEF OnceInv, SnapshotsClosed
<1>7. SnapshotsOnce'
  BY <1>2, <1>3 DEF OnceInv, SnapshotsOnce
<1> QED BY <1>4, <1>5, <1>6, <1>7 DEF OnceInv

\* A run that ends covers what it wrote by its master record; one that dies
\* leaves its labels torn.
LEMMA OnceEnd ==
  ASSUME TimeInv, OnceInv, NEW t \in Task, WriteMaster(t) \/ Abort(t)
  PROVE  OnceInv'
<1>0. TypeOK /\ "snapshot" \in Task
  BY DEF TimeInv, Task
<1>1. /\ run[t].active
      /\ ~run'[t].active /\ run'[t].todo = {}
      /\ \A u \in Task : u # t => run'[u] = run[u]
      /\ UNCHANGED <<fast, slow, records>>
  <2>1. End(t)
    BY DEF WriteMaster, Abort
  <2> QED BY <1>0, <2>1, EndEffect DEF WriteMaster, Abort
<1>2. /\ UNCHANGED <<Folded, Snapshots>>
      /\ Planned' \subseteq Planned
      /\ \A u : Of(u)' = Of(u) /\ Source(u)' = Source(u)
  BY <1>0, <1>1 DEF Folded, Snapshots, Planned, Of, Source
<1>3. /\ \A u \in Task : u # t => master'[u] = master[u]
      /\ \A u \in Task : master[u] \subseteq master'[u]
      /\ torn \subseteq torn'
      /\ run[t].end \in master'[t] \/ run[t].wrote \subseteq torn'
  BY <1>0 DEF WriteMaster, Abort, TypeOK
<1>4. FoldedContents'
  BY <1>1, <1>2, <1>3, FolderTasks DEF OnceInv, FoldedContents
<1>5. FoldedClosed'
  <2>1. ASSUME NEW c \in Folded, c.label \notin torn'
        PROVE  \/ c.tick \in master'[c.kind]
               \/ /\ run'[c.kind].active
                  /\ c.label \in run'[c.kind].wrote
                  /\ c.tick = run'[c.kind].end
    <3>1. c.kind \in Task
      BY FolderTasks DEF Folded, Of, Folders
    <3>2. c.label \notin torn
      BY <1>3, <2>1
    <3>3. CASE c.tick \in master[c.kind]
      BY <1>3, <3>1, <3>3
    <3>4. CASE /\ run[c.kind].active
               /\ c.label \in run[c.kind].wrote
               /\ c.tick = run[c.kind].end
      BY <1>1, <1>3, <2>1, <3>1, <3>4
    <3> QED BY <2>1, <3>2, <3>3, <3>4 DEF OnceInv, FoldedClosed
  <2> QED BY <1>2, <2>1 DEF FoldedClosed
<1>6. FoldedApart' /\ SnapshotsOnce'
  BY <1>2, <1>3 DEF OnceInv, FoldedApart, SnapshotsOnce
<1>7. SnapshotsClosed'
  <2>1. CASE t = "snapshot"
    BY <1>1, <1>2, <1>3, <2>1 DEF OnceInv, SnapshotsClosed
  <2>2. CASE t # "snapshot"
    BY <1>0, <1>1, <1>2, <1>3, <2>2 DEF OnceInv, SnapshotsClosed
  <2> QED BY <2>1, <2>2
<1> QED BY <1>4, <1>5, <1>6, <1>7 DEF OnceInv

LEMMA OnceNext == TimeInv /\ TimeInv' /\ SnapshotInv /\ OnceInv /\ [Next]_vars => OnceInv'
<1> SUFFICES ASSUME TimeInv, TimeInv', SnapshotInv, OnceInv, [Next]_vars
             PROVE  OnceInv'
  OBVIOUS
<1>0. TypeOK
  BY DEF TimeInv
<1>1. CASE Ingest
  BY <1>1, OnceIngest DEF Ingest
<1>2. CASE CreateCheckpoint
  <2> DEFINE end == now - CheckpointLag
             P == NewPoints(Source("checkpoint"), "checkpoint", end)
  <2>1. Source("checkpoint") = fast /\ "checkpoint" \in Folders
    BY DEF Source, Folders
  <2>2. /\ end \in Nat
        /\ Ready("checkpoint")
        /\ Begin("checkpoint", end, {Events("checkpoint", end, l, P) : l \in LabelsIn(P)})
    BY <1>0, <1>2, <2>1, CheckpointBegins
  <2>3. P \in SUBSET NewPoints(Source("checkpoint"), "checkpoint", end)
    OBVIOUS
  <2> HIDE DEF end, P
  <2> QED BY <2>1, <2>2, <2>3, OnceBegin
<1>3. CASE RepairRecords
  <2> DEFINE end == now - RepairLag
  <2>1. Source("repair") = slow /\ "repair" \in Folders
    BY DEF Source, Folders
  <2>2. PICK P \in SUBSET NewPoints(Source("repair"), "repair", end) :
          Begin("repair", end, {Events("repair", end, l, P) : l \in LabelsIn(P)})
    BY <1>0, <1>3, <2>1, RepairBegins
  <2>3. end \in Nat /\ Ready("repair")
    BY <1>0, <1>3, RepairBegins
  <2> HIDE DEF end
  <2> QED BY <2>1, <2>2, <2>3, OnceBegin
<1>4. CASE CreateSnapshot
  BY <1>4, OnceSnapshot
<1>5. ASSUME NEW t \in Task, Execute(t) \/ Abort(t)
      PROVE  OnceInv'
  <2>1. CASE \E r \in run[t].todo : WriteRecord(t, r)
    <3>1. t = "snapshot" \/ t \in Folders
      BY DEF Task, Folders
    <3> QED BY <2>1, <3>1, OnceFold, OnceSnapshotWrite
  <2>2. CASE WriteMaster(t) \/ Abort(t)
    BY <2>2, OnceEnd
  <2> QED BY <1>5, <2>1, <2>2 DEF Execute
<1>6. CASE ClockTick \/ UNCHANGED vars
  BY <1>6
  DEF ClockTick, vars, OnceInv, FoldedContents, FoldedClosed, FoldedApart,
      SnapshotsClosed, SnapshotsOnce, Folded, Snapshots, Planned, Of, Source
<1> QED BY <1>1, <1>2, <1>3, <1>4, <1>5, <1>6 DEF Next

LEMMA OnceInit == Init => OnceInv
<1> SUFFICES ASSUME Init PROVE OnceInv
  OBVIOUS
<1>1. Folded = {} /\ Snapshots = {} /\ Planned = {} /\ \A t : Of(t) = {}
  BY DEF Init, Folded, Snapshots, Of, Planned, Idle, Task
<1>2. \A t \in Folders : run[t].todo = {}
  BY FolderTasks DEF Init, Idle
<1> QED
  BY <1>1, <1>2
  DEF OnceInv, FoldedContents, FoldedClosed, FoldedApart, SnapshotsClosed, SnapshotsOnce

\* What a folding record holds it holds once, and shares with no other record
\* of its label, unless a run died on that label (createCheckpoint.mc2,
\* repairRecords.mc2, createSnapshot.mc2).
THEOREM OnceCorrect == Spec => []OnceInv
BY TimeCorrect, SnapshotCorrect, OnceInit, OnceNext, PTL DEF Spec
-----------------------------------------------------------------------------
(***************************************************************************)
(* The answers.                                                            *)
(***************************************************************************)
\* What an answer holds besides the events themselves comes from a record.
LEMMA AnswerParts ==
  ASSUME TypeOK, SnapshotInv, NEW l \in Label, NEW end \in Nat,
         NEW r \in getMetricsAt(l, end)
  PROVE  \/ r \in Folded /\ r.label = l /\ r.tick <= end
         \/ r \in Latest(Upto("snapshot", l, end))
         \/ r = Events("event", end, l, NewPoints(fast, "checkpoint", end))
BY DEF getMetricsAt, SinceSnapshot, Upto, Folded, Of

LEMMA AnswersOnce ==
  ASSUME TimeInv, SnapshotInv, OnceInv, NEW l \in Label \ torn, NEW end \in Nat,
         NEW e \in CountedTwice(l, end)
  PROVE  /\ run["checkpoint"].active
         /\ l \in run["checkpoint"].wrote
         /\ run["checkpoint"].end <= end
<1> DEFINE U == Latest(Upto("snapshot", l, end))
           P == NewPoints(fast, "checkpoint", end)
           E == Events("event", end, l, P)
           A == getMetricsAt(l, end)
<1>0. TypeOK
  BY DEF TimeInv
<1>1. \A r \in Folded \cup Snapshots : r.tick \in Nat
  BY <1>0 DEF TypeOK, Record, Folded, Snapshots, Of
<1>2. \A x \in U : x \in Snapshots /\ x.label = l /\ x.tick <= end
  BY DEF Latest, Upto, Snapshots, Of
<1>3. \A r \in A : (r \in Folded /\ r.label = l /\ r.tick <= end) \/ r \in U \/ r = E
  BY <1>0, AnswerParts
\* Whatever counts an event of a record was folded up to its tick.
<1>4. ASSUME NEW r \in A, r # E, NEW f \in r.once
      PROVE  \E d \in Folded : /\ d.label = l /\ d.tick <= end /\ f \in d.once
                               /\ r \in U => d.tick <= r.tick
                               /\ r \notin U => d = r
  <2>1. CASE r \in U
    <3>1. PICK d \in Folded : d.label = r.label /\ d.tick <= r.tick /\ f \in d.once
      BY <1>2, <1>4, <2>1 DEF SnapshotInv, SnapshotsInvent
    <3>2. d.tick <= end
      BY <1>1, <1>2, <2>1, <3>1
    <3> QED BY <1>2, <2>1, <3>1, <3>2
  <2>2. CASE r \notin U
    BY <1>3, <1>4, <2>2
  <2> QED BY <2>1, <2>2
<1>5. ASSUME NEW r \in A
      PROVE  r.twice = {}
  <2>1. CASE r \in Folded
    <3>1. PICK t \in Folders : r \in Of(t)
      BY <2>1 DEF Folded, Folders
    <3> QED BY <3>1 DEF OnceInv, FoldedContents
  <2>2. CASE r \in U
    BY <1>2, <2>2 DEF OnceInv, SnapshotsOnce
  <2>3. CASE r = E
    BY <2>3, EventsFields
  <2> QED BY <1>3, <2>1, <2>2, <2>3
<1>6. PICK r \in A, s \in A : r # s /\ e \in r.once /\ e \in s.once
  BY <1>5 DEF CountedTwice, Twice
\* Two records never meet, so one of the two is the sum of the events.
<1>7. ASSUME NEW x \in A, NEW y \in A, x # E, y # E, x # y, e \in x.once, e \in y.once
      PROVE  FALSE
  <2>1. CASE x \in U /\ y \in U
    <3>1. SameCell(x, y)
      BY <1>1, <1>2, <2>1 DEF Latest, Upto, SameCell
    <3> QED BY <1>2, <1>7, <2>1, <3>1 DEF TimeInv, OneValuePerCell, Snapshots, Of
  <2>2. ASSUME NEW u \in U, NEW c \in A, u \in A, c \notin U, c # E, u # E,
               e \in u.once, e \in c.once
        PROVE  FALSE
    <3>1. PICK d \in Folded : d.label = l /\ d.tick <= u.tick /\ e \in d.once
      BY <1>4, <2>2
    <3>2. c \in Folded /\ c.label = l
      BY <1>3, <2>2
    <3>3. d = c
      BY <2>2, <3>1, <3>2 DEF OnceInv, FoldedApart
    <3>4. u.tick < c.tick
      BY <2>2 DEF getMetricsAt, SinceSnapshot, Latest
    <3> QED BY <1>1, <1>2, <3>1, <3>2, <3>3, <3>4
  <2>3. CASE x \notin U /\ y \notin U
    BY <1>3, <1>7, <2>3 DEF OnceInv, FoldedApart
  <2> QED BY <1>7, <2>1, <2>2, <2>3
<1>8. PICK d \in Folded : d.label = l /\ d.tick <= end /\ e \in d.once
  BY <1>4, <1>6, <1>7
<1>9. PICK p \in P : p.id = e /\ l \in LabelsOf[e]
  <2>1. e \in E.once
    BY <1>6, <1>7
  <2> QED BY <2>1 DEF Events
<1>10. /\ p \in Source("checkpoint")
       /\ p.tick \in Nat
       /\ \A m \in master["checkpoint"] : m <= end => m < p.tick
  BY <1>0 DEF NewPoints, PastMaster, Source, TypeOK, Point
<1>11. d.kind \in Folders /\ d \in Of(d.kind) /\ "checkpoint" \in Folders
  BY DEF Folded, Of, Folders
<1>12. PICK q \in Source(d.kind) : q.id = e /\ q.tick <= d.tick
  BY <1>8, <1>11 DEF OnceInv, FoldedContents
<1>13. d.kind = "checkpoint" /\ q = p
  BY <1>9, <1>10, <1>11, <1>12, OnePoint
<1>14. d.tick \notin master["checkpoint"]
  BY <1>1, <1>8, <1>10, <1>12, <1>13
<1> QED BY <1>8, <1>13, <1>14 DEF OnceInv, FoldedClosed

\* An event counts once in the answers about a label no run died on, but for a
\* checkpoint whose run has yet to write its master record.
THEOREM NothingCountedTwiceCorrect == Spec => []NothingCountedTwice
<1>1. TimeInv /\ SnapshotInv /\ OnceInv => NothingCountedTwice
  BY AnswersOnce DEF NothingCountedTwice, Instants
<1> QED BY <1>1, TimeCorrect, SnapshotCorrect, OnceCorrect, PTL
-----------------------------------------------------------------------------
(***************************************************************************)
(* The layers together.                                                    *)
(***************************************************************************)
LEMMA LatestExistsHereToo == LatestExists => LatestExistsHere
BY DEF LatestExists, LatestExistsHere, Instants

\* The inductive invariant holds for any instance, and with it the answers that
\* survive runs that die.
THEOREM InductiveCorrect == SingleOrigin => (Spec => []Inductive)
<1> SUFFICES ASSUME SingleOrigin
             PROVE  Spec => []Inductive
  OBVIOUS
<1>1. TimeInv /\ FastKept /\ SlowKept /\ SnapshotInv /\ OnceInv
        /\ NothingLost /\ RepairsCounted /\ NothingCountedTwice => Inductive
  BY LatestExistsHereToo DEF SnapshotInv, Inductive
<1>2. SingleOrigin
  OBVIOUS
<1> QED
  BY <1>1, <1>2, TimeCorrect, FastKeptCorrect, SlowKeptCorrect, SnapshotCorrect, OnceCorrect,
     NothingLostCorrect, RepairsCountedCorrect, NothingCountedTwiceCorrect, PTL
-----------------------------------------------------------------------------
(***************************************************************************)
(* MetricStore implements MetricLedger: checkpoints, snapshots, their      *)
(* master records and runs that die are invisible to a query about the     *)
(* present.                                                                *)
(***************************************************************************)
\* What a query counts, said without checkpoints, snapshots and master records:
\* the events in time, and the corrected ones.
SeenAt(l, end) ==
  {e \in Event \ late :
     \/ \E p \in fast : p.id = e /\ p.tick <= end /\ l \in LabelsOf[e]
     \/ \E c \in Of("repair") : c.label = l /\ c.tick <= end /\ e \in c.once}

\* The same of a query about the present.
Seen(l) ==
  {e \in Event \ late :
     \/ \E p \in fast : p.id = e /\ l \in LabelsOf[e]
     \/ \E c \in Of("repair") : c.label = l /\ e \in c.once}

StoreInv == TypeOK /\ TimeInv /\ FastKept /\ SnapshotInv /\ OnceInv

THEOREM StoreInvCorrect == Spec => []StoreInv
<1>1. TypeOK /\ TimeInv /\ FastKept /\ SnapshotInv /\ OnceInv => StoreInv
  BY DEF StoreInv
<1> QED
  BY <1>1, TypeCorrect, TimeCorrect, FastKeptCorrect, SnapshotCorrect, OnceCorrect, PTL

LEMMA CountedSeen ==
  ASSUME StoreInv, NEW l \in Label, NEW end \in Nat
  PROVE  Counted(l, end) \ late = SeenAt(l, end)
<1> USE DEF StoreInv
<1> DEFINE P == NewPoints(fast, "checkpoint", end)
           E == Events("event", end, l, P)
<1>1. /\ \A p \in fast : p.id \in Event /\ p.tick \in Nat
      /\ \A c \in records : c \in Record /\ c.tick \in Nat /\ c.once \subseteq Event
      /\ \A m \in master["checkpoint"] : m \in Nat
  BY DEF TypeOK, Point, Record, Task
<1>2. Counted(l, end) = Once(WithoutSnapshots(l, end))
  BY AnswersAlike
<1>3. ASSUME NEW e \in Counted(l, end), e \notin late
      PROVE  e \in SeenAt(l, end)
  <2>1. PICK c \in WithoutSnapshots(l, end) : e \in c.once
    BY <1>2 DEF Once
  <2>2. CASE c \in Upto("repair", l, end)
    BY <1>1, <1>3, <2>1, <2>2 DEF SeenAt, Upto, Of
  <2>3. CASE c \in Upto("checkpoint", l, end)
    <3>1. c \in Of("checkpoint") /\ c.label = l /\ c.tick <= end /\ "checkpoint" \in Folders
      BY <2>3 DEF Upto, Of, Folders
    <3>2. \E p \in fast : p.id = e /\ p.tick <= c.tick /\ l \in LabelsOf[e]
      BY <2>1, <3>1 DEF OnceInv, FoldedContents, Source
    <3>3. c.tick \in Nat
      BY <1>1, <3>1 DEF Of
    <3>4. \E p \in fast : p.id = e /\ p.tick <= end /\ l \in LabelsOf[e]
      BY <1>1, <3>1, <3>2, <3>3
    <3> QED BY <1>1, <1>3, <3>4 DEF SeenAt
  <2>4. CASE c = E
    <3>1. \E p \in fast : p.id = e /\ p.tick <= end /\ l \in LabelsOf[e]
      BY <2>1, <2>4 DEF Events, NewPoints
    <3> QED BY <1>1, <1>3, <3>1 DEF SeenAt
  <2> QED BY <2>1, <2>2, <2>3, <2>4 DEF WithoutSnapshots
<1>4. ASSUME NEW e \in SeenAt(l, end)
      PROVE  e \in Counted(l, end) /\ e \notin late
  <2>1. CASE \E c \in Of("repair") : c.label = l /\ c.tick <= end /\ e \in c.once
    <3>1. PICK c \in Of("repair") : c.label = l /\ c.tick <= end /\ e \in c.once
      BY <2>1
    <3>2. c \in Upto("repair", l, end)
      BY <3>1 DEF Of, Upto
    <3> QED BY <1>2, <1>4, <3>1, <3>2 DEF SeenAt, WithoutSnapshots, Once
  <2>2. CASE \E p \in fast : p.id = e /\ p.tick <= end /\ l \in LabelsOf[e]
    <3>1. PICK p \in fast : p.id = e /\ p.tick <= end /\ l \in LabelsOf[e]
      BY <2>2
    <3>2. e \notin late
      BY <1>4 DEF SeenAt
    <3>3. CASE p \in P
      <4>1. e \in E.once
        BY <3>1, <3>3 DEF Events
      <4> QED BY <1>2, <3>2, <4>1 DEF WithoutSnapshots, Once
    <3>4. CASE p \notin P
      <4>1. PICK m \in master["checkpoint"] : m <= end /\ ~(m < p.tick)
        BY <1>1, <3>1, <3>4 DEF NewPoints, PastMaster
      <4>2. p.tick <= m
        BY <1>1, <3>1, <4>1
      <4>3. PICK c \in Of("checkpoint") : c.label = l /\ c.tick <= m /\ e \in c.once
        BY <3>1, <3>2, <4>2 DEF FastKept, Kept, KeptByMasters, Source
      <4>4. c.tick \in Nat
        BY <1>1 DEF Of
      <4>5. c \in Upto("checkpoint", l, end)
        BY <1>1, <4>1, <4>3, <4>4 DEF Of, Upto
      <4> QED BY <1>2, <3>2, <4>3, <4>5 DEF WithoutSnapshots, Once
    <3> QED BY <3>3, <3>4
  <2> QED BY <1>4, <2>1, <2>2 DEF SeenAt
<1> QED BY <1>3, <1>4

LEMMA AnswerSeen ==
  ASSUME StoreInv, NEW l \in Label
  PROVE  Counted(l, now) \ late = Seen(l)
<1>1. TypeOK /\ TimeInv
  BY DEF StoreInv
<1>2. now \in Nat
  BY <1>1 DEF TypeOK
<1>3. ASSUME NEW c \in Of("repair")
      PROVE  c.tick <= now
  <2>1. c.tick + RepairLag <= now
    BY <1>1, LagValues DEF TimeInv, RecordClock, Of
  <2>2. c.tick \in Nat
    BY <1>1 DEF TypeOK, Record, Of
  <2> QED BY <1>2, <2>1, <2>2
<1>4. \A p \in fast : p.tick <= now
  BY <1>1 DEF TimeInv, OnePointPerEvent
<1>5. SeenAt(l, now) = Seen(l)
  BY <1>3, <1>4 DEF SeenAt, Seen
<1> QED BY <1>2, <1>5, CountedSeen

LEMMA AnswerIsSeen == StoreInv => Answer = [l \in Label |-> Seen(l)]
BY AnswerSeen DEF Answer

LEMMA AnswerIsSeenNext == StoreInv' => Answer' = [l \in Label |-> Seen(l)']
<1>1. (StoreInv => Answer = [l \in Label |-> Seen(l)])'
  BY AnswerIsSeen, PTL
<1> QED BY <1>1

\* An event is seen once it has landed: not before.
LEMMA SeenLanded ==
  ASSUME StoreInv, NEW l \in Label
  PROVE  Seen(l) \subseteq Landed
<1>1. ASSUME NEW c \in Of("repair"), NEW e \in c.once
      PROVE  e \in Landed
  <2>1. "repair" \in Folders
    BY DEF Folders
  <2>2. \E p \in slow : p.id = e
    BY <1>1, <2>1 DEF StoreInv, OnceInv, FoldedContents, Source
  <2> QED BY <2>2 DEF Landed
<1> QED BY <1>1 DEF Seen, Landed

\* The ledger sees a step by what it does to the points and the corrections.
LEMMA Invisible ==
  ASSUME StoreInv, StoreInv', UNCHANGED <<fast, slow, late, Of("repair")>>
  PROVE  UNCHANGED Ledger!vars
<1>1. \A l : Seen(l)' = Seen(l)
  BY DEF Seen
<1>2. Answer' = Answer
  BY <1>1, AnswerIsSeen, AnswerIsSeenNext
<1> QED BY <1>2 DEF Ledger!vars

\* A point adds its event.
LEMMA PointAdds ==
  ASSUME NEW P, NEW Q, NEW e, NEW tick, Q = P \cup {[id |-> e, tick |-> tick]}
  PROVE  {p.id : p \in Q} = {p.id : p \in P} \cup {e}
<1>1. PICK x : x = [id |-> e, tick |-> tick]
  OBVIOUS
<1>2. Q = P \cup {x} /\ x.id = e
  BY <1>1
<1> QED BY <1>2

LEMMA LedgerIngest ==
  ASSUME StoreInv, StoreInv', NEW e \in Event, NEW tick \in LandingTicks,
         IngestEvent(e, tick) \/ IngestRepairEvent(e, tick)
  PROVE  [Ledger!Next]_(Ledger!vars)
<1>1. e \notin Landed /\ Of("repair")' = Of("repair")
  BY DEF IngestEvent, IngestRepairEvent, Of
<1>2. \A l \in Label : e \notin Seen(l)
  BY <1>1, SeenLanded
<1>3. CASE e \in late'
  <2>1. late' = late \cup {e}
    BY <1>3 DEF IngestEvent, IngestRepairEvent
  <2>2. ASSUME NEW l \in Label
        PROVE  Seen(l)' = Seen(l)
    <3>1. Seen(l)' \subseteq Seen(l)
      BY <1>1, <2>1 DEF Seen, IngestEvent, IngestRepairEvent
    <3>2. Seen(l) \subseteq Seen(l)'
      BY <1>1, <1>2, <2>1 DEF Seen, IngestEvent, IngestRepairEvent
    <3> QED BY <3>1, <3>2
  <2>3. Answer' = Answer
    BY <2>2, AnswerIsSeen, AnswerIsSeenNext
  <2>4. CASE IngestEvent(e, tick)
    BY <2>3, <2>4 DEF IngestEvent, Ledger!vars
  <2>5. CASE IngestRepairEvent(e, tick)
    <3>1. {p.id : p \in slow'} = {p.id : p \in slow} \cup {e}
      BY <2>5, PointAdds DEF IngestRepairEvent
    <3> QED BY <2>3, <3>1 DEF Ledger!Next, Ledger!RecordSlow
  <2> QED BY <2>4, <2>5
<1>4. CASE e \notin late'
  <2>1. late' = late /\ e \notin late
    BY <1>4 DEF IngestEvent, IngestRepairEvent
  <2>2. CASE IngestEvent(e, tick)
    <3>1. ASSUME NEW l \in Label
          PROVE  Seen(l)' = IF l \in LabelsOf[e] THEN Seen(l) \cup {e} ELSE Seen(l)
      <4>1. fast' = fast \cup {[id |-> e, tick |-> tick]}
        BY <2>2 DEF IngestEvent
      <4>2. {p.id : p \in fast'} = {p.id : p \in fast} \cup {e}
        BY <4>1, PointAdds
      <4>3. \A f : (\E p \in fast' : p.id = f) <=> (\E p \in fast : p.id = f) \/ f = e
        BY <4>2
      <4> QED BY <1>1, <2>1, <4>3 DEF Seen
    <3>2. Answer' = [l \in Label |-> IF l \in LabelsOf[e] THEN Answer[l] \cup {e}
                                                          ELSE Answer[l]]
      BY <3>1, AnswerIsSeen, AnswerIsSeenNext
    <3>3. {p.id : p \in slow'} = {p.id : p \in slow}
      BY <2>2 DEF IngestEvent
    <3> QED BY <3>2, <3>3 DEF Ledger!Next, Ledger!Record
  <2>3. CASE IngestRepairEvent(e, tick)
    <3>1. \A l : Seen(l)' = Seen(l)
      BY <1>1, <2>1, <2>3 DEF Seen, IngestRepairEvent
    <3>2. Answer' = Answer
      BY <3>1, AnswerIsSeen, AnswerIsSeenNext
    <3>3. {p.id : p \in slow'} = {p.id : p \in slow} \cup {e}
      BY <2>3, PointAdds DEF IngestRepairEvent
    <3> QED BY <3>2, <3>3 DEF Ledger!Next, Ledger!RecordSlow
  <2> QED BY <2>2, <2>3
<1> QED BY <1>3, <1>4

\* A correction adds slow events the store knows of to the answer of its label.
LEMMA LedgerCorrect ==
  ASSUME StoreInv, StoreInv', NEW r \in run["repair"].todo, WriteRecord("repair", r)
  PROVE  Ledger!Next
<1> DEFINE E == r.once \ late
<1>1. "repair" \in Folders /\ "repair" \in Task /\ TypeOK /\ TimeInv
  BY DEF Folders, Task, StoreInv
<1>2. records' = records \cup {r} /\ r.kind = "repair"
  BY <1>1, WriteAdds DEF TimeInv, RunShape
<1>3. UNCHANGED <<fast, slow, late>>
  BY DEF WriteRecord
<1>4. Of("repair")' = Of("repair") \cup {r}
  BY <1>2 DEF Of
<1>5. r.label \in Label /\ r.once \subseteq Event
  BY <1>1 DEF TypeOK, Run, Record
<1>6. \A e \in r.once : (\E p \in slow : p.id = e) /\ r.label \in LabelsOf[e]
  BY <1>1 DEF StoreInv, OnceInv, FoldedContents, Source
<1>7. ASSUME NEW l \in Label
      PROVE  Seen(l)' = IF l = r.label THEN Seen(l) \cup E ELSE Seen(l)
  BY <1>3, <1>4, <1>5 DEF Seen
<1>8. Answer' = [Answer EXCEPT ![r.label] = @ \cup E]
  BY <1>5, <1>7, AnswerIsSeen, AnswerIsSeenNext
<1>9. E \in SUBSET {p.id : p \in slow} /\ \A e \in E : r.label \in LabelsOf[e]
  BY <1>6
<1>10. {p.id : p \in slow}' = {p.id : p \in slow}
  BY <1>3
<1> HIDE DEF E
<1>11. Ledger!Correct(r.label, E)
  BY <1>8, <1>9, <1>10 DEF Ledger!Correct
<1> QED BY <1>5, <1>9, <1>11 DEF Ledger!Next

LEMMA LedgerStep ==
  StoreInv /\ StoreInv' /\ [Next]_vars => [Ledger!Next]_(Ledger!vars)
<1> SUFFICES ASSUME StoreInv, StoreInv', [Next]_vars
             PROVE  [Ledger!Next]_(Ledger!vars)
  OBVIOUS
<1>1. CASE Ingest
  BY <1>1, LedgerIngest DEF Ingest
<1>2. CASE \/ CreateCheckpoint
           \/ RepairRecords
           \/ CreateSnapshot
           \/ \E t \in Task : WriteMaster(t) \/ Abort(t)
           \/ ClockTick
           \/ UNCHANGED vars
  <2>1. UNCHANGED <<fast, slow, late, records>>
    BY <1>2
    DEF CreateCheckpoint, RepairRecords, CreateSnapshot, Begin, WriteMaster, Abort,
        ClockTick, vars
  <2>2. UNCHANGED <<fast, slow, late, Of("repair")>>
    BY <2>1 DEF Of
  <2> QED BY <2>2, Invisible
<1>3. ASSUME NEW t \in Task, NEW r \in run[t].todo, WriteRecord(t, r)
      PROVE  [Ledger!Next]_(Ledger!vars)
  <2>1. CASE t = "repair"
    BY <1>3, <2>1, LedgerCorrect
  <2>2. CASE t # "repair"
    <3>1. r.kind = t
      BY DEF StoreInv, TimeInv, RunShape
    <3>2. UNCHANGED <<fast, slow, late, Of("repair")>>
      BY <1>3, <2>2, <3>1 DEF WriteRecord, SameCell, Of
    <3> QED BY <3>2, Invisible
  <2> QED BY <2>1, <2>2
<1> QED BY <1>1, <1>2, <1>3 DEF Next, Execute

LEMMA LedgerInit == Init /\ StoreInv => Ledger!Init
<1> SUFFICES ASSUME Init, StoreInv
             PROVE  Ledger!Init
  OBVIOUS
<1>1. \A l : Seen(l) = {}
  BY DEF Init, Seen, Of
<1> QED BY <1>1, AnswerIsSeen DEF Init, Ledger!Init

\* The store implements the ledger: whatever the tasks do, an answer about the
\* present changes because an event lands or a correction is written.
THEOREM LedgerImplemented == Spec => ImplementsLedger
<1>1. Init /\ StoreInv => Ledger!Init
  BY LedgerInit
<1>2. StoreInv /\ StoreInv' /\ [Next]_vars => [Ledger!Next]_(Ledger!vars)
  BY LedgerStep
<1> QED
  BY <1>1, <1>2, StoreInvCorrect, PTL DEF Spec, ImplementsLedger, Ledger!Spec
=============================================================================
