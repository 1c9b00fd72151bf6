------------------------- MODULE MetricQuery_proofs -------------------------
(***************************************************************************)
(* What a listing that is fetched step by step says: the invariant, which  *)
(* is about the records fetched so far and what the store may have done    *)
(* since, and the proofs.                                                  *)
(***************************************************************************)
EXTENDS MetricQuery, MetricOnce_proofs

USE LabelsAssumption, OriginAssumption, LagAssumption, RunAssumption

\* The fetches that follow that of the snapshot.
Reading == {"checkpoints", "master", "events", "corrections"}

AnswerType ==
  [sums : SUBSET Record, since : Nat \cup {-1}, from : Nat \cup {-1},
   before : SUBSET Event, half : SUBSET Event, moved : SUBSET Event]

ListingTypes ==
  /\ listing \in [at : Fetches \cup {"idle", "done"}, label : Label \cup {{}},
                  start : Nat, end : Nat, second : BOOLEAN,
                  first : AnswerType, answer : AnswerType]
  /\ listing.at # "idle" => listing.label \in Label /\ listing.start <= listing.end

\* What is folded at or before the snapshot is in the snapshot, for good: no
\* run goes on that could write there.
SnapshotRead ==
  listing.at \in Reading =>
    /\ listing.answer.since + SnapshotLag <= now \/ listing.answer.since = -1
    /\ listing.answer.since <= instant
    /\ \A c \in Folded :
         c.label = listing.label /\ c.tick <= listing.answer.since =>
           c.once \subseteq Once(listing.answer.sums)

(***************************************************************************)
(* No event is missing but those that moved.                               *)
(***************************************************************************)
BeforeSeen ==
  listing.at \in Reading =>
    listing.answer.before \ late \subseteq SeenAt(listing.label, instant)

Got == Once(listing.answer.sums) \cup listing.answer.moved

IsCorrected(e) ==
  \E c \in Of("repair") : c.label = listing.label /\ c.tick <= instant /\ e \in c.once

BeforeEvents ==
  listing.at = "events" =>
    \A e \in listing.answer.before \ late :
      \/ e \in Got
      \/ IsCorrected(e)
      \/ \E p \in fast : /\ p.id = e /\ listing.label \in LabelsOf[e]
                         /\ listing.answer.from < p.tick /\ p.tick <= instant

BeforeCorrections ==
  listing.at = "corrections" =>
    \A e \in listing.answer.before \ late : e \in Got \/ IsCorrected(e)

(***************************************************************************)
(* No event is invented.                                                   *)
(***************************************************************************)
SumsSeen ==
  listing.at \in Reading =>
    Once(listing.answer.sums) \ late \subseteq SeenAt(listing.label, instant)

FirstKept ==
  (listing.second /\ listing.at \in Reading \cup {"done"}) =>
    Once(listing.first.sums) \ late \subseteq listing.answer.before

(***************************************************************************)
(* No event is counted two times but those of a half written checkpoint.   *)
(***************************************************************************)
Parts ==
  listing.at \in Reading =>
    \A y \in listing.answer.sums :
      \/ /\ y.kind = "snapshot"
         /\ \A e \in y.once :
              \E d \in Folded : /\ d.label = listing.label
                                /\ d.tick <= listing.answer.since
                                /\ e \in d.once
      \/ /\ y \in Of("checkpoint") /\ y.label = listing.label
         /\ listing.answer.since < y.tick /\ y.tick <= instant
         /\ listing.at # "checkpoints"
      \/ /\ y.kind = "event" /\ listing.at = "corrections"
         /\ \A e \in y.once : \E p \in fast : p.id = e

ClosedMaster ==
  listing.at = "master" =>
    \A y \in listing.answer.sums :
      y.kind = "checkpoint" =>
        \/ y.once \subseteq listing.answer.half
        \/ \E m \in MastersSeen : y.tick <= m

ClosedEvents ==
  listing.at = "events" =>
    /\ \A y \in listing.answer.sums :
         y.kind = "checkpoint" =>
           y.once \subseteq listing.answer.half \/ y.tick <= listing.answer.from
    /\ listing.label \notin torn =>
         \A d \in Of("checkpoint") :
           d.label = listing.label /\ d.tick <= listing.answer.since =>
             d.tick <= listing.answer.from

SumsOnce ==
  (listing.at \in Reading /\ listing.label \notin torn) =>
    /\ Twice(listing.answer.sums) \subseteq listing.answer.half
    /\ listing.at = "checkpoints" => Twice(listing.answer.sums) = {}

Good(x, end) ==
  /\ x.before \ late \subseteq Once(x.sums) \cup x.moved
  /\ Once(x.sums) \ late \subseteq SeenAt(listing.label, end)
  /\ listing.label \notin torn => Twice(x.sums) \subseteq x.half

Finished ==
  /\ listing.second => Good(listing.first, listing.start)
  /\ listing.at = "done" => listing.second /\ Good(listing.answer, listing.end)

ListingInv ==
  /\ ListingTypes
  /\ SnapshotRead
  /\ BeforeSeen /\ BeforeEvents /\ BeforeCorrections
  /\ SumsSeen /\ FirstKept
  /\ Parts /\ ClosedMaster /\ ClosedEvents /\ SumsOnce
  /\ Finished
-----------------------------------------------------------------------------
(***************************************************************************)
(* The store meanwhile.                                                    *)
(***************************************************************************)
LEMMA ListingTyped ==
  ASSUME ListingTypes
  PROVE  /\ instant \in Nat
         /\ listing.answer \in AnswerType
         /\ listing.answer.since \in Int /\ listing.answer.from \in Int
         /\ listing.answer.sums \subseteq Record
         /\ listing.answer.before \subseteq Event
BY DEF ListingTypes, AnswerType, instant

LEMMA CountedType ==
  ASSUME StoreInv, NEW l \in Label, NEW end \in Nat
  PROVE  Counted(l, end) \subseteq Event
<1>1. \A y \in getMetricsAt(l, end) : y.once \subseteq Event
  BY DEF StoreInv, TypeOK, Point, Record, getMetricsAt, Latest, Upto, SinceSnapshot,
         Events, NewPoints
<1> QED BY <1>1 DEF Counted, Once

\* A run that folds works at an instant no snapshot is at yet.
LEMMA RunIsYoung ==
  ASSUME StoreInv, NEW t \in Folders, run[t].active
  PROVE  now < run[t].end + SnapshotLag
<1>1. Lag(t) + MaxRun < SnapshotLag /\ Lag(t) \in Nat /\ t \in Task
  BY LagValues DEF Folders, Task
<1>2. run[t].end + Lag(t) = run[t].since /\ now <= run[t].since + MaxRun
  BY <1>1 DEF StoreInv, TimeInv, RunClock
<1>3. now \in Nat /\ run[t].end \in Nat /\ run[t].since \in Nat
  BY <1>1 DEF StoreInv, TypeOK, Run
<1> QED BY <1>1, <1>2, <1>3

\* The store only grows, and what it folds is ahead of every snapshot.
LEMMA StoreGrows ==
  ASSUME StoreInv, [Next]_vars
  PROVE  /\ now \in Nat /\ now' \in Nat /\ now <= now'
         /\ late \subseteq late' /\ torn \subseteq torn'
         /\ fast \subseteq fast' /\ slow \subseteq slow'
         /\ \A t \in Task : master[t] \subseteq master'[t]
         /\ \A t \in Folders : Of(t) \subseteq Of(t)'
         /\ \A c \in Folded' : c \in Folded \/ now < c.tick + SnapshotLag
<1> USE DEF StoreInv
<1>1. TypeOK /\ TimeInv
  OBVIOUS
<1>2. ASSUME NEW t \in Task, NEW r \in run[t].todo, WriteRecord(t, r)
      PROVE  /\ UNCHANGED <<now, fast, slow, late, master, torn>>
             /\ \A u \in Folders : Of(u) \subseteq Of(u)'
             /\ \A c \in Folded' : c \in Folded \/ now < c.tick + SnapshotLag
  <2>1. UNCHANGED <<now, fast, slow, late, master, torn>>
    BY <1>2 DEF WriteRecord
  <2>2. r.kind = t /\ r.tick = run[t].end
    BY <1>1 DEF TimeInv, RunShape
  <2>3. CASE t \in Folders
    <3>1. records' = records \cup {r}
      BY <1>1, <1>2, <2>3, WriteAdds
    <3>2. run[t].active /\ t \in Folders
      BY <1>2, <2>3 DEF WriteRecord
    <3>3. now < r.tick + SnapshotLag
      BY <2>2, <3>2, RunIsYoung
    <3> QED BY <2>1, <3>1, <3>3 DEF Of, Folded
  <2>4. CASE t \notin Folders
    <3>1. \A u \in Folders : u # r.kind
      BY <2>2, <2>4
    <3>2. \A u \in Folders : Of(u)' = Of(u)
      BY <1>2, <3>1 DEF WriteRecord, SameCell, Of
    <3>3. Folded' = Folded
      BY <3>2 DEF Folded, Folders
    <3> QED BY <2>1, <3>2, <3>3
  <2> QED BY <2>3, <2>4
<1>3. now \in Nat /\ now + 1 \in Nat /\ now <= now + 1
  BY <1>1 DEF TypeOK
<1>4. CASE Ingest
  BY <1>3, <1>4 DEF Ingest, IngestEvent, IngestRepairEvent, Of, Folded
<1>5. CASE CreateCheckpoint \/ RepairRecords \/ CreateSnapshot \/ UNCHANGED vars
  <2>1. UNCHANGED <<now, fast, slow, late, records, master, torn>>
    BY <1>5 DEF CreateCheckpoint, RepairRecords, CreateSnapshot, Begin, vars
  <2> QED BY <1>3, <2>1 DEF Of, Folded
<1>6. ASSUME NEW t \in Task, WriteMaster(t)
      PROVE  /\ UNCHANGED <<now, fast, slow, late, records, torn>>
             /\ \A u \in Task : master[u] \subseteq master'[u]
  BY <1>1, <1>6 DEF WriteMaster, TypeOK
<1>7. ASSUME NEW t \in Task, Abort(t)
      PROVE  UNCHANGED <<now, fast, slow, late, records, master>> /\ torn \subseteq torn'
  BY <1>7 DEF Abort
<1>8. CASE \E t \in Task : WriteMaster(t) \/ Abort(t)
  BY <1>3, <1>6, <1>7, <1>8 DEF Of, Folded
<1>9. CASE ClockTick
  BY <1>3, <1>9 DEF ClockTick, Of, Folded
<1>10. CASE \E t \in Task : \E r \in run[t].todo : WriteRecord(t, r)
  BY <1>2, <1>3, <1>10
<1> QED BY <1>4, <1>5, <1>8, <1>9, <1>10 DEF Next, Execute

LEMMA SeenGrows ==
  ASSUME StoreInv, [Next]_vars, NEW l, NEW end, NEW e \in SeenAt(l, end), e \notin late'
  PROVE  e \in SeenAt(l, end)'
<1>1. "repair" \in Folders
  BY DEF Folders
<1> QED BY <1>1, StoreGrows DEF SeenAt

\* A step of the store, between two fetches.
LEMMA ListingWaits ==
  ASSUME ListingInv, StoreInv, StoreInv', [Next]_vars, UNCHANGED listing
  PROVE  ListingInv'
<1>1. instant' = instant
  BY DEF instant
<1>2. /\ instant \in Nat /\ listing.answer.since \in Int /\ listing.answer.from \in Int
      /\ listing.answer.sums \subseteq Record
  BY ListingTyped DEF ListingInv
<1>3. "checkpoint" \in Folders /\ "repair" \in Folders /\ "checkpoint" \in Task
  BY DEF Folders, Task
<1>4. /\ \A c \in Folded : c \in Folded'
      /\ \A c \in Of("repair") : c \in Of("repair")'
      /\ \A c \in Of("checkpoint") : c \in Of("checkpoint")'
      /\ \A p \in fast : p \in fast'
      /\ \A m \in master["checkpoint"] : m \in master["checkpoint"]'
      /\ \A e \in late : e \in late'
      /\ listing.label \in torn => listing.label \in torn'
  BY <1>3, StoreGrows DEF Folded
<1>5. /\ now \in Nat /\ now' \in Nat /\ now <= now'
      /\ \A c \in Folded' : c \in Folded \/ now < c.tick + SnapshotLag
  BY StoreGrows
<1>6. \A l, end : \A e \in SeenAt(l, end) : e \in late' \/ e \in SeenAt(l, end)'
  BY SeenGrows
<1>7. \A c \in Folded' : c.tick \in Nat
  BY DEF StoreInv, TypeOK, Record, Folded, Of
<1>8. ListingTypes'
  BY DEF ListingInv, ListingTypes
<1>9. SnapshotRead'
  <2>1. SUFFICES ASSUME listing.at \in Reading
                 PROVE  /\ listing.answer.since + SnapshotLag <= now' \/ listing.answer.since = -1
                        /\ listing.answer.since <= instant
                        /\ \A c \in Folded' :
                             c.label = listing.label /\ c.tick <= listing.answer.since =>
                               c.once \subseteq Once(listing.answer.sums)
    BY <1>1 DEF SnapshotRead, Once
  <2>2. /\ listing.answer.since + SnapshotLag <= now \/ listing.answer.since = -1
        /\ listing.answer.since <= instant
    BY <2>1 DEF ListingInv, SnapshotRead
  <2>3. listing.answer.since + SnapshotLag <= now' \/ listing.answer.since = -1
    BY <1>2, <1>5, <2>2
  <2>4. ASSUME NEW c \in Folded', c.tick <= listing.answer.since
        PROVE  c \in Folded
    BY <1>2, <1>5, <1>7, <2>2, <2>4
  <2> QED BY <2>1, <2>3, <2>4 DEF ListingInv, SnapshotRead
<1>10. BeforeSeen'
  BY <1>1, <1>4, <1>6 DEF ListingInv, BeforeSeen
<1>11. BeforeEvents' /\ BeforeCorrections'
  BY <1>1, <1>4 DEF ListingInv, BeforeEvents, BeforeCorrections, Got, IsCorrected, Once
<1>12. SumsSeen'
  BY <1>1, <1>4, <1>6 DEF ListingInv, SumsSeen, Once
<1>13. FirstKept'
  BY <1>4 DEF ListingInv, FirstKept, Once
<1>14. Parts'
  BY <1>1, <1>4 DEF ListingInv, Parts
<1>15. ClosedMaster'
  BY <1>1, <1>4 DEF ListingInv, ClosedMaster, MastersSeen
<1>16. ClosedEvents'
  <2>1. SUFFICES ASSUME listing.at = "events", listing.label \notin torn',
                        NEW d \in Of("checkpoint")',
                        d.label = listing.label, d.tick <= listing.answer.since
                 PROVE  d.tick <= listing.answer.from
    BY DEF ListingInv, ClosedEvents
  <2>2. d \in Folded' /\ listing.at \in Reading
    BY <2>1 DEF Folded, Reading
  <2>3. listing.answer.since + SnapshotLag <= now \/ listing.answer.since = -1
    BY <2>2 DEF ListingInv, SnapshotRead
  <2>4. d \in Folded
    BY <1>2, <1>5, <1>7, <2>1, <2>2, <2>3
  <2>5. d \in Of("checkpoint")
    BY <2>1, <2>4 DEF Folded, Of
  <2> QED BY <1>4, <2>1, <2>5 DEF ListingInv, ClosedEvents
<1>17. SumsOnce'
  BY <1>4 DEF ListingInv, SumsOnce, Twice
<1>18. Finished'
  BY <1>4, <1>6 DEF ListingInv, Finished, Good, Once, Twice
<1> QED
  BY <1>8, <1>9, <1>10, <1>11, <1>12, <1>13, <1>14, <1>15, <1>16, <1>17, <1>18
  DEF ListingInv

-----------------------------------------------------------------------------
(***************************************************************************)
(* The fetches.                                                            *)
(***************************************************************************)
LEMMA FetchedFields ==
  ASSUME ListingTypes, listing.at # "idle", NEW next \in Fetches, NEW x \in AnswerType,
         Fetched(next, x)
  PROVE  /\ ListingTypes'
         /\ listing'.at = next /\ listing'.answer = x /\ listing'.first = listing.first
         /\ listing'.label = listing.label /\ listing'.second = listing.second
         /\ listing'.start = listing.start
         /\ instant' = instant
         /\ UNCHANGED <<now, fast, slow, late, records, master, run, torn>>
BY DEF ListingTypes, Fetched, instant, vars

\* What is read of a record is in the answer of the store.
LEMMA RecordSeen ==
  ASSUME StoreInv, NEW l, NEW end \in Nat, NEW kind \in Task, NEW y \in Upto(kind, l, end)
  PROVE  /\ y \in Record /\ y.tick \in Nat /\ y.tick <= end /\ y.once \subseteq Event
         /\ y.once \ late \subseteq SeenAt(l, end)
<1>1. /\ y \in records /\ y.kind = kind /\ y.label = l /\ y.tick <= end
      /\ \A c \in records : c \in Record /\ c.tick \in Nat /\ c.once \subseteq Event
  BY DEF Upto, StoreInv, TypeOK, Record
<1>2. \A p \in fast : p.tick \in Nat
  BY DEF StoreInv, TypeOK, Point
<1>3. "checkpoint" \in Folders /\ Source("checkpoint") = fast
  BY DEF Folders, Source
<1>4. ASSUME NEW e \in Event \ late,
             NEW c \in Folded, c.label = l, c.tick <= end, e \in c.once
      PROVE  e \in SeenAt(l, end)
  <2>1. CASE c \in Of("repair")
    BY <1>4, <2>1 DEF SeenAt
  <2>2. CASE c \in Of("checkpoint")
    <3>1. PICK p \in fast : p.id = e /\ p.tick <= c.tick /\ l \in LabelsOf[e]
      BY <1>3, <1>4, <2>2 DEF StoreInv, OnceInv, FoldedContents
    <3>2. c.tick \in Nat
      BY <1>1, <2>2 DEF Of
    <3>3. p.tick <= end
      BY <1>2, <1>4, <3>1, <3>2
    <3> QED BY <1>4, <3>1, <3>3 DEF SeenAt
  <2> QED BY <1>4, <2>1, <2>2 DEF Folded
<1>5. CASE kind = "snapshot"
  <2>1. y \in Snapshots
    BY <1>1, <1>5 DEF Snapshots, Of
  <2>2. ASSUME NEW e \in y.once, e \notin late
        PROVE  e \in SeenAt(l, end)
    <3>1. PICK c \in Folded : c.label = l /\ c.tick <= y.tick /\ e \in c.once
      BY <1>1, <2>1 DEF StoreInv, SnapshotInv, SnapshotsInvent
    <3>2. c.tick <= end
      BY <1>1, <3>1 DEF Folded, Of
    <3> QED BY <1>1, <1>4, <2>2, <3>1, <3>2
  <2> QED BY <1>1, <2>2
<1>6. CASE kind # "snapshot"
  <2>1. y \in Folded
    BY <1>1, <1>6 DEF Folded, Of, Task
  <2> QED BY <1>1, <1>4, <2>1
<1> QED BY <1>5, <1>6

\* What is read beside records that have nothing in common with it.
LEMMA ReadApart ==
  ASSUME NEW S, NEW R, NEW H, Twice(S) \subseteq H,
         \A r \in R : r.twice = {},
         \A r, s \in R : r # s => r.once \cap s.once \subseteq H,
         \A r \in R, s \in S : r # s => r.once \cap s.once \subseteq H
  PROVE  Twice(S \cup R) \subseteq H
BY DEF Twice

LEMMA SnapshotsLoad ==
  ASSUME ListingInv, StoreInv, LoadSnapshots
  PROVE  ListingInv'
<1> DEFINE l == listing.label
           latest == Latest(Upto("snapshot", l, instant))
<1>1. PICK t \in IF latest = {} THEN {-1} ELSE {r.tick : r \in latest} :
        Fetched("checkpoints",
                [NoAnswer EXCEPT !.sums = latest, !.since = t,
                                 !.before = Counted(l, instant)])
  BY DEF LoadSnapshots
<1> DEFINE x == [NoAnswer EXCEPT !.sums = latest, !.since = t, !.before = Counted(l, instant)]
<1>2. /\ ListingTypes /\ listing.at = "snapshots" /\ l \in Label /\ instant \in Nat
      /\ "snapshot" \in Task
  BY ListingTyped DEF ListingInv, LoadSnapshots, ListingTypes, Task
<1>3. \A y \in latest : /\ y \in Record /\ y.tick \in Nat /\ y.tick <= instant
                        /\ y.once \subseteq Event
                        /\ y.once \ late \subseteq SeenAt(l, instant)
                        /\ y \in records /\ y.kind = "snapshot" /\ y.label = l
  BY <1>2, RecordSeen DEF Latest, Upto
<1>4. /\ latest = {} => t = -1
      /\ latest # {} => t \in Nat /\ \E y \in latest : y.tick = t
      /\ \A y \in latest : y.tick = t
  <2>1. \A y, z \in latest : y.tick = z.tick
    BY <1>3 DEF Latest
  <2> QED BY <1>3, <2>1
<1>5. Counted(l, instant) \ late = SeenAt(l, instant)
  BY <1>2, CountedSeen
<1>6. Counted(l, instant) \subseteq Event
  BY <1>2, CountedType
<1>7. x \in AnswerType
  BY <1>3, <1>4, <1>6 DEF AnswerType, NoAnswer
<1>8. Fetched("checkpoints", x)
  BY <1>1
<1>10. x.sums = latest /\ x.since = t /\ x.before = Counted(l, instant) /\ x.half = {}
  BY DEF NoAnswer
<1> HIDE DEF x
<1>9. /\ ListingTypes'
      /\ listing'.at = "checkpoints" /\ listing'.answer = x
      /\ listing'.first = listing.first /\ listing'.label = l
      /\ listing'.second = listing.second /\ listing'.start = listing.start
      /\ instant' = instant
      /\ UNCHANGED <<now, fast, slow, late, records, master, run, torn>>
  BY <1>2, <1>7, <1>8, FetchedFields DEF Fetches
<1> HIDE DEF latest
<1>11. SnapshotRead'
  <2>1. (t + SnapshotLag <= now \/ t = -1) /\ t <= instant
    BY <1>2, <1>3, <1>4, LagValues DEF StoreInv, TimeInv, RecordClock
  <2>2. ASSUME NEW c \in Folded, c.label = l, c.tick <= t
        PROVE  c.once \subseteq Once(latest)
    <3>1. c.tick \in Nat
      BY DEF StoreInv, TypeOK, Record, Folded, Of
    <3>2. PICK y \in latest : y.tick = t
      BY <1>4, <2>2, <3>1
    <3>3. y \in Snapshots
      BY <1>3 DEF Snapshots, Of
    <3>4. c.once \subseteq y.once
      BY <1>3, <2>2, <3>2, <3>3 DEF StoreInv, SnapshotInv, SnapshotsInclude
    <3> QED BY <3>4 DEF Once
  <2> QED BY <1>9, <1>10, <2>1, <2>2 DEF SnapshotRead, Folded, Of, Once
<1>12. BeforeSeen'
  BY <1>5, <1>9, <1>10 DEF BeforeSeen, SeenAt, Of
<1>13. BeforeEvents' /\ BeforeCorrections' /\ ClosedMaster' /\ ClosedEvents'
  BY <1>9 DEF BeforeEvents, BeforeCorrections, ClosedMaster, ClosedEvents
<1>14. SumsSeen'
  BY <1>3, <1>9, <1>10 DEF SumsSeen, SeenAt, Of, Once
<1>15. FirstKept'
  <2>1. SUFFICES ASSUME listing.second
                 PROVE  Once(listing.first.sums) \ late \subseteq Counted(l, instant)
    BY <1>9, <1>10 DEF FirstKept, Once
  <2>2. Once(listing.first.sums) \ late \subseteq SeenAt(l, listing.start)
    BY <2>1 DEF ListingInv, Finished, Good
  <2>3. listing.start <= instant /\ listing.start \in Nat
    BY <1>2, <2>1 DEF ListingTypes, instant
  <2>4. SeenAt(l, listing.start) \subseteq SeenAt(l, instant)
    <3>1. /\ \A p \in fast : p.tick \in Nat
          /\ \A c \in Of("repair") : c.tick \in Nat
      BY DEF StoreInv, TypeOK, Point, Record, Of
    <3> QED BY <1>2, <2>3, <3>1 DEF SeenAt
  <2> QED BY <1>5, <2>2, <2>4
<1>16. Parts'
  <2>1. ASSUME NEW y \in latest, NEW e \in y.once
        PROVE  \E d \in Folded : d.label = l /\ d.tick <= t /\ e \in d.once
    <3>1. y \in Snapshots
      BY <1>3 DEF Snapshots, Of
    <3> QED BY <1>3, <1>4, <3>1 DEF StoreInv, SnapshotInv, SnapshotsInvent
  <2> QED BY <1>3, <1>9, <1>10, <2>1 DEF Parts, Folded, Of
<1>17. SumsOnce'
  <2>1. \A y, z \in latest : y = z
    BY <1>3, <1>4 DEF StoreInv, TimeInv, OneValuePerCell, SameCell
  <2>2. ASSUME l \notin torn
        PROVE  \A y \in latest : y.twice = {}
    BY <1>3, <2>2 DEF StoreInv, OnceInv, SnapshotsOnce, Snapshots, Of
  <2>3. l \notin torn => Twice(latest) = {}
    BY <2>1, <2>2 DEF Twice
  <2> QED BY <1>9, <1>10, <2>3 DEF SumsOnce, Twice
<1>18. Finished'
  BY <1>9 DEF ListingInv, Finished, Good, SeenAt, Of, Once, Twice
<1> QED
  BY <1>9, <1>11, <1>12, <1>13, <1>14, <1>15, <1>16, <1>17, <1>18 DEF ListingInv

LEMMA CheckpointsLoad ==
  ASSUME ListingInv, StoreInv, LoadCheckpoints
  PROVE  ListingInv'
<1> DEFINE l == listing.label
           y == listing.answer
           R == RecordsSince("checkpoint")
           half == Once({r \in R : \A m \in MastersSeen : m < r.tick})
           x == [listing.answer EXCEPT !.sums = @ \cup R, !.half = half]
<1>1. /\ ListingTypes /\ listing.at = "checkpoints" /\ l \in Label /\ instant \in Nat
      /\ "checkpoint" \in Task /\ "checkpoint" \in Folders
  BY ListingTyped DEF ListingInv, LoadCheckpoints, ListingTypes, Task, Folders
<1>2. y \in AnswerType /\ y.since \in Int /\ y.sums \subseteq Record
  BY <1>1, ListingTyped
<1>3. \A r \in R : /\ r \in Record /\ r.tick \in Nat /\ r.tick <= instant
                   /\ r.once \subseteq Event
                   /\ r.once \ late \subseteq SeenAt(l, instant)
                   /\ r \in Of("checkpoint") /\ r.kind = "checkpoint" /\ r.label = l
                   /\ y.since < r.tick
  BY <1>1, RecordSeen DEF RecordsSince, Upto, Of
<1>4. half \subseteq Event
  BY <1>3 DEF Once
<1>5. x \in AnswerType
  BY <1>2, <1>3, <1>4 DEF AnswerType
<1>6. Fetched("master", x)
  BY DEF LoadCheckpoints
<1>7. x.sums = y.sums \cup R /\ x.since = y.since /\ x.before = y.before /\ x.half = half
  BY <1>2 DEF AnswerType
<1> HIDE DEF x, R, half
<1>8. /\ ListingTypes'
      /\ listing'.at = "master" /\ listing'.answer = x
      /\ listing'.first = listing.first /\ listing'.label = l
      /\ listing'.second = listing.second /\ listing'.start = listing.start
      /\ instant' = instant
      /\ UNCHANGED <<now, fast, slow, late, records, master, run, torn>>
  BY <1>1, <1>5, <1>6, FetchedFields DEF Fetches
<1>9. listing.at \in Reading /\ listing'.at \in Reading
  BY <1>1, <1>8 DEF Reading
<1>10. SnapshotRead'
  BY <1>7, <1>8, <1>9 DEF ListingInv, SnapshotRead, Folded, Of, Once
<1>11. BeforeSeen'
  BY <1>7, <1>8, <1>9 DEF ListingInv, BeforeSeen, SeenAt, Of
<1>12. BeforeEvents' /\ BeforeCorrections' /\ ClosedEvents'
  BY <1>8 DEF BeforeEvents, BeforeCorrections, ClosedEvents
<1>13. SumsSeen'
  <2>1. Once(x.sums) \ late \subseteq SeenAt(l, instant)
    BY <1>3, <1>7, <1>9 DEF ListingInv, SumsSeen, Once
  <2> QED BY <1>8, <2>1 DEF SumsSeen, SeenAt, Of, Once
<1>14. FirstKept'
  BY <1>7, <1>8, <1>9 DEF ListingInv, FirstKept, Once
<1>15. ASSUME NEW s \in y.sums
       PROVE  /\ s.kind = "snapshot"
              /\ \A e \in s.once :
                   \E d \in Folded : d.label = l /\ d.tick <= y.since /\ e \in d.once
  BY <1>1, <1>9 DEF ListingInv, Parts
<1>16. Parts'
  BY <1>3, <1>7, <1>8, <1>15 DEF Parts, Folded, Of
<1>17. ClosedMaster'
  <2>1. ASSUME NEW r \in R
        PROVE  r.once \subseteq half \/ \E m \in MastersSeen : r.tick <= m
    <3>1. \A m \in MastersSeen : m \in Nat
      BY <1>1 DEF StoreInv, TypeOK, MastersSeen
    <3>2. CASE \A m \in MastersSeen : m < r.tick
      BY <3>2 DEF half, Once
    <3>3. CASE \E m \in MastersSeen : ~(m < r.tick)
      BY <1>3, <3>1, <3>3
    <3> QED BY <3>2, <3>3
  <2> QED BY <1>7, <1>8, <1>15, <2>1 DEF ClosedMaster, MastersSeen
<1>18. SumsOnce'
  <2>1. ASSUME l \notin torn
        PROVE  Twice(x.sums) \subseteq half
    <3>1. Twice(y.sums) \subseteq half
      BY <1>1, <1>9, <2>1 DEF ListingInv, SumsOnce
    <3>2. \A r \in R : r \in Folded /\ r.twice = {}
      BY <1>1, <1>3 DEF StoreInv, OnceInv, FoldedContents, Folded
    <3>3. \A r, s \in R : r # s => r.once \cap s.once = {}
      BY <1>3, <2>1, <3>2 DEF StoreInv, OnceInv, FoldedApart
    <3>4. ASSUME NEW r \in R, NEW s \in y.sums
          PROVE  r.once \cap s.once = {}
      <4>1. ASSUME NEW e \in r.once, e \in s.once
            PROVE  FALSE
        <5>1. PICK d \in Folded : d.label = l /\ d.tick <= y.since /\ e \in d.once
          BY <1>15, <4>1
        <5>2. d # r
          <6>1. d.tick \in Nat
            BY DEF StoreInv, TypeOK, Record, Folded, Of
          <6> QED BY <1>2, <1>3, <5>1, <6>1
        <5> QED BY <1>3, <2>1, <3>2, <4>1, <5>1, <5>2 DEF StoreInv, OnceInv, FoldedApart
      <4> QED BY <4>1
    <3>5. /\ \A r \in R : r.twice = {}
          /\ \A r, s \in R : r # s => r.once \cap s.once \subseteq half
          /\ \A r \in R, s \in y.sums : r # s => r.once \cap s.once \subseteq half
      BY <3>2, <3>3, <3>4
    <3> HIDE DEF y
    <3>6. Twice(y.sums \cup R) \subseteq half
      BY <3>1, <3>5, ReadApart
    <3> QED BY <1>7, <3>6
  <2> QED BY <1>7, <1>8, <2>1 DEF SumsOnce, Twice
<1>19. Finished'
  BY <1>8 DEF ListingInv, Finished, Good, SeenAt, Of, Once, Twice
<1> QED
  BY <1>8, <1>10, <1>11, <1>12, <1>13, <1>14, <1>16, <1>17, <1>18, <1>19 DEF ListingInv

LEMMA MasterLoads ==
  ASSUME ListingInv, StoreInv, LoadMasterCheckpoints
  PROVE  ListingInv'
<1> DEFINE l == listing.label
           y == listing.answer
           moved == Once({r \in RecordsSince("checkpoint") \ listing.answer.sums :
                            \E m \in MastersSeen : r.tick <= m})
<1>1. /\ ListingTypes /\ listing.at = "master" /\ l \in Label /\ instant \in Nat
      /\ "checkpoint" \in Task /\ "checkpoint" \in Folders
  BY ListingTyped DEF ListingInv, LoadMasterCheckpoints, ListingTypes, Task, Folders
<1>2. y \in AnswerType /\ y.since \in Int /\ y.sums \subseteq Record
  BY <1>1, ListingTyped
<1>3. PICK t \in IF MasterUpto = {} THEN {-1}
                 ELSE {m \in MasterUpto : \A n \in MasterUpto : n <= m} :
        Fetched("events", [listing.answer EXCEPT !.from = t, !.moved = moved])
  BY DEF LoadMasterCheckpoints
<1> DEFINE x == [listing.answer EXCEPT !.from = t, !.moved = moved]
<1>4. /\ t \in Nat \cup {-1}
      /\ \A m \in MastersSeen : m \in Nat /\ m <= t /\ m <= instant
      /\ t = -1 \/ t \in MastersSeen
  BY <1>1 DEF MasterUpto, MastersSeen, StoreInv, TypeOK
<1>5. \A r \in RecordsSince("checkpoint") : r.once \subseteq Event
  BY <1>1, RecordSeen DEF RecordsSince
<1>6. moved \subseteq Event
  BY <1>5 DEF Once
<1>7. x \in AnswerType
  BY <1>2, <1>4, <1>6 DEF AnswerType
<1>8. Fetched("events", x)
  BY <1>3
<1>9. /\ x.sums = y.sums /\ x.since = y.since /\ x.before = y.before /\ x.half = y.half
      /\ x.from = t /\ x.moved = moved
  BY <1>2 DEF AnswerType
<1> HIDE DEF x
<1>10. /\ ListingTypes'
       /\ listing'.at = "events" /\ listing'.answer = x
       /\ listing'.first = listing.first /\ listing'.label = l
       /\ listing'.second = listing.second /\ listing'.start = listing.start
       /\ instant' = instant
       /\ UNCHANGED <<now, fast, slow, late, records, master, run, torn>>
  BY <1>1, <1>7, <1>8, FetchedFields DEF Fetches
<1>11. listing.at \in Reading /\ listing'.at \in Reading
  BY <1>1, <1>10 DEF Reading
<1>12. SnapshotRead'
  BY <1>9, <1>10, <1>11 DEF ListingInv, SnapshotRead, Folded, Of, Once
<1>13. BeforeSeen'
  BY <1>9, <1>10, <1>11 DEF ListingInv, BeforeSeen, SeenAt, Of
<1>14. BeforeEvents'
  <2>1. ASSUME NEW e \in y.before \ late
        PROVE  \/ e \in Once(y.sums) \cup moved
               \/ IsCorrected(e)
               \/ \E p \in fast : p.id = e /\ l \in LabelsOf[e] /\ t < p.tick /\ p.tick <= instant
    <3>1. e \in SeenAt(l, instant)
      BY <1>11, <2>1 DEF ListingInv, BeforeSeen
    <3>2. CASE \E c \in Of("repair") : c.label = l /\ c.tick <= instant /\ e \in c.once
      BY <3>2 DEF IsCorrected
    <3>3. CASE \E p \in fast : p.id = e /\ p.tick <= instant /\ l \in LabelsOf[e]
      <4>1. PICK p \in fast : p.id = e /\ p.tick <= instant /\ l \in LabelsOf[e]
        BY <3>3
      <4>2. p.tick \in Nat
        BY DEF StoreInv, TypeOK, Point
      <4>3. CASE t < p.tick
        BY <4>1, <4>3
      <4>4. CASE p.tick <= t
        <5>1. t \in MastersSeen /\ t \in master["checkpoint"] /\ t <= instant
          BY <1>4, <4>2, <4>4 DEF MastersSeen
        <5>2. PICK c \in Of("checkpoint") : c.label = l /\ c.tick <= t /\ e \in c.once
          BY <2>1, <4>1, <4>4, <5>1 DEF StoreInv, FastKept, Kept, KeptByMasters, Source
        <5>3. c.tick \in Nat /\ c.tick <= instant /\ t \in Nat
          BY <1>1, <1>4, <5>1, <5>2 DEF StoreInv, TypeOK, Record, Of
        <5>4. CASE c.tick <= y.since
          BY <1>11, <5>2, <5>4 DEF ListingInv, SnapshotRead, Folded
        <5>5. CASE y.since < c.tick
          <6>1. c \in RecordsSince("checkpoint")
            BY <5>2, <5>3, <5>5 DEF RecordsSince, Upto, Of
          <6> QED BY <5>1, <5>2, <6>1 DEF Once
        <5> QED BY <1>2, <5>3, <5>4, <5>5
      <4> QED BY <1>4, <4>2, <4>3, <4>4
    <3> QED BY <3>1, <3>2, <3>3 DEF SeenAt
  <2> HIDE DEF moved
  <2> QED BY <1>9, <1>10, <2>1 DEF BeforeEvents, Got, IsCorrected, Of, Once
<1>15. BeforeCorrections' /\ ClosedMaster'
  BY <1>10 DEF BeforeCorrections, ClosedMaster
<1>16. SumsSeen'
  BY <1>9, <1>10, <1>11 DEF ListingInv, SumsSeen, SeenAt, Of, Once
<1>17. FirstKept'
  BY <1>9, <1>10, <1>11 DEF ListingInv, FirstKept, Once
<1>18. Parts'
  BY <1>1, <1>9, <1>10, <1>11 DEF ListingInv, Parts, Folded, Of
<1>19. ClosedEvents'
  <2>1. ASSUME NEW r \in y.sums, r.kind = "checkpoint"
        PROVE  r.once \subseteq y.half \/ r.tick <= t
    <3>1. r.once \subseteq y.half \/ \E m \in MastersSeen : r.tick <= m
      BY <1>1, <2>1 DEF ListingInv, ClosedMaster
    <3>2. r.tick \in Nat
      BY <1>2 DEF Record
    <3> QED BY <1>4, <3>1, <3>2
  <2>2. ASSUME l \notin torn, NEW d \in Of("checkpoint"), d.label = l, d.tick <= y.since
        PROVE  d.tick <= t
    <3>1. d \in Folded /\ d.kind = "checkpoint" /\ d.tick \in Nat
      BY DEF Folded, Of, StoreInv, TypeOK, Record
    <3>2. y.since + SnapshotLag <= now \/ y.since = -1
      BY <1>11 DEF ListingInv, SnapshotRead
    <3>3. d.tick + SnapshotLag <= now
      BY <1>2, <2>2, <3>1, <3>2 DEF StoreInv, TypeOK
    <3>4. CASE d.tick \in master["checkpoint"]
      <4>1. d.tick <= instant
        BY <1>1, <1>2, <1>11, <2>2, <3>1 DEF ListingInv, SnapshotRead
      <4> QED BY <1>4, <3>4, <4>1 DEF MastersSeen
    <3>5. CASE run["checkpoint"].active /\ d.tick = run["checkpoint"].end
      <4>1. now < run["checkpoint"].end + SnapshotLag
        BY <1>1, <3>5, RunIsYoung
      <4> QED BY <3>1, <3>3, <3>5, <4>1 DEF StoreInv, TypeOK
    <3> QED BY <2>2, <3>1, <3>4, <3>5 DEF StoreInv, OnceInv, FoldedClosed
  <2> QED BY <1>9, <1>10, <2>1, <2>2 DEF ClosedEvents, Of
<1>20. SumsOnce'
  BY <1>9, <1>10, <1>11 DEF ListingInv, SumsOnce, Twice
<1>21. Finished'
  BY <1>10 DEF ListingInv, Finished, Good, SeenAt, Of, Once, Twice
<1> QED
  BY <1>10, <1>12, <1>13, <1>14, <1>15, <1>16, <1>17, <1>18, <1>19, <1>20, <1>21 DEF ListingInv

LEMMA EventsLoad ==
  ASSUME ListingInv, StoreInv, LoadEvents
  PROVE  ListingInv'
<1> DEFINE l == listing.label
           y == listing.answer
           P == {p \in fast : listing.answer.from < p.tick /\ p.tick <= instant}
           E == Events("event", instant, listing.label, P)
           x == [listing.answer EXCEPT !.sums = @ \cup {E}]
<1>1. /\ ListingTypes /\ listing.at = "events" /\ l \in Label /\ instant \in Nat
      /\ "checkpoint" \in Folders /\ "repair" \in Folders
  BY ListingTyped DEF ListingInv, LoadEvents, ListingTypes, Folders
<1>2. y \in AnswerType /\ y.since \in Int /\ y.from \in Int /\ y.sums \subseteq Record
  BY <1>1, ListingTyped
<1>3. P \in SUBSET Point
  BY DEF StoreInv, TypeOK
<1>4. E \in Record /\ E.kind = "event" /\ E.twice = {}
  BY <1>1, <1>3, EventsType, EventsFields
<1>5. \A e : e \in E.once <=> \E p \in P : p.id = e /\ l \in LabelsOf[e]
  BY DEF Events
<1>6. x \in AnswerType
  BY <1>2, <1>4 DEF AnswerType
<1>7. Fetched("corrections", x)
  BY DEF LoadEvents
<1>8. /\ x.sums = y.sums \cup {E} /\ x.since = y.since /\ x.before = y.before
      /\ x.half = y.half /\ x.from = y.from /\ x.moved = y.moved
  BY <1>2 DEF AnswerType
<1> HIDE DEF x, E
<1>9. /\ ListingTypes'
      /\ listing'.at = "corrections" /\ listing'.answer = x
      /\ listing'.first = listing.first /\ listing'.label = l
      /\ listing'.second = listing.second /\ listing'.start = listing.start
      /\ instant' = instant
      /\ UNCHANGED <<now, fast, slow, late, records, master, run, torn>>
  BY <1>1, <1>6, <1>7, FetchedFields DEF Fetches
<1>10. listing.at \in Reading /\ listing'.at \in Reading
  BY <1>1, <1>9 DEF Reading
<1>11. Once(x.sums) = Once(y.sums) \cup E.once
  BY <1>8 DEF Once
<1>12. SnapshotRead'
  BY <1>8, <1>9, <1>10 DEF ListingInv, SnapshotRead, Folded, Of, Once
<1>13. BeforeSeen'
  BY <1>8, <1>9, <1>10 DEF ListingInv, BeforeSeen, SeenAt, Of
<1>14. BeforeCorrections'
  <2>1. ASSUME NEW e \in y.before \ late
        PROVE  e \in Once(x.sums) \cup x.moved \/ IsCorrected(e)
    BY <1>1, <1>5, <1>8, <1>11, <2>1 DEF ListingInv, BeforeEvents, Got
  <2> QED BY <1>8, <1>9, <2>1 DEF BeforeCorrections, Got, IsCorrected, Of, Once
<1>15. BeforeEvents' /\ ClosedMaster' /\ ClosedEvents'
  BY <1>9 DEF BeforeEvents, ClosedMaster, ClosedEvents
<1>16. SumsSeen'
  <2>1. E.once \ late \subseteq SeenAt(l, instant)
    BY <1>5, <1>3 DEF SeenAt, Point
  <2>2. Once(x.sums) \ late \subseteq SeenAt(l, instant)
    BY <1>10, <1>11, <2>1 DEF ListingInv, SumsSeen
  <2> QED BY <1>9, <2>2 DEF SumsSeen, SeenAt, Of, Once
<1>17. FirstKept'
  BY <1>8, <1>9, <1>10 DEF ListingInv, FirstKept, Once
<1>18. Parts'
  BY <1>1, <1>4, <1>5, <1>8, <1>9, <1>10 DEF ListingInv, Parts, Folded, Of
<1>19. SumsOnce'
  <2>1. ASSUME l \notin torn
        PROVE  Twice(x.sums) \subseteq y.half
    <3>1. Twice(y.sums) \subseteq y.half
      BY <1>10, <2>1 DEF ListingInv, SumsOnce
    \* An event that is in a checkpoint the master record is at is not read.
    <3>2. ASSUME NEW d \in Of("checkpoint"), d.tick <= y.from, NEW e \in d.once
          PROVE  e \notin E.once
      <4>1. PICK p \in fast : p.id = e /\ p.tick <= d.tick
        BY <1>1, <3>2 DEF StoreInv, OnceInv, FoldedContents, Source
      <4>2. \A q \in fast : q.id = e => q = p
        BY <4>1 DEF StoreInv, TimeInv, OnePointPerEvent
      <4>3. p.tick \in Nat /\ d.tick \in Nat
        BY <4>1 DEF StoreInv, TypeOK, Point, Record, Of
      <4> QED BY <1>2, <1>5, <3>2, <4>1, <4>2, <4>3
    <3>3. ASSUME NEW d \in Of("repair"), NEW e \in d.once
          PROVE  e \notin E.once
      <4>1. PICK p \in slow : p.id = e
        BY <1>1, <3>3 DEF StoreInv, OnceInv, FoldedContents, Source
      <4> QED BY <1>5, <4>1 DEF StoreInv, TimeInv, OnePointPerEvent
    <3>4. ASSUME NEW s \in y.sums, NEW e \in s.once, e \in E.once
          PROVE  e \in y.half
      <4>1. CASE \E d \in Folded : d.label = l /\ d.tick <= y.since /\ e \in d.once
        BY <1>1, <2>1, <3>2, <3>3, <3>4, <4>1 DEF ListingInv, ClosedEvents, Folded
      <4>2. CASE s \in Of("checkpoint")
        <5>1. s.kind = "checkpoint"
          BY <4>2 DEF Of
        <5> QED BY <1>1, <3>2, <3>4, <4>2, <5>1 DEF ListingInv, ClosedEvents
      <4> QED BY <1>1, <1>10, <4>1, <4>2 DEF ListingInv, Parts
    <3>5. /\ \A r \in {E} : r.twice = {}
          /\ \A r, s \in {E} : r # s => r.once \cap s.once \subseteq y.half
          /\ \A r \in {E}, s \in y.sums : r # s => r.once \cap s.once \subseteq y.half
      BY <1>4, <3>4
    <3> HIDE DEF y
    <3>6. Twice(y.sums \cup {E}) \subseteq y.half
      BY <3>1, <3>5, ReadApart
    <3> QED BY <1>8, <3>6
  <2> QED BY <1>8, <1>9, <2>1 DEF SumsOnce, Twice
<1>20. Finished'
  BY <1>9 DEF ListingInv, Finished, Good, SeenAt, Of, Once, Twice
<1> QED
  BY <1>9, <1>12, <1>13, <1>14, <1>15, <1>16, <1>17, <1>18, <1>19, <1>20 DEF ListingInv

LEMMA CorrectionsLoad ==
  ASSUME ListingInv, StoreInv, LoadCorrections
  PROVE  ListingInv'
<1> DEFINE l == listing.label
           y == listing.answer
           R == RecordsSince("repair")
           x == [listing.answer EXCEPT !.sums = @ \cup R]
<1>1. /\ ListingTypes /\ listing.at = "corrections" /\ l \in Label /\ instant \in Nat
      /\ "repair" \in Task /\ "checkpoint" \in Folders /\ "repair" \in Folders
      /\ listing.at \in Reading
  BY ListingTyped DEF ListingInv, LoadCorrections, ListingTypes, Task, Folders, Reading
<1>2. y \in AnswerType /\ y.since \in Int /\ y.sums \subseteq Record
  BY <1>1, ListingTyped
<1>3. \A r \in R : /\ r \in Record /\ r.tick \in Nat /\ r.tick <= instant
                   /\ r.once \subseteq Event
                   /\ r.once \ late \subseteq SeenAt(l, instant)
                   /\ r \in Of("repair") /\ r.kind = "repair" /\ r.label = l
                   /\ y.since < r.tick
  BY <1>1, RecordSeen DEF RecordsSince, Upto, Of
<1>4. x \in AnswerType
  BY <1>2, <1>3 DEF AnswerType
<1>5. /\ x.sums = y.sums \cup R /\ x.before = y.before
      /\ x.half = y.half /\ x.moved = y.moved
  BY <1>2 DEF AnswerType
<1>6. /\ listing' = IF listing.second
                    THEN [listing EXCEPT !.at = "done", !.answer = x]
                    ELSE [listing EXCEPT !.at = "snapshots", !.second = TRUE,
                                         !.first = x, !.answer = NoAnswer]
      /\ UNCHANGED <<now, fast, slow, late, records, master, run, torn>>
  BY DEF LoadCorrections, vars
<1> HIDE DEF x
<1>7. x.before \ late \subseteq Once(x.sums) \cup x.moved
  <2>1. ASSUME NEW e \in y.before \ late, IsCorrected(e)
        PROVE  e \in Once(y.sums) \cup Once(R)
    <3>1. PICK c \in Of("repair") : c.label = l /\ c.tick <= instant /\ e \in c.once
      BY <2>1 DEF IsCorrected
    <3>2. c.tick \in Int
      BY DEF StoreInv, TypeOK, Record, Of
    <3>3. CASE c.tick <= y.since
      BY <1>1, <3>1, <3>3 DEF ListingInv, SnapshotRead, Folded
    <3>4. CASE y.since < c.tick
      <4>1. c \in R
        BY <3>1, <3>4 DEF RecordsSince, Upto, Of
      <4> QED BY <3>1, <4>1 DEF Once
    <3> QED BY <1>2, <3>2, <3>3, <3>4
  <2>2. Once(x.sums) = Once(y.sums) \cup Once(R)
    BY <1>5 DEF Once
  <2> QED BY <1>1, <1>5, <2>1, <2>2 DEF ListingInv, BeforeCorrections, Got
<1>8. Once(x.sums) \ late \subseteq SeenAt(l, instant)
  BY <1>1, <1>3, <1>5 DEF ListingInv, SumsSeen, Once
<1>9. ASSUME l \notin torn
      PROVE  Twice(x.sums) \subseteq x.half
  <2>1. Twice(y.sums) \subseteq y.half
    BY <1>1, <1>9 DEF ListingInv, SumsOnce
  <2>2. \A r \in R : r \in Folded /\ r.twice = {}
    BY <1>1, <1>3 DEF StoreInv, OnceInv, FoldedContents, Folded
  <2>3. \A r, s \in R : r # s => r.once \cap s.once = {}
    BY <1>3, <1>9, <2>2 DEF StoreInv, OnceInv, FoldedApart
  <2>4. ASSUME NEW r \in R, NEW s \in y.sums, NEW e \in r.once, e \in s.once
        PROVE  FALSE
    <3>1. CASE \E d \in Folded : d.label = l /\ d.tick <= y.since /\ e \in d.once
      <4>1. PICK d \in Folded : d.label = l /\ d.tick <= y.since /\ e \in d.once
        BY <3>1
      <4>2. d # r
        <5>1. d.tick \in Nat
          BY DEF StoreInv, TypeOK, Record, Folded, Of
        <5> QED BY <1>2, <1>3, <4>1, <5>1
      <4> QED BY <1>3, <1>9, <2>2, <2>4, <4>1, <4>2 DEF StoreInv, OnceInv, FoldedApart
    <3>2. CASE s \in Of("checkpoint") /\ s.label = l
      <4>1. s \in Folded /\ s # r
        BY <1>3, <3>2 DEF Folded, Of
      <4> QED BY <1>3, <1>9, <2>2, <2>4, <3>2, <4>1 DEF StoreInv, OnceInv, FoldedApart
    <3>3. CASE \E p \in fast : p.id = e
      <4>1. \E p \in slow : p.id = e
        BY <1>1, <1>3, <2>4 DEF StoreInv, OnceInv, FoldedContents, Source
      <4> QED BY <3>3, <4>1 DEF StoreInv, TimeInv, OnePointPerEvent
    <3> QED BY <1>1, <2>4, <3>1, <3>2, <3>3 DEF ListingInv, Parts
  <2>5. /\ \A r \in R : r.twice = {}
        /\ \A r, s \in R : r # s => r.once \cap s.once \subseteq y.half
        /\ \A r \in R, s \in y.sums : r # s => r.once \cap s.once \subseteq y.half
    BY <2>2, <2>3, <2>4
  <2> HIDE DEF y, R
  <2>6. Twice(y.sums \cup R) \subseteq y.half
    BY <2>1, <2>5, ReadApart
  <2> QED BY <1>5, <2>6
<1>10. Good(x, instant)
  BY <1>7, <1>8, <1>9 DEF Good
<1>11. NoAnswer \in AnswerType
  BY DEF NoAnswer, AnswerType
<1>12. CASE listing.second
  <2>1. /\ listing'.at = "done" /\ listing'.answer = x /\ listing'.first = listing.first
        /\ listing'.label = l /\ listing'.second = TRUE /\ listing'.start = listing.start
        /\ listing'.end = listing.end /\ instant = listing.end
        /\ ListingTypes'
    BY <1>1, <1>4, <1>6, <1>12 DEF ListingTypes, instant
  <2>2. listing'.at \notin Reading
    BY <2>1 DEF Reading
  <2>3. FirstKept'
    BY <1>1, <1>5, <1>6, <1>12, <2>1 DEF ListingInv, FirstKept, Once
  <2>4. Finished'
    BY <1>6, <1>10, <1>12, <2>1 DEF ListingInv, Finished, Good, SeenAt, Of, Once, Twice
  <2> QED
    BY <2>1, <2>2, <2>3, <2>4
    DEF ListingInv, SnapshotRead, BeforeSeen, BeforeEvents, BeforeCorrections, SumsSeen,
        Parts, ClosedMaster, ClosedEvents, SumsOnce
<1>13. CASE ~listing.second
  <2>1. /\ listing'.at = "snapshots" /\ listing'.first = x /\ listing'.label = l
        /\ listing'.start = listing.start /\ instant = listing.start
        /\ ListingTypes'
    BY <1>1, <1>4, <1>6, <1>11, <1>13 DEF ListingTypes, instant, Fetches
  <2>2. listing'.at \notin Reading /\ listing'.at # "done"
    BY <2>1 DEF Reading
  <2>3. Finished'
    BY <1>6, <1>10, <2>1 DEF Finished, Good, SeenAt, Of, Once, Twice
  <2> QED
    BY <2>1, <2>2, <2>3
    DEF ListingInv, SnapshotRead, BeforeSeen, BeforeEvents, BeforeCorrections, SumsSeen,
        FirstKept, Parts, ClosedMaster, ClosedEvents, SumsOnce
<1> QED BY <1>12, <1>13

\* A listing that has not fetched anything.
LEMMA ListingFresh ==
  ASSUME ListingTypes', listing'.at \notin Reading, listing'.at # "done", ~listing'.second
  PROVE  ListingInv'
BY DEF ListingInv, SnapshotRead, BeforeSeen, BeforeEvents, BeforeCorrections, SumsSeen,
       FirstKept, Parts, ClosedMaster, ClosedEvents, SumsOnce, Finished, Reading

LEMMA FreshTypes ==
  ASSUME NEW at \in Fetches \cup {"idle", "done"}, NEW l \in Label \cup {{}},
         NEW start \in Nat, NEW end \in Nat,
         at # "idle" => l \in Label /\ start <= end,
         listing' = [NoListing EXCEPT !.at = at, !.label = l, !.start = start, !.end = end]
  PROVE  ListingTypes' /\ listing'.at = at /\ ~listing'.second
<1>1. NoAnswer \in AnswerType
  BY DEF NoAnswer, AnswerType
<1> QED BY <1>1 DEF NoListing, ListingTypes

LEMMA ListingStep == ListingInv /\ StoreInv /\ StoreInv' /\ [ListingNext]_listingVars => ListingInv'
<1> SUFFICES ASSUME ListingInv, StoreInv, StoreInv', [ListingNext]_listingVars
             PROVE  ListingInv'
  OBVIOUS
<1>1. CASE Next /\ UNCHANGED listing
  BY <1>1, ListingWaits
<1>2. CASE UNCHANGED listingVars
  BY <1>2, ListingWaits DEF listingVars
<1>3. ASSUME NEW l \in Label, NEW z \in TimeRanges, listMetric(l, z[1], z[2])
      PROVE  ListingInv'
  <2>1. z[1] \in Nat /\ z[2] \in Nat /\ z[1] <= z[2]
    BY RangeAssumption
  <2>2. "snapshots" \in Fetches /\ "snapshots" \notin Reading
    BY DEF Fetches, Reading
  <2>3. listing' = [NoListing EXCEPT !.at = "snapshots", !.label = l, !.start = z[1], !.end = z[2]]
    BY <1>3 DEF listMetric
  <2>4. ListingTypes' /\ listing'.at = "snapshots" /\ ~listing'.second
    BY <2>1, <2>2, <2>3, FreshTypes
  <2> QED BY <2>2, <2>4, ListingFresh
<1>4. CASE getMetricsAtSteps
  BY <1>4, SnapshotsLoad, CheckpointsLoad, MasterLoads, EventsLoad, CorrectionsLoad
  DEF getMetricsAtSteps
<1>5. CASE NextHost
  <2>1. "snapshots" \in Fetches /\ "snapshots" \notin Reading /\ listing.at # "idle"
    BY <1>5 DEF Fetches, Reading, NextHost
  <2>2. /\ listing.label \in Label /\ listing.start \in Nat /\ listing.end \in Nat
        /\ listing.start <= listing.end
    BY <2>1 DEF ListingInv, ListingTypes
  <2>3. listing' = [NoListing EXCEPT !.at = "snapshots", !.label = listing.label,
                                     !.start = listing.start, !.end = listing.end]
    BY <1>5 DEF NextHost
  <2>4. ListingTypes' /\ listing'.at = "snapshots" /\ ~listing'.second
    BY <2>1, <2>2, <2>3, FreshTypes
  <2> QED BY <2>1, <2>4, ListingFresh
<1>6. CASE Respond
  <2>1. ListingTypes' /\ listing'.at = "idle" /\ ~listing'.second
    <3>1. NoAnswer \in AnswerType
      BY DEF NoAnswer, AnswerType
    <3> QED BY <1>6, <3>1 DEF Respond, NoListing, ListingTypes
  <2> QED BY <2>1, ListingFresh DEF Reading
<1> QED BY <1>1, <1>2, <1>3, <1>4, <1>5, <1>6 DEF ListingNext

LEMMA ListingBegins == ListingInit => ListingInv
<1>1. NoAnswer \in AnswerType
  BY DEF NoAnswer, AnswerType
<1> QED
  BY <1>1
  DEF ListingInit, NoListing, ListingInv, ListingTypes, SnapshotRead, BeforeSeen,
      BeforeEvents, BeforeCorrections, SumsSeen, FirstKept, Parts, ClosedMaster,
      ClosedEvents, SumsOnce, Finished, Reading

\* The tasks of the store know nothing of a listing.
LEMMA StoreBesideListing == ListingSpec => []StoreInv
<1>1. ListingInit => Init
  BY DEF ListingInit
<1>2. [ListingNext]_listingVars => [Next]_vars
  BY DEF ListingNext, listingVars, listMetric, getMetricsAtSteps, LoadSnapshots,
         LoadCheckpoints, LoadMasterCheckpoints, LoadEvents, LoadCorrections, Fetched,
         NextHost, Respond
<1>3. ListingSpec => Spec
  BY <1>1, <1>2, PTL DEF ListingSpec, Spec
<1> QED BY <1>3, StoreInvCorrect

THEOREM ListingCorrect == ListingSpec => []ListingInv
<1> QED BY ListingBegins, ListingStep, StoreBesideListing, PTL DEF ListingSpec

\* A listing lacks no event but those of a checkpoint run that ended between two
\* of its fetches, has no event the store does not know of at its instant, and
\* counts none twice but those of a checkpoint without a master record.
THEOREM ListingIsExactCorrect == ListingSpec => []ListingIsExact
<1>1. ASSUME ListingInv, StoreInv, listing.at = "done"
      PROVE  Exact(listing.first, listing.start) /\ Exact(listing.answer, listing.end)
  <2>1. /\ listing.label \in Label /\ listing.start \in Nat /\ listing.end \in Nat
    BY <1>1 DEF ListingInv, ListingTypes
  <2>2. \A end \in Nat : Counted(listing.label, end) \ late = SeenAt(listing.label, end)
    BY <1>1, <2>1, CountedSeen
  <2>3. Good(listing.first, listing.start) /\ Good(listing.answer, listing.end)
    BY <1>1 DEF ListingInv, Finished
  <2> QED BY <2>1, <2>2, <2>3 DEF Good, Exact
<1>2. ListingInv /\ StoreInv => ListingIsExact
  BY <1>1 DEF ListingIsExact
<1> QED BY <1>2, ListingCorrect, StoreBesideListing, PTL

\* A count of operations of a listing is negative by no event but those of a
\* checkpoint run that one of the two queries fell into, late events and those a
\* run that died tore: the second query has what the first has found, and the
\* first counts it once.
THEOREM ListingNotNegativeCorrect == ListingSpec => []ListingNotNegative
<1>1. ASSUME ListingInv
      PROVE  ListingNotNegative
  <2>1. SUFFICES ASSUME listing.at = "done", listing.label \notin torn,
                        NEW e \in Event, e \notin late,
                        e \notin listing.answer.moved, e \notin listing.first.half
                 PROVE  Times(listing.first.sums, e) <= Times(listing.answer.sums, e)
    BY DEF ListingNotNegative
  <2>2. listing.second /\ Good(listing.first, listing.start) /\ Good(listing.answer, listing.end)
    BY <1>1, <2>1 DEF ListingInv, Finished
  <2>3. e \notin Twice(listing.first.sums)
    BY <2>1, <2>2 DEF Good
  <2>4. CASE e \in Once(listing.first.sums)
    <3>1. e \in Once(listing.answer.sums)
      BY <1>1, <2>1, <2>2, <2>4 DEF ListingInv, FirstKept, Good
    <3> QED BY <2>3, <3>1 DEF Times
  <2>5. CASE e \notin Once(listing.first.sums)
    BY <2>3, <2>5 DEF Times
  <2> QED BY <2>4, <2>5
<1> QED BY <1>1, ListingCorrect, PTL
-----------------------------------------------------------------------------
(***************************************************************************)
(* No query reads ahead of the clock.                                      *)
(***************************************************************************)
Behind(x) == x.since <= now /\ x.from <= now

ClockInv ==
  /\ now <= MaxTime
  /\ listing.start <= now /\ listing.end <= now
  /\ Behind(listing.first) /\ Behind(listing.answer)

LEMMA ClockBegins == ListingInit => ClockInv
BY DEF ListingInit, Init, NoListing, NoAnswer, ClockInv, Behind

LEMMA ClockMoves ==
  ASSUME TypeOK, ClockInv, Next
  PROVE  now' <= MaxTime /\ now <= now' /\ now' \in Nat
<1>1. CASE ClockTick
  BY <1>1 DEF ClockTick, TypeOK
<1>2. ASSUME ~ClockTick
      PROVE  UNCHANGED now
  <2>1. Ingest => UNCHANGED now
    BY DEF Ingest, IngestEvent, IngestRepairEvent
  <2>2. CreateCheckpoint \/ RepairRecords => UNCHANGED now
    BY DEF CreateCheckpoint, RepairRecords, Begin
  <2>3. CreateSnapshot => UNCHANGED now
    BY DEF CreateSnapshot, Begin
  <2>4. \A u \in Task : Execute(u) \/ Abort(u) => UNCHANGED now
    BY DEF Execute, WriteRecord, WriteMaster, Abort
  <2> QED BY <1>2, <2>1, <2>2, <2>3, <2>4 DEF Next
<1> QED BY <1>1, <1>2 DEF ClockInv, TypeOK

\* A query reads what is at its instant or before.
LEMMA BehindInstant ==
  ASSUME StoreInv, ListingTypes, ClockInv
  PROVE  /\ instant \in Nat /\ instant <= now /\ now \in Nat
         /\ \A r \in Upto("snapshot", listing.label, instant) : r.tick <= now
         /\ \A m \in MastersSeen : m <= now
<1>1. instant \in Nat /\ instant <= now /\ now \in Nat
  BY ListingTyped DEF ClockInv, instant, StoreInv, TypeOK
<1>2. \A r \in Upto("snapshot", listing.label, instant) : r.tick \in Nat /\ r.tick <= instant
  BY DEF Upto, StoreInv, TypeOK, Record
<1>3. \A m \in MastersSeen : m \in Nat /\ m <= instant
  BY DEF MastersSeen, StoreInv, TypeOK, Task
<1> QED BY <1>1, <1>2, <1>3

LEMMA ClockFetch ==
  ASSUME ListingTypes, ClockInv, NEW next, NEW x, Behind(x), Fetched(next, x)
  PROVE  ClockInv'
BY DEF ListingTypes, ClockInv, Behind, Fetched, vars

LEMMA SnapshotsClock ==
  ASSUME StoreInv, ListingTypes, ClockInv, LoadSnapshots
  PROVE  ClockInv'
<1>0. listing.answer \in AnswerType /\ now \in Nat
  BY DEF ListingTypes, StoreInv, TypeOK
<1> DEFINE latest == Latest(Upto("snapshot", listing.label, instant))
<1>1. \A r \in latest : r.tick <= now
  BY BehindInstant DEF Latest
<1>2. PICK t \in IF latest = {} THEN {-1} ELSE {r.tick : r \in latest} :
        Fetched("checkpoints",
                [NoAnswer EXCEPT !.sums = latest, !.since = t,
                                 !.before = Counted(listing.label, instant)])
  BY DEF LoadSnapshots
<1> DEFINE x == [NoAnswer EXCEPT !.sums = latest, !.since = t,
                                 !.before = Counted(listing.label, instant)]
<1>3. t <= now
  BY <1>0, <1>1, <1>2
<1>4. Behind(x) /\ Fetched("checkpoints", x)
  BY <1>0, <1>2, <1>3 DEF NoAnswer, Behind
<1> HIDE DEF x
<1> QED BY <1>4, ClockFetch

LEMMA MasterClock ==
  ASSUME StoreInv, ListingTypes, ClockInv, LoadMasterCheckpoints
  PROVE  ClockInv'
<1>0. listing.answer \in AnswerType /\ now \in Nat
  BY DEF ListingTypes, StoreInv, TypeOK
<1>1. PICK t \in IF MasterUpto = {} THEN {-1}
                 ELSE {m \in MasterUpto : \A n \in MasterUpto : n <= m} :
        Fetched("events",
                [listing.answer EXCEPT
                   !.from = t,
                   !.moved = Once({r \in RecordsSince("checkpoint") \ listing.answer.sums :
                                     \E m \in MastersSeen : r.tick <= m})])
  BY DEF LoadMasterCheckpoints
<1> DEFINE x == [listing.answer EXCEPT
                   !.from = t,
                   !.moved = Once({r \in RecordsSince("checkpoint") \ listing.answer.sums :
                                     \E m \in MastersSeen : r.tick <= m})]
<1>2. t <= now
  BY <1>1, BehindInstant DEF MasterUpto
<1>3. Behind(x) /\ Fetched("events", x)
  BY <1>0, <1>1, <1>2 DEF AnswerType, ClockInv, Behind
<1> HIDE DEF x
<1> QED BY <1>3, ClockFetch

LEMMA ClockStep ==
  ASSUME StoreInv, ListingInv, ClockInv, [ListingNext]_listingVars
  PROVE  ClockInv'
<1>1. /\ ListingTypes /\ listing.answer \in AnswerType /\ listing.first \in AnswerType
      /\ now \in Nat /\ TypeOK
  BY DEF ListingInv, ListingTypes, StoreInv, TypeOK
<1>2. CASE Next /\ UNCHANGED listing
  <2>1. now' <= MaxTime /\ now <= now' /\ now' \in Nat
    BY <1>1, <1>2, ClockMoves
  <2>2. /\ listing.start \in Nat /\ listing.end \in Nat
        /\ \A x \in {listing.first, listing.answer} : x.since \in Int /\ x.from \in Int
    BY <1>1 DEF ListingTypes, AnswerType
  <2> QED BY <1>1, <1>2, <2>1, <2>2 DEF ClockInv, Behind
<1>3. ASSUME NEW l \in Label, NEW z \in TimeRanges, listMetric(l, z[1], z[2])
      PROVE  ClockInv'
  <2>1. z[1] \in Nat /\ z[2] \in Nat /\ z[1] <= z[2] /\ z[2] <= now
    BY <1>3, RangeAssumption DEF listMetric
  <2> QED BY <1>1, <1>3, <2>1 DEF listMetric, vars, NoListing, NoAnswer, ClockInv, Behind
<1>4. CASE LoadSnapshots
  BY <1>1, <1>4, SnapshotsClock
<1>5. CASE LoadCheckpoints
  <2> DEFINE x == [listing.answer EXCEPT
                     !.sums = @ \cup RecordsSince("checkpoint"),
                     !.half = Once({r \in RecordsSince("checkpoint") :
                                      \A m \in MastersSeen : m < r.tick})]
  <2>1. Behind(x) /\ Fetched("master", x)
    BY <1>1, <1>5 DEF LoadCheckpoints, AnswerType, ClockInv, Behind
  <2> HIDE DEF x
  <2> QED BY <1>1, <2>1, ClockFetch
<1>6. CASE LoadMasterCheckpoints
  BY <1>1, <1>6, MasterClock
<1>7. CASE LoadEvents
  <2> DEFINE x == [listing.answer EXCEPT
                     !.sums = @ \cup {Events("event", instant, listing.label,
                                        {p \in fast : listing.answer.from < p.tick
                                                      /\ p.tick <= instant})}]
  <2>1. Behind(x) /\ Fetched("corrections", x)
    BY <1>1, <1>7 DEF LoadEvents, AnswerType, ClockInv, Behind
  <2> HIDE DEF x
  <2> QED BY <1>1, <2>1, ClockFetch
<1>8. CASE LoadCorrections
  <2> DEFINE x == [listing.answer EXCEPT !.sums = @ \cup RecordsSince("repair")]
  <2>1. listing' = IF listing.second
                   THEN [listing EXCEPT !.at = "done", !.answer = x]
                   ELSE [listing EXCEPT !.at = "snapshots", !.second = TRUE,
                                        !.first = x, !.answer = NoAnswer]
    BY <1>8 DEF LoadCorrections
  <2>2. Behind(x) /\ Behind(NoAnswer)
    BY <1>1 DEF AnswerType, NoAnswer, ClockInv, Behind
  <2>3. now' = now
    BY <1>8 DEF LoadCorrections, vars
  <2> HIDE DEF x
  <2>4. Behind(listing'.first) /\ Behind(listing'.answer)
    BY <1>1, <2>1, <2>2 DEF ListingTypes, ClockInv
  <2>5. listing'.start = listing.start /\ listing'.end = listing.end
    BY <1>1, <2>1 DEF ListingTypes
  <2> QED BY <1>1, <2>3, <2>4, <2>5 DEF ClockInv, Behind
<1>9. CASE NextHost
  BY <1>1, <1>9 DEF NextHost, vars, NoListing, NoAnswer, ClockInv, Behind
<1>11. CASE Respond
  BY <1>1, <1>11 DEF Respond, vars, NoListing, NoAnswer, ClockInv, Behind
<1>10. CASE UNCHANGED listingVars
  BY <1>10 DEF listingVars, vars, ClockInv, Behind
<1> QED
  BY <1>2, <1>3, <1>4, <1>5, <1>6, <1>7, <1>8, <1>9, <1>10, <1>11 DEF ListingNext, getMetricsAtSteps

\* The variables of a listing keep their types: what it is asked for and what it
\* reads are never ahead of the clock, and it sums records of the store.
THEOREM QueryTypeCorrect == ListingSpec => []QueryTypeOK
<1>1. ASSUME StoreInv, ListingInv, ClockInv
      PROVE  QueryTypeOK
  <2>1. \A t \in Nat : t <= now => t \in Instants
    BY <1>1 DEF ClockInv, Instants, StoreInv, TypeOK
  <2>2. ASSUME NEW x \in {listing.first, listing.answer}
        PROVE  /\ {x.since, x.from} \subseteq Instants \cup {-1}
               /\ x.sums \subseteq Record
               /\ UNION {x.before, x.half, x.moved} \subseteq Event
    <3>1. x \in AnswerType /\ x.since <= now /\ x.from <= now
      BY <1>1 DEF ListingInv, ListingTypes, ClockInv, Behind
    <3> QED BY <2>1, <3>1 DEF AnswerType
  <2>3. /\ listing.at \in Fetches \cup {"idle", "done"}
        /\ listing.at # "idle" =>
             /\ listing.label \in Label
             /\ {listing.start, listing.end} \subseteq Instants
             /\ listing.start <= listing.end
    BY <1>1, <2>1 DEF ListingInv, ListingTypes, ClockInv
  <2> QED BY <1>1, <2>2, <2>3 DEF QueryTypeOK, ListingTypeOK, StoreInv
<1> QED
  BY <1>1, ClockBegins, ClockStep, ListingCorrect, StoreBesideListing, PTL DEF ListingSpec
=============================================================================
