---------------------------- MODULE MetricQuery ----------------------------
(***************************************************************************)
(* A listing of v2 fetch by fetch, beside the store and its tasks: the     *)
(* macro getMetrics calls getMetricsAt for the instant a range starts at   *)
(* and then for the one it ends at, and each of these reads the snapshot,  *)
(* the checkpoints, the master record, the events and the corrections with *)
(* a fetch of their own, between which the store goes on.  MetricStore     *)
(* takes a query for one step; here is what that leaves out.               *)
(***************************************************************************)
EXTENDS MetricStore

CONSTANT TimeRanges  \* the ranges <<start, end>> that are asked for

ASSUME RangeAssumption ==
  \A x \in TimeRanges : {x[1], x[2]} \subseteq Nat /\ x[1] <= x[2]

VARIABLE listing

listingVars == <<vars, listing>>

Fetches == {"snapshots", "checkpoints", "master", "events", "corrections"}

\* An answer that is being computed: the records it sums, the tick of the
\* snapshot and that of the master record it starts from.  As history, the
\* answer of the store at its beginning, the events it found in a checkpoint
\* without a master record, and those it found in no checkpoint although they
\* are behind the master record it read.
NoAnswer == [sums |-> {}, since |-> -1, from |-> -1, before |-> {}, half |-> {}, moved |-> {}]

NoListing == [at |-> "idle", label |-> {}, start |-> 0, end |-> 0, second |-> FALSE,
              first |-> NoAnswer, answer |-> NoAnswer]

ListingTypeOK ==
  /\ listing.at \in Fetches \cup {"idle", "done"}
  /\ listing.at # "idle" =>
       /\ listing.label \in Label
       /\ {listing.start, listing.end} \subseteq Instants /\ listing.start <= listing.end
  /\ \A x \in {listing.first, listing.answer} :
       /\ {x.since, x.from} \subseteq Instants \cup {-1}
       /\ x.sums \subseteq Record
       /\ UNION {x.before, x.half, x.moved} \subseteq Event

QueryTypeOK == TypeOK /\ ListingTypeOK

ListingInit == Init /\ listing = NoListing

instant == IF listing.second THEN listing.end ELSE listing.start

Fetched(next, answer) ==
  /\ listing' = [listing EXCEPT !.at = next, !.answer = answer]
  /\ UNCHANGED vars
-----------------------------------------------------------------------------
listMetric(l, start, end) ==
  /\ listing.at = "idle"
  /\ end <= now
  /\ listing' = [NoListing EXCEPT !.at = "snapshots", !.label = l, !.start = start, !.end = end]
  /\ UNCHANGED vars

LoadSnapshots ==
  LET latest == Latest(Upto("snapshot", listing.label, instant))
  IN  /\ listing.at = "snapshots"
      /\ \E t \in IF latest = {} THEN {-1} ELSE {r.tick : r \in latest} :
           Fetched("checkpoints",
                   [NoAnswer EXCEPT !.sums = latest, !.since = t,
                                    !.before = Counted(listing.label, instant)])

\* What a query takes of the records of a task, after the snapshot it found.
RecordsFromSnapshot(kind) ==  \* Slip
  {r \in Upto(kind, listing.label, instant) : listing.answer.since <= r.tick}

RecordsSince(kind) ==
  {r \in Upto(kind, listing.label, instant) : listing.answer.since < r.tick}

MastersSeen == {m \in master["checkpoint"] : m <= instant}

LoadCheckpoints ==
  /\ listing.at = "checkpoints"
  /\ Fetched("master",
             [listing.answer EXCEPT
                !.sums = @ \cup RecordsSince("checkpoint"),
                !.half = Once({r \in RecordsSince("checkpoint") :
                                 \A m \in MastersSeen : m < r.tick})])

MasterOfAnyInstant == master["checkpoint"]  \* Slip
MasterUpto == MastersSeen

LoadMasterCheckpoints ==
  /\ listing.at = "master"
  /\ \E t \in IF MasterUpto = {} THEN {-1}
              ELSE {m \in MasterUpto : \A n \in MasterUpto : n <= m} :
       Fetched("events",
               [listing.answer EXCEPT
                  !.from = t,
                  !.moved = Once({r \in RecordsSince("checkpoint") \ listing.answer.sums :
                                    \E m \in MastersSeen : r.tick <= m})])

LoadEvents ==
  /\ listing.at = "events"
  /\ Fetched("corrections",
             [listing.answer EXCEPT
                !.sums = @ \cup {Events("event", instant, listing.label,
                                   {p \in fast : listing.answer.from < p.tick
                                                 /\ p.tick <= instant})}])

\* With the corrections the answer is complete: it is that about the start,
\* and the one about the end is next, or the listing has both.
LoadCorrections ==
  LET answer == [listing.answer EXCEPT !.sums = @ \cup RecordsSince("repair")]
  IN  /\ listing.at = "corrections"
      /\ listing' = IF listing.second
                    THEN [listing EXCEPT !.at = "done", !.answer = answer]
                    ELSE [listing EXCEPT !.at = "snapshots", !.second = TRUE,
                                         !.first = answer, !.answer = NoAnswer]
      /\ UNCHANGED vars

\* What was asked for is lost with the host that failed.
NextHostForgets ==  \* Slip
  /\ listing.at \in Fetches
  /\ listing' = [NoListing EXCEPT !.at = "snapshots"]
  /\ UNCHANGED vars

\* The request fails, and the next host executes the macro from its beginning.
NextHost ==
  /\ listing.at \in Fetches
  /\ listing' = [NoListing EXCEPT !.at = "snapshots", !.label = listing.label,
                                  !.start = listing.start, !.end = listing.end]
  /\ UNCHANGED vars

Respond ==
  /\ listing.at = "done"
  /\ listing' = NoListing
  /\ UNCHANGED vars

getMetricsAtSteps ==
  \/ LoadSnapshots \/ LoadCheckpoints \/ LoadMasterCheckpoints \/ LoadEvents
  \/ LoadCorrections

ListingNext ==
  \/ Next /\ UNCHANGED listing
  \/ \E l \in Label, x \in TimeRanges : listMetric(l, x[1], x[2])
  \/ getMetricsAtSteps \/ NextHost \/ Respond

ListingSpec == ListingInit /\ [][ListingNext]_listingVars
-----------------------------------------------------------------------------
\* An answer that was fetched step by step lies between those of the store when
\* it began and now, whatever the tasks wrote meanwhile, but for the events of
\* a checkpoint run that ended between two of its fetches: it lacks them, and
\* no others.  It counts no event twice but those of a checkpoint that has no
\* master record yet.
Exact(answer, end) ==
  /\ answer.before \ late \subseteq Once(answer.sums) \cup answer.moved
  /\ Once(answer.sums) \ late \subseteq Counted(listing.label, end)
  /\ listing.label \notin torn => Twice(answer.sums) \subseteq answer.half

ListingIsExact ==
  listing.at = "done" => Exact(listing.first, listing.start) /\ Exact(listing.answer, listing.end)

\* How often an answer counts an event: two stands for two times or more.
Times(sums, e) == IF e \in Twice(sums) THEN 2 ELSE IF e \in Once(sums) THEN 1 ELSE 0

\* No event takes more from a count of operations by the answer that is
\* subtracted than it brings by the other, so that the count, which no code
\* keeps from being negative, is not.  It can be: by the events of a checkpoint
\* run that ended between two fetches of the second query, which that answer
\* lacks; by those of a run that had written a checkpoint and no master record
\* when the first query read them, which that answer counts twice and the
\* second, after the run, once; by events that came in too late; and by a run
\* that died half way.  No other event is in the first answer two times
\* (ListingIsExact), so that no number above two has to be told from two.
ListingNotNegative ==
  listing.at = "done" /\ listing.label \notin torn =>
    \A e \in Event \ (late \cup listing.answer.moved \cup listing.first.half) :
      Times(listing.first.sums, e) <= Times(listing.answer.sums, e)
=============================================================================
