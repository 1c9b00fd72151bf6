---------------------------- MODULE MetricLedger ----------------------------
(***************************************************************************)
(* What the metric store promises: the answer about a label only grows,    *)
(* by an event the moment it is ingested, or by events known to be slow    *)
(* when a repair gets to them.                                             *)
(***************************************************************************)
CONSTANTS Event, Label, LabelsOf

VARIABLES
  answer,   \* the events a query about the present counts, per label
  pending   \* the slow events the store knows of

vars == <<answer, pending>>

Init ==
  /\ answer = [l \in Label |-> {}]
  /\ pending = {}

Record(e) ==
  /\ answer' = [l \in Label |-> IF l \in LabelsOf[e] THEN answer[l] \cup {e}
                                                     ELSE answer[l]]
  /\ UNCHANGED pending

RecordSlow(e) ==
  /\ pending' = pending \cup {e}
  /\ UNCHANGED answer

Correct(l, E) ==
  /\ \A e \in E : l \in LabelsOf[e]
  /\ answer' = [answer EXCEPT ![l] = @ \cup E]
  /\ UNCHANGED pending

Next ==
  \/ \E e \in Event : Record(e) \/ RecordSlow(e)
  \/ \E l \in Label, E \in SUBSET pending : Correct(l, E)

Spec == Init /\ [][Next]_vars
=============================================================================
