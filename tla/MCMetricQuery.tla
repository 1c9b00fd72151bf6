--------------------------- MODULE MCMetricQuery ---------------------------
(* A small instance of MetricQuery for TLC. *)
EXTENDS MetricQuery, TLC

CONSTANTS e1, e2, acct, o1

MCLabelsOf == [e \in Event |-> {acct}]
MCTimeRanges == {<<1, 3>>, <<2, 2>>, <<2, 4>>}
OneOrigin == [e \in Event |-> o1]

\* The events are of one label and one origin.
Symmetric == Permutations(Event)
=============================================================================
