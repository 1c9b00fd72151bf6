--------------------------- MODULE MCMetricStore ---------------------------
(* Small instances of MetricStore for TLC. *)
EXTENDS MetricStoreInv

CONSTANTS e1, e2, e3, acct, bucket, o1, o2

MCLabelsOf ==
  [e \in Event |-> (IF e = e2 THEN {acct} ELSE {acct, bucket}) \cap Label]
OneOrigin == [e \in Event |-> o1]
TwoOrigins == [e \in Event |-> IF e = e2 THEN o2 ELSE o1]
=============================================================================
