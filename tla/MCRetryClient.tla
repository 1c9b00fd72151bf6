--------------------------- MODULE MCRetryClient ---------------------------
(* Small instances of RetryClient for TLC. *)
EXTENDS RetryClient

CONSTANTS m1, m2, m3
=============================================================================
