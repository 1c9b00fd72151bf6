--------------------------- MODULE MCShardIngest ---------------------------
(* Small instances of ShardIngest for TLC: a millisecond is three ticks. *)
EXTENDS ShardIngest

CONSTANTS m1, m2, m3, m4, w1, w2

\* Metrics m1 and m2 are of one instant, m3 shares their shard, m4 comes before.
MCStamp == [m \in Metric |-> IF m = m4 THEN 9 ELSE IF m = m3 THEN 14 ELSE 12]
MCRank == [m \in Metric |-> IF m = m1 THEN 2 ELSE IF m = m2 THEN 1
                            ELSE IF m = m3 THEN 3 ELSE 4]

\* Only m2 and m4 always come in time.
MCMaxDelay == [m \in Metric |-> IF m \in {m1, m3} THEN 3 ELSE 0]
=============================================================================
