------------------------------- MODULE V2Tasks -------------------------------
(* The tasks and counters of version 2 beside each other.  They share the store *)
(* and no variable of these models: any of them may step, in any order.         *)
EXTENDS StorageCounter, DiskUsage, Migrate, ReindexV2

\* The type invariant: each task is at one of its stages, with the values of its
\* code, and the store and the counters have records of their types only.
V2TypeOK == StorageTypeOK /\ DiskTypeOK /\ MigrateTypeOK /\ ReindexV2TypeOK
=============================================================================
