SPECIFICATION FairSpec
CONSTANTS
  e1 = e1
  e2 = e2
  e3 = e3
  acct = acct
  bucket = bucket
  o1 = o1
  o2 = o2
  Event = {e1}
  Label = {acct, bucket}
  Origin = {o1}
  LabelsOf <- MCLabelsOf
  OriginOf <- OneOrigin
  RepairLag = 0
  CheckpointLag = 1
  SnapshotLag = 3
  MaxSnapshot = 1
  MaxRun = 1
  MaxDelay = 1
  MaxTime = 6
  MaxAborts = 1
  MetricsEnabled = TRUE
INVARIANTS Inductive
PROPERTIES RepairsSettle
CHECK_DEADLOCK FALSE
