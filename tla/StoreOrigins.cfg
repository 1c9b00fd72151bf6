SPECIFICATION Spec
CONSTANTS
  e1 = e1
  e2 = e2
  e3 = e3
  acct = acct
  bucket = bucket
  o1 = o1
  o2 = o2
  Event = {e1, e2}
  Label = {acct, bucket}
  Origin = {o1, o2}
  LabelsOf <- MCLabelsOf
  OriginOf <- TwoOrigins
  RepairLag = 0
  CheckpointLag = 1
  SnapshotLag = 3
  MaxSnapshot = 2
  MaxRun = 1
  MaxDelay = 1
  MaxTime = 5
  MaxAborts = 0
  MetricsEnabled = TRUE
INVARIANTS RepairsCounted
CHECK_DEADLOCK FALSE
