SPECIFICATION Spec
CONSTANTS
  e1 = e1
  e2 = e2
  e3 = e3
  acct = acct
  bucket = bucket
  o1 = o1
  o2 = o2
  Event = {e1, e2}
  Label = {acct, bucket}
  Origin = {o1}
  LabelsOf <- MCLabelsOf
  OriginOf <- OneOrigin
  RepairLag = 0
  CheckpointLag = 1
  SnapshotLag = 3
  MaxSnapshot = 2
  MaxRun = 1
  MaxDelay = 1
  MaxTime = 5
  MaxAborts = 0
  MetricsEnabled = TRUE
INVARIANTS TypeOK NothingLost RepairsCounted NothingCountedTwice SnapshotsInvisible
PROPERTIES ImplementsLedger
CHECK_DEADLOCK FALSE
