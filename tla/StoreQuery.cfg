SPECIFICATION ListingSpec
CONSTANTS
  e1 = e1
  e2 = e2
  acct = acct
  o1 = o1
  Event = {e1, e2}
  Label = {acct}
  Origin = {o1}
  LabelsOf <- MCLabelsOf
  OriginOf <- OneOrigin
  TimeRanges <- MCTimeRanges
  RepairLag = 0
  CheckpointLag = 1
  SnapshotLag = 3
  MaxSnapshot = 1
  MaxRun = 1
  MaxDelay = 1
  MaxTime = 4
  MaxAborts = 0
  MetricsEnabled = TRUE
INVARIANTS QueryTypeOK ListingIsExact ListingNotNegative
CHECK_DEADLOCK FALSE
SYMMETRY Symmetric
