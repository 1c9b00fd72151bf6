SPECIFICATION Spec
CONSTANTS
  m1 = m1
  m2 = m2
  m3 = m3
  m4 = m4
  w1 = w1
  w2 = w2
  Metric = {m2, m4}
  Worker = {w1, w2}
  Stamp <- MCStamp
  MaxDelay <- MCMaxDelay
  Rank <- MCRank
  NumHosts = 1
  ShardSize = 3
  IngestLag = 3
  SlowAge = 6
  MetricsEnabled = FALSE
  Milli = 3
  MaxPushes = 2
  MaxFaults = 0
  MaxTime = 18
INVARIANTS EventsFound
CHECK_DEADLOCK FALSE
