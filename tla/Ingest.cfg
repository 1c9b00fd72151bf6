SPECIFICATION FairSpec
CONSTANTS
  m1 = m1
  m2 = m2
  m3 = m3
  m4 = m4
  w1 = w1
  w2 = w2
  Metric = {m1, m2, m3, m4}
  Worker = {w1, w2}
  Stamp <- MCStamp
  MaxDelay <- MCMaxDelay
  Rank <- MCRank
  NumHosts = 2
  ShardSize = 3
  IngestLag = 3
  SlowAge = 6
  MetricsEnabled = TRUE
  Milli = 3
  MaxPushes = 3
  MaxFaults = 1
  MaxTime = 18
INVARIANTS TypeOK NothingDropped PromptNeverRaces AgainIsTheSame OnceWithoutFaults NoOrphanKeys
PROPERTIES StoredStays CacheDrains
CHECK_DEADLOCK FALSE
