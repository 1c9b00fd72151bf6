SPECIFICATION FairSpec
CONSTANTS
  m1 = m1
  m2 = m2
  m3 = m3
  Metric = {m1, m2}
  ChunkSize = 2
  MaxCached = 2
  MaxFaults = 2
PROPERTIES Rescheduled
CHECK_DEADLOCK FALSE
