SPECIFICATION FairSpec
CONSTANTS
  m1 = m1
  m2 = m2
  m3 = m3
  Metric = {m1, m2, m3}
  ChunkSize = 2
  MaxCached = 2
  MaxFaults = 3
INVARIANTS TypeOK NothingForgotten OnceUnlessUnanswered OneDrain CacheIsCapped
PROPERTIES DrainEmpties
CHECK_DEADLOCK FALSE
