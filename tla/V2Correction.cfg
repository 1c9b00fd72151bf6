SPECIFICATION MCSpec
CONSTANTS
  Nil = Nil
  None = None
  a = a
  b = b
  c = c
  Metrics = {1, 2}
  Readers = {1, 2}
  Retention = 2
  Chunk = 2
  Limit = 1000
  Usages = {0, 944, 946}
  MaxClock = 4
  MaxManual = 1
  MaxMisses = 1
  History <- HistoryOf
  Present = 9
  MaxMistakes = 2
  MaxSnapshots = 1
  Buckets = {b, c}
  Owner <- OwnerOf
  Uploads <- UploadsOf
  Changes <- ChangesOf
  PageSize = 2
  MaxChanges = 2
  MaxErrors = 2
CHECK_DEADLOCK FALSE
INVARIANT CorrectionCounts
