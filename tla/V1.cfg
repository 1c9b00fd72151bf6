SPECIFICATION MCSpec
CONSTANTS
  NaN = NaN
  Nil = Nil
  a = a
  b = b
  c = c
  Metrics <- AllMetrics
  Ids = {1, 2}
  Enabled = {"deleteObject", "putObject", "deleteBucket", "listBucketMultipartUploads"}
  ExpireMetrics = TRUE
  BatchSize = 2
  Jobs = {1, 2}
  Period = 2
  MaxRange = 2
  MaxTime = 2
  MaxFaults = 3
  Buckets = {b, c}
  Owner <- OwnerOf
  Locked = {b}
  OnlyLatest = TRUE
  Uploads <- UploadsOf
  PageSize = 2
  Changes <- ChangesOf
  Sentinels = 2
INVARIANTS V1TypeOK CountedOnce ListingExact SnapshotsFollow FailedKept
PROPERTIES ClientsReplayed ReindexHealed
CHECK_DEADLOCK FALSE
