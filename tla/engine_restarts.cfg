SPECIFICATION Spec
CONSTANTS
  i1 = i1
  i2 = i2
  v1 = v1
  v2 = v2
  None = None
  Ids <- MCIds
  Vectors <- OneVector
  FlushThreshold = 1
  MergeThreshold = 2
  MaxLsn = 3
  KillPoints <- AllPoints
  TornFiles = {"wal", "tombstones", "segment"}
INVARIANTS
  SegmentsVisible
  LsnsAreFresh
CHECK_DEADLOCK FALSE
