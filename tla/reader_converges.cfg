SPECIFICATION FairReadSpec
CONSTANTS
  i1 = i1
  i2 = i2
  v1 = v1
  v2 = v2
  None = None
  Ids <- OneId
  Vectors <- MCVectors
  FlushThreshold = 1
  MergeThreshold = 3
  MaxLsn = 4
  KillPoints = {}
  TornFiles = {}
  CacheSizes = {1, 2}
  MaxRestarts = 1
PROPERTIES
  ReaderConverges
