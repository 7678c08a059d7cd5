SPECIFICATION LedgerSpec
CONSTANTS
  i1 = i1
  i2 = i2
  v1 = v1
  v2 = v2
  None = None
  Ids <- MCIds
  Vectors <- MCVectors
  FlushThreshold = 2
  MergeThreshold = 2
  MaxLsn = 4
  KillPoints = {"idle"}
  TornFiles = {}
SYMMETRY Symmetry
INVARIANTS
  AcknowledgedInsertsSurvive
CHECK_DEADLOCK FALSE
