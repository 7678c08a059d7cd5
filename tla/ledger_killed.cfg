SPECIFICATION LedgerSpec
CONSTANTS
  i1 = i1
  i2 = i2
  v1 = v1
  v2 = v2
  None = None
  Ids <- MCIds
  Vectors <- MCVectors
  FlushThreshold = 2
  MergeThreshold = 2
  MaxLsn = 4
  KillPoints <- SafePoints
  TornFiles = {"meta", "segment"}
SYMMETRY Symmetry
INVARIANTS
  NewestRowSurvives
  ServesLedger
  UnflushedWritesAreLogged
CHECK_DEADLOCK FALSE
