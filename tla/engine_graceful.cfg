SPECIFICATION LedgerSpec
CONSTANTS
  i1 = i1
  i2 = i2
  v1 = v1
  v2 = v2
  None = None
  Ids <- MCIds
  Vectors <- MCVectors
  FlushThreshold = 2
  MergeThreshold = 3
  MaxLsn = 5
  KillPoints = {}
  TornFiles = {}
  Distance <- NearAndFar
  NList = 2
  TrainingPoints = 1
  Requests <- MCRequests
SYMMETRY IdSymmetry
INVARIANTS
  TypeOK
  AnswersAreCurrent
  MissesOnlyBehindHidden
  HealthCountsFoundRows
PROPERTIES
  ImplementsVectorStore
  ClearedIdsAreGone
CHECK_DEADLOCK FALSE
