SPECIFICATION FairSpec
CONSTANTS
  Loop = Loop
  insert = insert
  c1 = c1
  c2 = c2
  c3 = c3
  None = None
  Tasks <- MCTasks
  Calls <- ThreeCalls
  MergeThreshold = 2
  MaxFlushes = 2
  MaxFaults = 1
INVARIANTS
  TypeOK
  RegisteredIsRemote
  SnapshotCoversSegments
PROPERTIES
  LiveSegmentsStay
  EventuallyRegistered
