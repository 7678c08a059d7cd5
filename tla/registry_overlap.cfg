SPECIFICATION FairSpec
CONSTANTS
  Loop = Loop
  insert = insert
  c1 = c1
  c2 = c2
  c3 = c3
  None = None
  Tasks <- MCTasks
  Calls <- TwoCalls
  MergeThreshold = 3
  MaxFlushes = 2
  MaxFaults = 0
PROPERTIES
  FlushedSegmentsAreListed
