SPECIFICATION Spec
CONSTANTS
  Ids <- MCIds
  NumShards = 2
  FlushThreshold = 2
  MergeThreshold = 3
INVARIANTS
  WritesSurvive
  ReadersSeeTheAuthor
