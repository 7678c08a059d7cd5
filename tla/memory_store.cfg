SPECIFICATION FairSpec
CONSTANTS
  n1 = n1
  n2 = n2
  None = None
  Clients = {n1, n2}
  Names = {"reader-0", "reader-1"}
  Data = {"a"}
  Ttl = 2
  MaxStarts = 1
INVARIANTS
  WinnerIsTheLeader
  ReadsAreCurrent
PROPERTIES
  FailoverHappens
  FollowersCatchUp
