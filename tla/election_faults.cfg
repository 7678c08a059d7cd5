SPECIFICATION FairSpec
CONSTANTS
  n1 = n1
  n2 = n2
  None = None
  Nodes <- TwoNodes
  Probed <- OnlyN1
  Ttl = 2
  MaxCrashes = 1
  MaxErrors = 1
  MaxDelays = 1
  MaxEvents = 2
INVARIANTS
  TypeOK
PROPERTIES
  LeaderStays
  OneLeaderInTheEnd
