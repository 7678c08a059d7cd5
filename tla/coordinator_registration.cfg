SPECIFICATION FairSpec
CONSTANTS
  c1 = c1
  c2 = c2
  s1 = s1
  h1 = h1
  None = None
  Coordinators = {c1, c2}
  Readers = {1}
  Replicas = {1, 2}
  Tokens <- MCTokens
  token <- MCToken
  Urls <- TwoUrls
  Rounds = 2
  Modes = {"scatter"}
  Shard <- MCShard
  K = 2
  Searches = {}
  Probes = {}
  Lap = 1
  MaxFaults = 4
PROPERTIES
  ReadersListed
CHECK_DEADLOCK FALSE
