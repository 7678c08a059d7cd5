SPECIFICATION Spec
CONSTANTS
  c1 = c1
  c2 = c2
  s1 = s1
  h1 = h1
  None = None
  Coordinators = {c1}
  Readers = {1, 2}
  Replicas = {1, 2}
  Tokens <- MCTokens
  token <- MCToken
  Urls <- OneUrl
  Rounds = 1
  Modes = {"scatter", "replicated", "unknown"}
  Shard <- MCShard
  K = 2
  Searches = {s1}
  Probes = {h1}
  Lap = 2
  MaxFaults = 1
INVARIANTS
  TypeOK
  CompleteAnswersAreExact
  NoShardIsMissed
  KeysAreOwned
CHECK_DEADLOCK FALSE
