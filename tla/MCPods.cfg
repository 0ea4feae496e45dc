SPECIFICATION LiveSpec
CONSTANTS
  Pod = {a, b}
  NoPod = NoPod
  Envs <- MCEnvs
  Versions = {1, 2}
  MaxConnections = 1
  MaxLoad = 2
  MaxReleases = 2
  MaxKills = 1
INVARIANTS ServesWhenSound
PROPERTIES ServingEndsDrained Recovers
CHECK_DEADLOCK FALSE
