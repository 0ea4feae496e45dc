SPECIFICATION Spec
CONSTANTS
  Pod = {a, b}
  NoPod = NoPod
  Envs <- MCEnvs
  Versions = {1, 2}
  MaxConnections = 1
  MaxLoad = 2
  MaxReleases = 1
  MaxKills = 0
PROPERTIES SchemaStillWhileServed
CHECK_DEADLOCK FALSE
