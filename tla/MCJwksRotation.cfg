SPECIFICATION EnvSpec
CONSTANTS
  Callers = {c1, c2, c3}
  NoOne = NoOne
  Kids = {k1}
  AdvertisedTtls = {2, 3}
  MaxTtl = 2
  StaleGrace = 1
  MinRefetch = 2
  Prompt = TRUE
  HttpTimeout = 2
  FailureThreshold = 2
  ResetAfter = 2
INVARIANTS
  SingleFlight
  ProbeCustody
  GateMatchesRun
  NoneStranded
PROPERTIES
  UnauthorizedMeansAbsent
  RevocationBound
  FloorHolds
  JoinerHears
  FlightIsLease
