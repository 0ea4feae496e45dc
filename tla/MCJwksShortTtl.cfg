SPECIFICATION Spec
CONSTANTS
  Callers = {c1, c2}
  NoOne = NoOne
  Kids = {k1}
  AdvertisedTtls = {1}
  MaxTtl = 2
  StaleGrace = 1
  MinRefetch = 2
  Prompt = TRUE
  FailureThreshold = 2
  ResetAfter = 1
PROPERTIES
  UnauthorizedMeansAbsent
