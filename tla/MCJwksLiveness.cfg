SPECIFICATION BusySpec
CONSTANTS
  Callers = {c1, c2}
  NoOne = NoOne
  Kids = {k1}
  AdvertisedTtls = {3}
  MaxTtl = 2
  StaleGrace = 1
  MinRefetch = 1
  Prompt = FALSE
  FailureThreshold = 1
  ResetAfter = 1
PROPERTIES
  UnavailableMeansNoKey
  StaleOnlyInOutage
  EveryCallEnds
  Recovers
