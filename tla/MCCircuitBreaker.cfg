SPECIFICATION BusySpec
CONSTANTS
  Callers = {c1, c2, c3}
  NoOne = NoOne
  FailureThreshold = 2
  ResetAfter = 2
INVARIANTS
  ProbeCustody
PROPERTIES
  OnlyProbeRestartsWindow
  ProbeIsLease
  HealthyNeverTrips
  Recovers
