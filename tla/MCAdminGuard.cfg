SPECIFICATION Spec
CONSTANTS
  Callers = {c1, c2}
  NoOne = NoOne
  FailureThreshold = 2
  ResetAfter = 1
  TokenLife = 2
SYMMETRY Symmetry
INVARIANTS
  Consistent
  NoVerdictMissed
PROPERTIES
  RevocationBites
  ReadsLagOneTokenLife
  DrivesBreaker
