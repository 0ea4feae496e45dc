SPECIFICATION FairSpec
CONSTANTS
  Callers = {c1, c2, c3, c4}
  FailureThreshold = 2
  ResetTimeout = 2
INVARIANTS
  Consistent
PROPERTIES
  Recovers
