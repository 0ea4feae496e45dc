SPECIFICATION Spec
CONSTANTS
  Callers = {c1, c2, c3}
  NoOne = NoOne
  FailureThreshold = 2
  ResetAfter = 1
INVARIANTS
  FullRunOpens
