SPECIFICATION Spec
CONSTANTS
  Readers = {c1}
  Rows = {r1, r2, r3}
  MaxTake = 3
  PublicLimit = 2
  IntMax = 7
  MaxTime = 2
SYMMETRY RowSymmetry
INVARIANTS Consistent WalkMissesNothing PublicShowsNewest
CHECK_DEADLOCK FALSE
