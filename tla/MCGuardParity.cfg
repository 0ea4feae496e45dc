SPECIFICATION DecisionSpec
CONSTANTS
  Sites = {s1, s2}
  Index = i0
  Features = {f1, f2}
  Site = s1
  Feature = f1
CHECK_DEADLOCK FALSE
INVARIANTS
  CoresAgree
  NestAgrees
  StatusTellsCause
  LegacyShapeDecidesAlike
