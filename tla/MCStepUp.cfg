SPECIFICATION Spec
CONSTANTS
  c1 = c1
  c2 = c2
  t1 = t1
  p1 = p1
  p2 = p2
  NoToken = NoToken
  Callers <- MCCallers
  Tokens <- MCTokens
  Purposes <- MCPurposes
  IssuedFor <- MCIssuedFor
INVARIANTS LostOnlyByFault ClearedWasElevated
PROPERTIES OneActionPerToken RefusalTellsWhy
CHECK_DEADLOCK FALSE
