------------------------------- MODULE MCStepUp -----------------------------
EXTENDS StepUp, TLC

CONSTANTS c1, c2, t1, p1, p2

MCCallers == {c1, c2}
MCTokens == {t1}
MCPurposes == {p1, p2}
MCIssuedFor == t1 :> p1
=============================================================================
