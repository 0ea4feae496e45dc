---------------------------- MODULE MCExampleItems --------------------------
EXTENDS ExampleItems, TLC

RowSymmetry == Permutations(Rows)
=============================================================================
