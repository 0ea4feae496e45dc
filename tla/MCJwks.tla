------------------------------- MODULE MCJwks -------------------------------
(* Small instances of AdminJwksClient for TLC. *)
EXTENDS AdminJwksClient, TLC

Symmetry == Permutations(Callers)
=============================================================================
