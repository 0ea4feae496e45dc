---------------------------- MODULE MCAdminGuard ----------------------------
(* Small instances of AdminGuard for TLC. *)
EXTENDS AdminGuard, TLC

Symmetry == Permutations(Callers)
=============================================================================
