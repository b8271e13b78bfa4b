-------------------------- MODULE MCRefreshSweeps --------------------------
(* RefreshSweeps on a small instance. *)
EXTENDS RefreshSweeps, TLC

Symmetry == Permutations(JTI) \cup Permutations(Proc)
=============================================================================
