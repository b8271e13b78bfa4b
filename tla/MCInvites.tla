----------------------------- MODULE MCInvites -----------------------------
(* Invites on a small instance. *)
EXTENDS Invites, TLC

Symmetry == Permutations(Key) \cup Permutations(Join) \cup Permutations(Proc)
=============================================================================
