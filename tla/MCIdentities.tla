---------------------------- MODULE MCIdentities ----------------------------
(* Identities on a small instance. *)
EXTENDS Identities, TLC

Symmetry == Permutations(User) \cup Permutations(Key) \cup Permutations(RowId)
              \cup Permutations(Proc)
=============================================================================
