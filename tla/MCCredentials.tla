--------------------------- MODULE MCCredentials ---------------------------
(* Credentials on a small instance. *)
EXTENDS Credentials, TLC

Symmetry == Permutations(Secret) \cup Permutations(Code) \cup Permutations(Proc)
=============================================================================
