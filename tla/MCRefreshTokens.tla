-------------------------- MODULE MCRefreshTokens --------------------------
(* RefreshTokens on a small instance. *)
EXTENDS RefreshTokens, TLC

\* Tokens and requests are interchangeable, and so are the clients.
Symmetry == Permutations(JTI) \cup Permutations(Proc) \cup Permutations(Client)
=============================================================================
