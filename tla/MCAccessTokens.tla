--------------------------- MODULE MCAccessTokens ---------------------------
(* AccessTokens on a small instance. *)
EXTENDS AccessTokens, TLC

CONSTANTS console, short, long

\* One app with the configured access_ttl, one with a longer one.
MCClient == {console, short, long}
MCTTL == [c \in MCClient |-> IF c = long THEN 2 ELSE 1]

Symmetry == Permutations(Token) \cup Permutations(Proc)
=============================================================================
