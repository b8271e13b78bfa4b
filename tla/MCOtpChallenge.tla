--------------------------- MODULE MCOtpChallenge ---------------------------
(* OtpChallenge on a small instance. *)
EXTENDS OtpChallenge, TLC

\* A shared gate that fails open and one per identity that does not; the
\* code's hour, day and resend gates differ from these in limit and key only.
MCGates == <<"tenant", "identity">>
MCLimit == [g \in {"tenant", "identity"} |-> 1]

Symmetry ==
  Permutations(Challenge) \cup Permutations(Proc) \cup Permutations(Identity)
=============================================================================
