---------------------------- MODULE MCLoginState ----------------------------
(***************************************************************************)
(* LoginState on a small instance.  Passwords on one side, and on the      *)
(* other the values and what goes under the user_id, meet only in the      *)
(* request of a process: a behaviour with both is not followed further.    *)
(***************************************************************************)
EXTENDS LoginState, TLC

NoPasswords == fails = 0 /\ guesses = 0 /\ \A k \in Spelling : risk[k] = 0 /\ ~locked[k]

NoValues == risk[UserId] = 0 /\ ~locked[UserId] /\ \A v \in Value : puts[v] = 0

Apart == NoPasswords \/ NoValues

Symmetry == Permutations(Value) \cup Permutations(Proc) \cup Permutations(Spelling)
=============================================================================
