---------------------------- MODULE MCGovernance ----------------------------
(* Applications and Providers share no state; a behaviour is of either one. *)
EXTENDS Applications, Providers, TLC

VARIABLE part

Init ==
  /\ AppInit /\ ProviderInit
  /\ part \in {"applications", "providers"}
  /\ part = "applications" => conf = [sms |-> "mock", mq |-> FALSE, declared |-> FALSE]
  /\ part = "providers" => implicit

Next ==
  \/ part = "applications" /\ AppNext /\ UNCHANGED <<providerVars, part>>
  \/ part = "providers" /\ ProviderNext /\ UNCHANGED <<appVars, part>>

Spec == Init /\ [][Next]_<<appVars, providerVars, part>>

Symmetry == Permutations(App) \cup Permutations(Admin) \cup Permutations(Operator)
=============================================================================
