------------------------- MODULE IdentityDirectory -------------------------
(***************************************************************************)
(* What binding promises: a phone number, mail address or OAuth subject    *)
(* belongs to one user or to none, and goes from one user to another only  *)
(* with everything else of theirs, when their accounts are merged.         *)
(***************************************************************************)
CONSTANTS User, Key, None

VARIABLE owner   \* identity -> its user, or None

Init == owner = [k \in Key |-> None]

Claim(k, u) ==
  /\ owner[k] = None
  /\ owner' = [owner EXCEPT ![k] = u]

Release(k) ==
  /\ owner[k] # None
  /\ owner' = [owner EXCEPT ![k] = None]

Absorb(source, target) ==
  owner' = [k \in Key |-> IF owner[k] = source THEN target ELSE owner[k]]

Next ==
  \/ \E k \in Key : Release(k) \/ \E u \in User : Claim(k, u)
  \/ \E source, target \in User : Absorb(source, target)

Spec == Init /\ [][Next]_owner
=============================================================================
