---------------------------- MODULE SessionChain ----------------------------
(***************************************************************************)
(* What refresh-token rotation promises.  A session, named by the first    *)
(* refresh token of its login, is a chain of tokens with one head: while   *)
(* it is open exactly one token can be exchanged, while it is being        *)
(* rotated none can, and once closed it never opens again.                 *)
(***************************************************************************)
CONSTANT JTI

VARIABLES
  phase,   \* session -> where it is in its life
  head,    \* session -> its exchangeable tokens
  used     \* tokens ever handed out

Phase == {"unborn", "open", "rotating", "closed"}

Init ==
  /\ phase = [s \in JTI |-> "unborn"]
  /\ head = [s \in JTI |-> {}]
  /\ used = {}

\* A login hands out the first token.
Open(s) ==
  /\ phase[s] = "unborn" /\ s \notin used
  /\ phase' = [phase EXCEPT ![s] = "open"]
  /\ head' = [head EXCEPT ![s] = {s}]
  /\ used' = used \cup {s}

\* A refresh takes the head away ...
StartRotate(s) ==
  /\ phase[s] = "open"
  /\ phase' = [phase EXCEPT ![s] = "rotating"]
  /\ head' = [head EXCEPT ![s] = {}]
  /\ UNCHANGED used

\* ... and puts a fresh token in its place,
FinishRotate(s, j) ==
  /\ phase[s] = "rotating" /\ j \notin used
  /\ phase' = [phase EXCEPT ![s] = "open"]
  /\ head' = [head EXCEPT ![s] = {j}]
  /\ used' = used \cup {j}

\* or fails half way, which ends the session.
Lose(s) ==
  /\ phase[s] = "rotating"
  /\ phase' = [phase EXCEPT ![s] = "closed"]
  /\ UNCHANGED <<head, used>>

\* A revocation closes any number of open sessions at once.
Close(S) ==
  /\ \A s \in S : phase[s] = "open"
  /\ phase' = [s \in JTI |-> IF s \in S THEN "closed" ELSE phase[s]]
  /\ head' = [s \in JTI |-> IF s \in S THEN {} ELSE head[s]]
  /\ UNCHANGED used

Next ==
  \/ \E s \in JTI : Open(s) \/ StartRotate(s) \/ Lose(s)
  \/ \E s \in JTI, j \in JTI : FinishRotate(s, j)
  \/ \E S \in SUBSET JTI : Close(S)

Spec == Init /\ [][Next]_<<phase, head, used>>
=============================================================================
