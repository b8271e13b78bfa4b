---------------------------- MODULE RefreshSweeps ----------------------------
(***************************************************************************)
(* RefreshTokens with two history variables: which rows a bulk revocation  *)
(* of a user was meant to put out of use, and which logins it may have     *)
(* missed, as one of their tokens was being exchanged.                     *)
(***************************************************************************)
EXTENDS RefreshTokens

VARIABLES
  swept,   \* why -> rows in the scope of a finished sweep
  missed   \* logins in the scope of their last sweep and in rotation at it

sweepVars == <<vars, swept, missed>>

InitSweeps == Init /\ swept = [why \in Why |-> {}] /\ missed = {}

Logins(S) == {refresh[j].fam : j \in S}

InFlight == {Family(q) : q \in Rotating}

SweepRows(p) ==
  LET rows == Scope(req[p].user, req[p].client) IN
  /\ RevokeAllByUser(p)
  /\ swept' = [swept EXCEPT ![req[p].why] = @ \cup rows]
  /\ missed' = (missed \ Logins(rows)) \cup (Logins(rows) \cap InFlight)

NextSweeps ==
  \/ \E p \in Proc : SweepRows(p)
  \/ /\ \/ \E p \in Proc : StartRequest(p) \/ ContinueRequest(p)
        \/ OneCallRequest
     /\ UNCHANGED <<swept, missed>>

SpecSweeps == InitSweeps /\ [][NextSweeps]_sweepVars

\* docs/integration.md:565 and TestRefreshReuseRevokesFamily: reusing a
\* rotated refresh token revokes its family, so no token of a family that
\* reuse handling swept can be exchanged afterwards.  A rotation that has
\* consumed its row and not yet added the next escapes the sweep.
ReuseRevokesFamily ==
  \A j \in live, k \in swept["reuse"] : refresh[j].fam # refresh[k].fam

\* What a sweep does achieve, for reuse, forced logout and every other reason
\* (RevokeAllByUser): no token of a login it covered can be exchanged again,
\* nor is any about to be added, unless a rotation of that very login was
\* between ConsumeActive and Refresh.Create while the last such sweep ran.
SweepsExact ==
  \A why \in Why : \A k \in swept[why] :
    refresh[k].fam \notin missed =>
      (\A j \in live : refresh[j].fam # refresh[k].fam) /\ refresh[k].fam \notin InFlight
=============================================================================
