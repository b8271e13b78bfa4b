------------------------ MODULE RefreshTokensProofs ------------------------
(***************************************************************************)
(* Proofs about RefreshTokens and RefreshSweeps, for any sets of users,     *)
(* clients, tokens and concurrent requests.                                *)
(***************************************************************************)
EXTENDS RefreshSweeps, TLAPS

\* What a refresh read from its row is still what the row says.
Matches(r) ==
  r.jti # None => /\ r.user = refresh[r.jti].user
                  /\ r.client = refresh[r.jti].client

\* The inductive invariant.
IInv ==
  /\ TypeOK
  /\ NoDoubleLive
  /\ LineageIsolated
  /\ \A p \in Proc : Matches(req[p])

RotatingReq(r) == r.pc = "store" /\ r.jti # None

\* The invariant holds when the server starts on an empty table.
LEMMA InitIInv == Init => IInv
<1> SUFFICES ASSUME Init PROVE IInv
  OBVIOUS
<1> USE NoneAssumption
<1>1. TypeOK
  BY DEF Init, TypeOK, Issued, Row, Req, PC, Why, Status, Idle, WellFormed
<1>2. NoDoubleLive
  BY DEF Init, NoDoubleLive, Rotating, Idle
<1>3. LineageIsolated
  BY DEF Init, LineageIsolated, Issued
<1>4. \A p \in Proc : Matches(req[p])
  BY DEF Init, Matches, Idle
<1> QED
  BY <1>1, <1>2, <1>3, <1>4 DEF IInv

\* A step that adds no row, revokes some, and changes at most one request,
\* not into a rotating one, preserves the invariant.
LEMMA RequestStep ==
  ASSUME IInv, NEW p \in Proc, NEW r \in Req,
         WellFormed(r), Matches(r), ~RotatingReq(r),
         req' = [req EXCEPT ![p] = r],
         refresh' = refresh, live' \subseteq live,
         status' \in [User -> Status], activeApp' \subseteq Client
  PROVE  IInv'
<1>1. TypeOK'
  BY DEF IInv, TypeOK, WellFormed, Issued
<1>2. NoDoubleLive'
  <2>1. /\ req \in [Proc -> Req]
        /\ \A q \in Proc : q # p => req'[q] = req[q]
        /\ req'[p] = r
    BY DEF IInv, TypeOK
  <2>2. Rotating' \subseteq Rotating /\ p \notin Rotating'
    BY <2>1 DEF Rotating, RotatingReq
  <2>3. \A q \in Rotating' : Family(q)' = Family(q)
    BY <2>1, <2>2 DEF Family, Rotating
  <2> QED
    BY <2>2, <2>3 DEF IInv, NoDoubleLive
<1>3. LineageIsolated'
  BY DEF IInv, LineageIsolated, Issued
<1>4. (\A q \in Proc : Matches(req[q]))'
  BY DEF IInv, TypeOK, Matches
<1> QED
  BY <1>1, <1>2, <1>3, <1>4 DEF IInv

\* So does a step that changes no request at all.
LEMMA RevokeStep ==
  ASSUME IInv, req' = req, refresh' = refresh, live' \subseteq live,
         status' \in [User -> Status], activeApp' \subseteq Client
  PROVE  IInv'
<1>1. TypeOK'
  BY DEF IInv, TypeOK, WellFormed, Issued
<1>2. NoDoubleLive'
  BY DEF IInv, NoDoubleLive, Rotating, Family
<1>3. LineageIsolated'
  BY DEF IInv, LineageIsolated, Issued
<1>4. (\A q \in Proc : Matches(req[q]))'
  BY DEF IInv, Matches
<1> QED
  BY <1>1, <1>2, <1>3, <1>4 DEF IInv

\* Requests that name a user and a client, and possibly a row of theirs.
LEMMA IdleReq == Idle \in Req /\ WellFormed(Idle) /\ Matches(Idle) /\ ~RotatingReq(Idle)
  BY DEF Idle, Req, PC, Why, Status, WellFormed, Matches, RotatingReq

\* Starting any request preserves the invariant.
LEMMA StartStep ==
  ASSUME IInv, NEW p \in Proc, StartRequest(p)
  PROVE  IInv'
<1> USE NoneAssumption DEF IInv
<1>a. ASSUME NEW u \in User, NEW c \in Client, NEW pc \in {"resolve", "store"},
             Start(p, Busy(pc, u, c, None)), UNCHANGED <<refresh, live, status, activeApp>>
      PROVE  IInv'
  <2>1. /\ Busy(pc, u, c, None) \in Req /\ WellFormed(Busy(pc, u, c, None))
        /\ Matches(Busy(pc, u, c, None)) /\ ~RotatingReq(Busy(pc, u, c, None))
    BY DEF Busy, Req, PC, Why, Status, WellFormed, Matches, RotatingReq
  <2> QED
    BY <2>1, <1>a, RequestStep DEF Start, TypeOK
<1>b. ASSUME NEW u \in User, NEW c \in Client \cup {None}, NEW why \in Why,
             Start(p, Sweep(u, c, why)), UNCHANGED <<refresh, live, activeApp>>,
             status' \in [User -> Status]
      PROVE  IInv'
  <2>1. /\ Sweep(u, c, why) \in Req /\ WellFormed(Sweep(u, c, why))
        /\ Matches(Sweep(u, c, why)) /\ ~RotatingReq(Sweep(u, c, why))
    BY DEF Sweep, Req, PC, Status, WellFormed, Matches, RotatingReq
  <2> QED
    BY <2>1, <1>b, RequestStep DEF Start, TypeOK
<1>1. ASSUME NEW u \in User, NEW c \in Client,
             Login(p, u, c) \/ MFAComplete(p, u, c) \/ PasskeyLoginFinish(p, u, c)
      PROVE  IInv'
  BY <1>1, <1>a DEF Login, MFAComplete, PasskeyLoginFinish
<1>2. ASSUME NEW u \in User, NEW c \in Client,
             \/ LogoutAll(p, u, c) \/ SetPassword(p, u, c)
             \/ ResetPasswordConfirm(p, u, c) \/ FinishSAMLSLO(p, u, c)
      PROVE  IInv'
  <2>1. Start(p, Sweep(u, c, "")) /\ UNCHANGED <<refresh, live, status, activeApp>>
    BY <1>2 DEF LogoutAll, SetPassword, ResetPasswordConfirm, FinishSAMLSLO
  <2> QED
    BY <2>1, <1>b DEF TypeOK, Why
<1>3. ASSUME NEW j \in Issued, NEW c \in Client, RefreshFind(p, j, c)
      PROVE  IInv'
  <2> DEFINE r == Busy("check", refresh[j].user, c, j)
  <2>1. j \in JTI /\ refresh[j] \in Row /\ refresh[j].client = c
    BY <1>3 DEF TypeOK, RefreshFind
  <2>2. r \in Req /\ WellFormed(r) /\ Matches(r) /\ ~RotatingReq(r)
    BY <2>1 DEF Busy, Req, PC, Why, Status, Row, WellFormed, Matches, RotatingReq
  <2>3. req' = [req EXCEPT ![p] = r] /\ UNCHANGED <<refresh, live, status, activeApp>>
    BY <1>3 DEF RefreshFind, Start
  <2> HIDE DEF r
  <2> QED
    BY <2>2, <2>3, RequestStep DEF TypeOK
<1>4. ASSUME NEW j \in Issued, NEW c \in Client, RefreshReuse(p, j, c)
      PROVE  IInv'
  <2>1. refresh[j].user \in User
    BY DEF TypeOK, Row
  <2>2. Start(p, Sweep(refresh[j].user, c, "reuse"))
        /\ UNCHANGED <<refresh, live, status, activeApp>>
    BY <1>4 DEF RefreshReuse
  <2> QED
    BY <2>1, <2>2, <1>b DEF TypeOK, Why
<1>5. ASSUME NEW u \in User, NEW s \in Status, SetUserStatus(p, u, s)
      PROVE  IInv'
  <2>1. /\ status' \in [User -> Status] /\ UNCHANGED <<refresh, live, activeApp>>
        /\ Start(p, IF s = "disabled" THEN Sweep(u, None, "") ELSE Idle)
    BY <1>5 DEF SetUserStatus, TypeOK
  <2>2. CASE s = "disabled"
    BY <2>1, <2>2, <1>b DEF Why
  <2>3. CASE s # "disabled"
    BY <2>1, <2>3, IdleReq, RequestStep DEF Start, TypeOK
  <2> QED
    BY <2>2, <2>3
<1>6. ASSUME NEW u \in User, NEW c \in Client \cup {None}, ForceLogout(p, u, c)
      PROVE  IInv'
  BY <1>6, <1>b DEF ForceLogout, TypeOK, Why
<1>7. ASSUME NEW u \in User, AnonymizeUser(p, u)
      PROVE  IInv'
  <2>1. status' \in [User -> Status]
    BY <1>7 DEF AnonymizeUser, TypeOK, Status
  <2> QED
    BY <1>7, <2>1, <1>b DEF AnonymizeUser, Why
<1>8. ASSUME NEW u \in User, UpdateProfile(p, u)
      PROVE  IInv'
  <2> DEFINE r == Save(u, status[u])
  <2>1. status[u] \in Status
    BY DEF TypeOK
  <2>2. r \in Req /\ WellFormed(r) /\ Matches(r) /\ ~RotatingReq(r)
    BY <2>1 DEF Save, Req, PC, Why, WellFormed, Matches, RotatingReq
  <2>3. req' = [req EXCEPT ![p] = r] /\ UNCHANGED <<refresh, live, status, activeApp>>
    BY <1>8 DEF UpdateProfile, Start
  <2> HIDE DEF r
  <2> QED
    BY <2>2, <2>3, RequestStep DEF TypeOK
<1>9. ASSUME NEW c \in Client, RotateSecret(p, c)
      PROVE  IInv'
  <2> DEFINE r == Busy("revokeApp", None, c, None)
  <2>1. r \in Req /\ WellFormed(r) /\ Matches(r) /\ ~RotatingReq(r)
    BY DEF Busy, Req, PC, Why, Status, WellFormed, Matches, RotatingReq
  <2>2. req' = [req EXCEPT ![p] = r] /\ UNCHANGED <<refresh, live, status, activeApp>>
    BY <1>9 DEF RotateSecret, Start
  <2> HIDE DEF r
  <2> QED
    BY <2>1, <2>2, RequestStep DEF TypeOK
<1> QED
  BY <1>1, <1>2, <1>3, <1>4, <1>5, <1>6, <1>7, <1>8, <1>9 DEF StartRequest

\* A request that goes on without becoming a rotating one, or ends.
LEMMA GotoStep ==
  ASSUME IInv, NEW p \in Proc, NEW pc \in {"consume", "store"},
         req[p].pc \in {"resolve", "check"}, pc = "store" => req[p].jti = None,
         pc = "consume" => req[p].jti # None,
         Goto(p, pc), UNCHANGED <<refresh, live, status, activeApp>>
  PROVE  IInv'
<1> DEFINE r == [req[p] EXCEPT !.pc = pc]
<1>1. req[p] \in Req /\ WellFormed(req[p]) /\ Matches(req[p])
  BY DEF IInv, TypeOK
<1>2. /\ r \in Req
      /\ r.pc = pc /\ r.jti = req[p].jti /\ r.user = req[p].user /\ r.client = req[p].client
  BY <1>1 DEF Req, PC
<1>3. WellFormed(r)
  BY <1>1, <1>2 DEF WellFormed
<1>4. Matches(r) /\ ~RotatingReq(r)
  BY <1>1, <1>2 DEF Matches, RotatingReq
<1>5. req' = [req EXCEPT ![p] = r]
  BY DEF Goto
<1> HIDE DEF r
<1> QED
  BY <1>2, <1>3, <1>4, <1>5, RequestStep DEF IInv, TypeOK

\* A request that ends, having revoked some rows or not.
LEMMA FinishStep ==
  ASSUME IInv, NEW p \in Proc, Finish(p), refresh' = refresh, live' \subseteq live,
         status' \in [User -> Status], activeApp' = activeApp
  PROVE  IInv'
BY IdleReq, RequestStep DEF Finish, IInv, TypeOK

\* Winning the compare-and-set turns the head of a chain into a rotation; it
\* was the only head, so the chain has no other head and no other rotation.
LEMMA ConsumeStep ==
  ASSUME IInv, NEW p \in Proc, ConsumeActive(p)
  PROVE  IInv'
<1>1. CASE req[p].jti \notin live
  BY <1>1, FinishStep DEF ConsumeActive, IInv, TypeOK
<1>2. CASE req[p].jti \in live
  <2> DEFINE r == [req[p] EXCEPT !.pc = "store"]
             t == req[p].jti
  <2>1. /\ req[p] \in Req /\ WellFormed(req[p]) /\ Matches(req[p])
        /\ req \in [Proc -> Req] /\ req[p].pc = "consume"
    BY DEF ConsumeActive, IInv, TypeOK
  <2>2. /\ req' = [req EXCEPT ![p] = r]
        /\ refresh' = refresh /\ live' = live \ {t}
        /\ status' = status /\ activeApp' = activeApp
    BY <1>2 DEF ConsumeActive, Goto
  <2>3. /\ r \in Req /\ r.pc = "store"
        /\ r.jti = t /\ r.user = req[p].user /\ r.client = req[p].client
    BY <2>1 DEF Req, PC
  <2>4. WellFormed(r) /\ Matches(r)
    BY <2>1, <2>3 DEF WellFormed, Matches
  <2>5. /\ req'[p] = r /\ \A q \in Proc : q # p => req'[q] = req[q]
    BY <2>1, <2>2
  <2> HIDE DEF r
  <2>6. TypeOK'
    BY <2>2, <2>3, <2>4, <2>5 DEF IInv, TypeOK, WellFormed, Issued
  <2>7. NoDoubleLive'
    <3>1. \A q \in Rotating' : q = p \/ q \in Rotating
      BY <2>5 DEF Rotating
    <3>2. \A q \in Rotating : q # p
      BY <2>1 DEF Rotating
    <3>3. Family(p)' = refresh[t].fam
      BY <2>2, <2>3, <2>5 DEF Family
    <3>4. \A q \in Rotating : Family(q)' = Family(q)
      BY <2>2, <2>5, <3>2 DEF Family, Rotating
    <3>5. \A q \in Rotating : Family(q) # refresh[t].fam
      BY <1>2 DEF IInv, NoDoubleLive
    <3>6. \A j \in live' : refresh'[j].fam # refresh[t].fam
      BY <1>2, <2>2 DEF IInv, NoDoubleLive
    <3>7. \A i, j \in live' : refresh'[i].fam = refresh'[j].fam => i = j
      BY <2>2 DEF IInv, NoDoubleLive
    <3>8. \A q \in Rotating' : \A j \in live' : refresh'[j].fam # Family(q)'
      BY <2>2, <3>1, <3>3, <3>4, <3>6 DEF IInv, NoDoubleLive
    <3>9. \A q1, q2 \in Rotating' : Family(q2)' = Family(q1)' => q2 = q1
      BY <3>1, <3>2, <3>3, <3>4, <3>5 DEF IInv, NoDoubleLive
    <3> QED
      BY <3>7, <3>8, <3>9 DEF NoDoubleLive
  <2>8. LineageIsolated'
    BY <2>2 DEF IInv, LineageIsolated, Issued
  <2>9. (\A q \in Proc : Matches(req[q]))'
    BY <2>2, <2>4, <2>5 DEF IInv, Matches
  <2> QED
    BY <2>6, <2>7, <2>8, <2>9 DEF IInv
<1> QED
  BY <1>1, <1>2

\* Adding a row gives a login its first head, or a rotating chain its next.
LEMMA IssueStep ==
  ASSUME IInv, NEW p \in Proc, NEW j \in JTI, issueTokens(p, j)
  PROVE  IInv'
<1> DEFINE f == IF req[p].jti = None THEN j ELSE Family(p)
           row == [user |-> req[p].user, client |-> req[p].client, fam |-> f]
<1> USE NoneAssumption
<1>1. /\ req[p] \in Req /\ WellFormed(req[p]) /\ Matches(req[p])
      /\ req \in [Proc -> Req] /\ req[p].pc = "store"
      /\ refresh \in [Issued -> Row] /\ Issued \subseteq JTI /\ live \subseteq Issued
  BY DEF issueTokens, IInv, TypeOK
<1>2. /\ j \notin Issued
      /\ refresh' = [k \in Issued \cup {j} |-> IF k = j THEN row ELSE refresh[k]]
      /\ live' = live \cup {j}
      /\ req' = [req EXCEPT ![p] = Idle]
      /\ status' = status /\ activeApp' = activeApp
  BY DEF issueTokens, Finish
<1>3. /\ Issued' = Issued \cup {j}
      /\ refresh'[j] = row
      /\ \A k \in Issued : refresh'[k] = refresh[k]
  BY <1>2 DEF Issued
<1>4. /\ req'[p] = Idle /\ req'[p].pc = "idle" /\ req'[p].jti = None
      /\ \A q \in Proc : q # p => req'[q] = req[q]
  BY <1>1, <1>2 DEF Idle
<1>5. f \in JTI /\ row \in Row /\ row.fam = f
  <2>1. req[p].jti # None => Family(p) \in JTI
    BY <1>1 DEF WellFormed, Family, Row
  <2> QED
    BY <1>1, <2>1 DEF WellFormed, Req, Row
<1> HIDE DEF row
<1>6. TypeOK'
  <2>1. refresh' \in [Issued' -> Row] /\ Issued' \subseteq JTI /\ live' \subseteq Issued'
    BY <1>1, <1>2, <1>3, <1>5
  <2>2. req' \in [Proc -> Req]
    BY <1>1, <1>2, IdleReq
  <2>3. \A q \in Proc : WellFormed(req[q])'
    BY <1>1, <1>3, <1>4, IdleReq DEF WellFormed, IInv, TypeOK, Idle
  <2> QED
    BY <1>2, <2>1, <2>2, <2>3 DEF IInv, TypeOK
<1>7. Rotating' \subseteq Rotating \ {p} /\ (req[p].jti # None => p \in Rotating)
  BY <1>1, <1>4 DEF Rotating
<1>8. \A q \in Rotating : q # p => Family(q)' = Family(q) /\ Family(q) \in Issued
  BY <1>3, <1>4 DEF Rotating, Family, IInv, TypeOK, WellFormed, LineageIsolated
<1>9. NoDoubleLive'
  <2>1. \A i \in live : refresh[i].fam # f
    <3>1. CASE req[p].jti = None
      BY <1>1, <1>2, <3>1 DEF IInv, LineageIsolated
    <3>2. CASE req[p].jti # None
      BY <1>7, <3>2 DEF IInv, NoDoubleLive
    <3> QED
      BY <3>1, <3>2
  <2>2. \A q \in Rotating' : Family(q)' # f
    <3>1. CASE req[p].jti = None
      BY <1>2, <1>7, <1>8, <3>1
    <3>2. CASE req[p].jti # None
      BY <1>7, <1>8, <3>2 DEF IInv, NoDoubleLive
    <3> QED
      BY <3>1, <3>2
  <2>3. \A i, k \in live' : refresh'[i].fam = refresh'[k].fam => i = k
    BY <1>1, <1>2, <1>3, <1>5, <2>1 DEF IInv, NoDoubleLive
  <2>4. \A q \in Rotating' : \A i \in live' : refresh'[i].fam # Family(q)'
    BY <1>1, <1>2, <1>3, <1>5, <1>7, <1>8, <2>2 DEF IInv, NoDoubleLive
  <2>5. \A q1, q2 \in Rotating' : Family(q2)' = Family(q1)' => q2 = q1
    BY <1>7, <1>8 DEF IInv, NoDoubleLive
  <2> QED
    BY <2>3, <2>4, <2>5 DEF NoDoubleLive
<1>10. LineageIsolated'
  <2>1. f \in Issued' /\ refresh'[f].user = row.user /\ refresh'[f].client = row.client
        /\ refresh'[f].fam = f
    <3>1. CASE req[p].jti = None
      BY <1>3, <1>5, <3>1
    <3>2. CASE req[p].jti # None
      <4>1. req[p].jti \in Issued /\ f = refresh[req[p].jti].fam
        BY <1>1, <3>2 DEF WellFormed, Family
      <4>2. /\ f \in Issued
            /\ refresh[f].user = refresh[req[p].jti].user
            /\ refresh[f].client = refresh[req[p].jti].client
            /\ refresh[f].fam = f
        BY <4>1 DEF IInv, LineageIsolated
      <4>3. row.user = req[p].user /\ row.client = req[p].client
        BY DEF row
      <4> QED
        BY <1>1, <1>3, <3>2, <4>2, <4>3 DEF Matches
    <3> QED
      BY <3>1, <3>2
  <2>2. \A k \in Issued : refresh'[k].fam \in Issued
                          /\ refresh'[refresh'[k].fam] = refresh[refresh[k].fam]
    BY <1>3 DEF IInv, LineageIsolated
  <2> QED
    BY <1>3, <1>5, <2>1, <2>2 DEF IInv, LineageIsolated
<1>11. (\A q \in Proc : Matches(req[q]))'
  <2>1. \A q \in Proc : req[q].jti # None => req[q].jti \in Issued
    BY DEF IInv, TypeOK, WellFormed
  <2> QED
    BY <1>3, <1>4, <2>1 DEF IInv, Matches
<1> QED
  BY <1>6, <1>9, <1>10, <1>11 DEF IInv

\* Every later step of a request preserves the invariant.
LEMMA ContinueStep ==
  ASSUME IInv, NEW p \in Proc, ContinueRequest(p) \/ RevokeAllByUser(p)
  PROVE  IInv'
<1>0. /\ status \in [User -> Status] /\ req[p] \in Req /\ WellFormed(req[p])
  BY DEF IInv, TypeOK
<1>1. CASE resolveUser(p)
  <2>1. req[p].jti = None
    BY <1>1 DEF resolveUser, IInv, TypeOK, WellFormed
  <2> QED
    BY <1>0, <1>1, <2>1, GotoStep, FinishStep DEF resolveUser
<1>2. CASE RefreshCheckUser(p)
  BY <1>0, <1>2, GotoStep, FinishStep DEF RefreshCheckUser, WellFormed
<1>3. CASE ConsumeActive(p)
  BY <1>3, ConsumeStep
<1>4. CASE \E j \in JTI : issueTokens(p, j)
  BY <1>4, IssueStep
<1>5. CASE RevokeAllByUser(p)
  BY <1>0, <1>5, FinishStep DEF RevokeAllByUser
<1>6. CASE RotateSecretSweep(p)
  BY <1>0, <1>6, FinishStep DEF RotateSecretSweep
<1>7. CASE SaveUser(p)
  <2>1. status' \in [User -> Status]
    BY <1>0, <1>7 DEF SaveUser, Req
  <2> QED
    BY <1>7, <2>1, FinishStep DEF SaveUser
<1>8. CASE Abort(p)
  BY <1>0, <1>8, FinishStep DEF Abort
<1> QED
  BY <1>1, <1>2, <1>3, <1>4, <1>5, <1>6, <1>7, <1>8 DEF ContinueRequest

\* Handlers of one call preserve the invariant.
LEMMA OneCallStep ==
  ASSUME IInv, OneCallRequest
  PROVE  IInv'
<1>1. status \in [User -> Status] /\ activeApp \subseteq Client
  BY DEF IInv, TypeOK
<1>2. ASSUME NEW u \in User, NEW c \in Client, NEW j \in Issued,
             Logout(u, c, j) \/ RevokeSession(u, c, j) \/ RevokeOtherSessions(u, c, j)
      PROVE  IInv'
  BY <1>1, <1>2, RevokeStep
    DEF Logout, RevokeSession, RevokeOtherSessions, Revoke, RevokeOthers
<1>3. ASSUME NEW j \in Issued, RevokeToken(j) PROVE IInv'
  BY <1>1, <1>3, RevokeStep DEF RevokeToken, Revoke
<1>4. ASSUME NEW u \in User, mergeUsers(u) PROVE IInv'
  <2>1. status' \in [User -> Status]
    BY <1>1, <1>4 DEF mergeUsers, Status
  <2> QED
    BY <1>1, <1>4, <2>1, RevokeStep DEF mergeUsers
<1>5. ASSUME NEW c \in Client, UpdateApp(c) PROVE IInv'
  <2>1. activeApp' \subseteq Client
    BY <1>1, <1>5 DEF UpdateApp
  <2> QED
    BY <1>1, <1>5, <2>1, RevokeStep DEF UpdateApp
<1> QED
  BY <1>2, <1>3, <1>4, <1>5 DEF OneCallRequest

\* So every step does.
LEMMA InvariantStep ==
  ASSUME IInv, [Next]_vars
  PROVE  IInv'
<1>1. CASE UNCHANGED vars
  BY <1>1, RevokeStep DEF vars, IInv, TypeOK
<1>2. CASE Next
  BY <1>2, StartStep, ContinueStep, OneCallStep DEF Next
<1> QED
  BY <1>1, <1>2

\* The inductive invariant holds throughout.
THEOREM Invariance == Spec => []IInv
<1>1. IInv /\ [Next]_vars => IInv'
  BY InvariantStep
<1> QED
  BY InitIInv, <1>1, PTL DEF Spec

\* Rows, statuses and requests keep their types: a status outside
\* active/disabled or a request without its row would not.
THEOREM TypeCorrect == Spec => []TypeOK
BY Invariance, PTL DEF IInv

\* Concurrent refreshes never leave two exchangeable tokens of one login.
THEOREM NoDoubleLiveHolds == Spec => []NoDoubleLive
BY Invariance, PTL DEF IInv

\* No token ever belongs to another user or client than its login's.
THEOREM LineageIsolatedHolds == Spec => []LineageIsolated
BY Invariance, PTL DEF IInv

-----------------------------------------------------------------------------
(* RefreshTokens implements SessionChain *)

chainVars == <<chainPhase, chainHead, Issued>>

HasHead(s)    == \E j \in live : refresh[j].fam = s
InRotation(s) == \E p \in Rotating : Family(p) = s
Root(s)       == s \in Issued /\ refresh[s].fam = s

\* A chain has a head or a rotation, never both, and is then a login's.
LEMMA ChainFacts ==
  ASSUME IInv
  PROVE  /\ \A s : HasHead(s) => ~InRotation(s)
         /\ \A s : HasHead(s) \/ InRotation(s) => Root(s) /\ s \in JTI
         /\ \A p, q \in Rotating : Family(p) = Family(q) => p = q
         /\ \A i, j \in live : refresh[i].fam = refresh[j].fam => i = j
<1>1. \A j \in Issued : Root(refresh[j].fam) /\ refresh[j].fam \in JTI
  BY DEF IInv, LineageIsolated, TypeOK, Root, Row
<1>2. live \subseteq Issued /\ \A p \in Rotating : req[p].jti \in Issued
  BY DEF IInv, TypeOK, WellFormed, Rotating
<1> QED
  BY <1>1, <1>2 DEF IInv, NoDoubleLive, HasHead, InRotation, Family

\* A chain's phase, said with Root, HasHead and InRotation.
LEMMA PhaseDef ==
  /\ DOMAIN chainPhase = JTI
  /\ \A s \in JTI :
       chainPhase[s] = IF ~Root(s) THEN "unborn"
                       ELSE IF HasHead(s) THEN "open"
                       ELSE IF InRotation(s) THEN "rotating"
                       ELSE "closed"
BY DEF chainPhase, Root, HasHead, InRotation

\* The phases before and after a step are functions on JTI.
LEMMA PhaseIsFunction ==
  /\ chainPhase = [s \in JTI |-> chainPhase[s]]
  /\ chainPhase' = [s \in JTI |-> chainPhase'[s]]
BY DEF chainPhase

\* Two functions that differ at one argument.
LEMMA Except ==
  ASSUME NEW D, NEW F, NEW G, NEW f, NEW v,
         F = [s \in D |-> F[s]], G = [s \in D |-> G[s]],
         \A s \in D : G[s] = IF s = f THEN v ELSE F[s]
  PROVE  G = [F EXCEPT ![f] = v]
OBVIOUS

\* Revoking rows closes the chains whose heads were among them.
LEMMA RevokeMaps ==
  ASSUME IInv, refresh' = refresh, live' \subseteq live,
         Rotating' = Rotating, \A p \in Rotating : Family(p)' = Family(p)
  PROVE  \E S \in SUBSET JTI : Chain!Close(S)
<1> DEFINE S == {s \in JTI : HasHead(s) /\ ~HasHead(s)'}
<1>1. \A s : (Root(s)' <=> Root(s)) /\ (InRotation(s)' <=> InRotation(s))
             /\ (HasHead(s)' => HasHead(s))
  BY DEF Root, InRotation, HasHead, Issued
<1>2. \A s \in S : chainPhase[s] = "open"
  BY ChainFacts, PhaseDef
<1>3. chainPhase' = [s \in JTI |-> IF s \in S THEN "closed" ELSE chainPhase[s]]
  <2>1. \A s \in JTI : chainPhase'[s] = IF s \in S THEN "closed" ELSE chainPhase[s]
    <3> SUFFICES ASSUME NEW s \in JTI
                 PROVE  chainPhase'[s] = IF s \in S THEN "closed" ELSE chainPhase[s]
      OBVIOUS
    <3>1. chainPhase'[s] = IF ~Root(s)' THEN "unborn"
                           ELSE IF HasHead(s)' THEN "open"
                           ELSE IF InRotation(s)' THEN "rotating"
                           ELSE "closed"
      BY <1>1 DEF chainPhase, Root, HasHead, InRotation
    <3> QED
      BY <1>1, <3>1, ChainFacts, PhaseDef
  <2> QED
    BY <2>1 DEF chainPhase
<1>4. chainHead' = [s \in JTI |-> IF s \in S THEN {} ELSE chainHead[s]]
  <2>1. \A s \in S : \A j \in live' : refresh[j].fam # s
    BY DEF HasHead
  <2>2. \A s \in JTI \ S : \A j \in live : refresh[j].fam = s => j \in live'
    BY ChainFacts DEF HasHead
  <2> QED
    BY <2>1, <2>2 DEF chainHead
<1>5. Issued' = Issued
  BY DEF Issued
<1> QED
  BY <1>2, <1>3, <1>4, <1>5 DEF Chain!Close

\* A rotation that dies closes its chain.
LEMMA LoseMaps ==
  ASSUME IInv, refresh' = refresh, live' = live, NEW p \in Rotating,
         Rotating' = Rotating \ {p}, \A q \in Rotating' : Family(q)' = Family(q)
  PROVE  \E s \in JTI : Chain!Lose(s)
<1> DEFINE f == Family(p)
<1>1. InRotation(f) /\ Root(f) /\ ~HasHead(f) /\ f \in JTI
  BY ChainFacts DEF InRotation
<1>2. \A s : (Root(s)' <=> Root(s)) /\ (HasHead(s)' <=> HasHead(s))
  BY DEF Root, HasHead, Issued
<1>3. \A s : InRotation(s)' <=> InRotation(s) /\ s # f
  BY ChainFacts DEF InRotation
<1>4. chainPhase[f] = "rotating"
  BY <1>1, PhaseDef
<1>5. chainPhase' = [chainPhase EXCEPT ![f] = "closed"]
  <2>1. \A s \in JTI : chainPhase'[s] = IF ~Root(s)' THEN "unborn"
                           ELSE IF HasHead(s)' THEN "open"
                           ELSE IF InRotation(s)' THEN "rotating"
                           ELSE "closed"
    BY DEF chainPhase, Root, HasHead, InRotation
  <2>2. \A s \in JTI : chainPhase'[s] = IF s = f THEN "closed" ELSE chainPhase[s]
    BY <1>1, <1>2, <1>3, <2>1, PhaseDef
  <2> QED
    BY <2>2, PhaseIsFunction, Except
<1>6. chainHead' = chainHead /\ Issued' = Issued
  BY DEF chainHead, Issued
<1> QED
  BY <1>1, <1>4, <1>5, <1>6 DEF Chain!Lose

\* Winning the compare-and-set starts a rotation.
LEMMA ConsumeMaps ==
  ASSUME IInv, NEW p \in Proc, ConsumeActive(p), req[p].jti \in live
  PROVE  \E s \in JTI : Chain!StartRotate(s)
<1> DEFINE t == req[p].jti
           f == refresh[t].fam
<1>1. /\ refresh' = refresh /\ live' = live \ {t}
      /\ p \notin Rotating /\ p \in Rotating' /\ Family(p)' = f
      /\ Rotating' = Rotating \cup {p}
      /\ \A q \in Rotating : Family(q)' = Family(q)
  <2>1. /\ req[p] \in Req /\ WellFormed(req[p]) /\ req \in [Proc -> Req]
        /\ req[p].pc = "consume" /\ t # None
    BY DEF ConsumeActive, IInv, TypeOK, WellFormed
  <2>2. /\ req' = [req EXCEPT ![p].pc = "store"] /\ refresh' = refresh
        /\ live' = live \ {t}
    BY DEF ConsumeActive, Goto
  <2>3. /\ req'[p].pc = "store" /\ req'[p].jti = t
        /\ \A q \in Proc : q # p => req'[q] = req[q]
    BY <2>1, <2>2 DEF Req
  <2> QED
    BY <2>1, <2>2, <2>3 DEF Rotating, Family
<1>2. HasHead(f) /\ Root(f) /\ f \in JTI
  BY ChainFacts DEF HasHead
<1>3. \A s : /\ Root(s)' <=> Root(s)
             /\ HasHead(s)' <=> HasHead(s) /\ s # f
             /\ InRotation(s)' <=> InRotation(s) \/ s = f
  BY <1>1, ChainFacts DEF Root, HasHead, InRotation, Issued
<1>4. chainPhase[f] = "open"
  BY <1>2, PhaseDef
<1>5. chainPhase' = [chainPhase EXCEPT ![f] = "rotating"]
  <2>1. \A s \in JTI : chainPhase'[s] = IF ~Root(s)' THEN "unborn"
                           ELSE IF HasHead(s)' THEN "open"
                           ELSE IF InRotation(s)' THEN "rotating"
                           ELSE "closed"
    BY DEF chainPhase, Root, HasHead, InRotation
  <2>2. \A s \in JTI : chainPhase'[s] = IF s = f THEN "rotating" ELSE chainPhase[s]
    BY <1>2, <1>3, <2>1, PhaseDef
  <2> QED
    BY <2>2, PhaseIsFunction, Except
<1>6. chainHead' = [chainHead EXCEPT ![f] = {}]
  <2>1. \A s \in JTI : {j \in live' : refresh'[j].fam = s}
                         = IF s = f THEN {} ELSE {j \in live : refresh[j].fam = s}
    BY <1>1, ChainFacts
  <2> QED
    BY <2>1 DEF chainHead
<1>7. Issued' = Issued
  BY <1>1 DEF Issued
<1> QED
  BY <1>2, <1>4, <1>5, <1>6, <1>7 DEF Chain!StartRotate

\* Adding a row opens a chain or finishes a rotation.
LEMMA IssueMaps ==
  ASSUME IInv, NEW p \in Proc, NEW j \in JTI, issueTokens(p, j)
  PROVE  Chain!Open(j) \/ \E s \in JTI : Chain!FinishRotate(s, j)
<1> DEFINE f == IF req[p].jti = None THEN j ELSE Family(p)
<1>1. /\ req[p] \in Req /\ WellFormed(req[p]) /\ req \in [Proc -> Req]
      /\ req[p].pc = "store" /\ live \subseteq Issued /\ j \notin Issued
  BY DEF issueTokens, IInv, TypeOK
<1>2. /\ Issued' = Issued \cup {j} /\ live' = live \cup {j}
      /\ refresh'[j].fam = f
      /\ \A k \in Issued : refresh'[k] = refresh[k]
  BY <1>1 DEF issueTokens, Issued
<1>3. /\ req'[p].pc = "idle"
      /\ \A q \in Proc : q # p => req'[q] = req[q]
  BY <1>1 DEF issueTokens, Finish, Idle
<1>4. /\ Rotating' = Rotating \ {p}
      /\ \A q \in Rotating' : Family(q)' = Family(q)
      /\ (p \in Rotating <=> req[p].jti # None)
  <2>1. Rotating' = Rotating \ {p} /\ (p \in Rotating <=> req[p].jti # None)
    BY <1>1, <1>3 DEF Rotating
  <2>2. \A q \in Rotating : req[q].jti \in Issued
    BY DEF Rotating, IInv, TypeOK, WellFormed
  <2> QED
    BY <1>2, <1>3, <2>1, <2>2 DEF Family, Rotating
<1>5. \A k \in Issued : refresh[k].fam \in Issued
  BY DEF IInv, LineageIsolated
<1>6. \A s : HasHead(s)' <=> HasHead(s) \/ s = f
  BY <1>1, <1>2 DEF HasHead
<1>7. \A s \in JTI : chainPhase'[s] = IF ~Root(s)' THEN "unborn"
                           ELSE IF HasHead(s)' THEN "open"
                           ELSE IF InRotation(s)' THEN "rotating"
                           ELSE "closed"
  BY DEF chainPhase, Root, HasHead, InRotation
<1>8. CASE req[p].jti = None
  <2>1. \A s : (Root(s)' <=> Root(s) \/ s = j) /\ (InRotation(s)' <=> InRotation(s))
    BY <1>1, <1>2, <1>4, <1>8 DEF Root, InRotation
  <2>2. ~Root(j) /\ chainPhase[j] = "unborn"
    BY <1>1, PhaseDef DEF Root
  <2>3. chainPhase' = [chainPhase EXCEPT ![j] = "open"]
    <3>1. \A s \in JTI : chainPhase'[s] = IF s = j THEN "open" ELSE chainPhase[s]
      BY <1>6, <1>7, <1>8, <2>1, PhaseDef
    <3> QED
      BY <3>1, PhaseIsFunction, Except
  <2>4. chainHead' = [chainHead EXCEPT ![j] = {j}]
    <3>1. \A s \in JTI : {k \in live' : refresh'[k].fam = s}
                           = IF s = j THEN {j} ELSE {k \in live : refresh[k].fam = s}
      BY <1>1, <1>2, <1>5, <1>8
    <3> QED
      BY <3>1 DEF chainHead
  <2> QED
    BY <1>1, <1>2, <2>2, <2>3, <2>4 DEF Chain!Open
<1>9. CASE req[p].jti # None
  <2>1. f = Family(p) /\ InRotation(f) /\ ~HasHead(f) /\ Root(f) /\ f \in JTI /\ f # j
    BY <1>1, <1>4, <1>9, ChainFacts DEF InRotation, Root
  <2>2. \A s : /\ Root(s)' <=> Root(s)
               /\ InRotation(s)' <=> InRotation(s) /\ s # f
    <3>1. \A s : Root(s)' <=> Root(s)
      BY <1>1, <1>2, <2>1 DEF Root
    <3>2. \A s : InRotation(s)' <=> InRotation(s) /\ s # f
      BY <1>4, <1>9, <2>1, ChainFacts DEF InRotation
    <3> QED
      BY <3>1, <3>2
  <2>3. chainPhase[f] = "rotating"
    BY <2>1, PhaseDef
  <2>4. chainPhase' = [chainPhase EXCEPT ![f] = "open"]
    <3>1. \A s \in JTI : chainPhase'[s] = IF s = f THEN "open" ELSE chainPhase[s]
      BY <1>6, <1>7, <2>1, <2>2, PhaseDef
    <3> QED
      BY <3>1, PhaseIsFunction, Except
  <2>5. chainHead' = [chainHead EXCEPT ![f] = {j}]
    <3>1. \A s \in JTI : {k \in live' : refresh'[k].fam = s}
                           = IF s = f THEN {j} ELSE {k \in live : refresh[k].fam = s}
      BY <1>1, <1>2, <2>1 DEF HasHead
    <3> QED
      BY <3>1 DEF chainHead
  <2> QED
    BY <1>1, <1>2, <2>1, <2>3, <2>4, <2>5 DEF Chain!FinishRotate
<1> QED
  BY <1>8, <1>9

\* A step that touches neither the rows nor any rotation maps to revocations.
LEMMA QuietMaps ==
  ASSUME IInv, NEW p \in Proc, NEW r, ~RotatingReq(r),
         req' = [req EXCEPT ![p] = r], ~RotatingReq(req[p]),
         refresh' = refresh, live' \subseteq live
  PROVE  \E S \in SUBSET JTI : Chain!Close(S)
<1>1. req'[p] = r /\ \A q \in Proc : q # p => req'[q] = req[q]
  BY DEF IInv, TypeOK
<1>2. Rotating' = Rotating /\ p \notin Rotating
  BY <1>1 DEF Rotating, RotatingReq
<1>3. \A q \in Rotating : Family(q)' = Family(q)
  BY <1>1, <1>2 DEF Family, Rotating
<1> QED
  BY <1>2, <1>3, RevokeMaps

\* Every request a handler starts is one that rotates nothing.
LEMMA StartMaps ==
  ASSUME IInv, NEW p \in Proc, StartRequest(p)
  PROVE  \E S \in SUBSET JTI : Chain!Close(S)
<1> USE NoneAssumption
<1>1. \E r : Start(p, r) /\ ~RotatingReq(r) /\ refresh' = refresh /\ live' = live
  <2>1. \A u, c : ~RotatingReq(Sweep(u, c, "")) /\ ~RotatingReq(Sweep(u, c, "reuse"))
                 /\ ~RotatingReq(Sweep(u, c, "force"))
    BY DEF RotatingReq, Sweep
  <2>2. \A u, c, pc : ~RotatingReq(Busy(pc, u, c, None))
    BY DEF RotatingReq, Busy
  <2>3. \A u, c, j : ~RotatingReq(Busy("check", u, c, j))
    BY DEF RotatingReq, Busy
  <2>4. \A u, s : ~RotatingReq(Save(u, s))
    BY DEF RotatingReq, Save
  <2>5. ASSUME NEW u \in User, NEW c \in Client,
               \/ Login(p, u, c) \/ MFAComplete(p, u, c) \/ PasskeyLoginFinish(p, u, c)
               \/ LogoutAll(p, u, c) \/ SetPassword(p, u, c)
               \/ ResetPasswordConfirm(p, u, c) \/ FinishSAMLSLO(p, u, c)
        PROVE  \E r : Start(p, r) /\ ~RotatingReq(r) /\ refresh' = refresh /\ live' = live
    BY <2>1, <2>2, <2>5 DEF Login, MFAComplete, PasskeyLoginFinish, LogoutAll, SetPassword,
       ResetPasswordConfirm, FinishSAMLSLO
  <2>6. ASSUME NEW j \in Issued, NEW c \in Client, RefreshFind(p, j, c) \/ RefreshReuse(p, j, c)
        PROVE  \E r : Start(p, r) /\ ~RotatingReq(r) /\ refresh' = refresh /\ live' = live
    BY <2>1, <2>3, <2>6 DEF RefreshFind, RefreshReuse
  <2>7. ASSUME NEW u \in User, NEW s \in Status, SetUserStatus(p, u, s)
        PROVE  \E r : Start(p, r) /\ ~RotatingReq(r) /\ refresh' = refresh /\ live' = live
    BY <2>1, <2>7, IdleReq DEF SetUserStatus
  <2>8. ASSUME NEW u \in User, NEW c \in Client \cup {None}, ForceLogout(p, u, c)
        PROVE  \E r : Start(p, r) /\ ~RotatingReq(r) /\ refresh' = refresh /\ live' = live
    BY <2>1, <2>8 DEF ForceLogout
  <2>9. ASSUME NEW u \in User, AnonymizeUser(p, u) \/ UpdateProfile(p, u)
        PROVE  \E r : Start(p, r) /\ ~RotatingReq(r) /\ refresh' = refresh /\ live' = live
    BY <2>1, <2>4, <2>9 DEF AnonymizeUser, UpdateProfile
  <2>10. ASSUME NEW c \in Client, RotateSecret(p, c)
         PROVE  \E r : Start(p, r) /\ ~RotatingReq(r) /\ refresh' = refresh /\ live' = live
    BY <2>2, <2>10 DEF RotateSecret
  <2> QED
    BY <2>5, <2>6, <2>7, <2>8, <2>9, <2>10 DEF StartRequest
<1>2. \A r : Start(p, r) => req' = [req EXCEPT ![p] = r] /\ ~RotatingReq(req[p])
  BY IdleReq DEF Start
<1> QED
  BY <1>1, <1>2, QuietMaps

\* A request that goes on maps to a rotation step or to a revocation.
LEMMA ContinueMaps ==
  ASSUME IInv, NEW p \in Proc, ContinueRequest(p) \/ RevokeAllByUser(p)
  PROVE  Chain!Next
<1> USE NoneAssumption
<1>1. /\ req[p] \in Req /\ WellFormed(req[p]) /\ req \in [Proc -> Req]
  BY DEF IInv, TypeOK
<1>2. ASSUME NEW pc \in {"consume", "store"}, pc = "store" => req[p].jti = None,
             Goto(p, pc), req[p].pc # "store", refresh' = refresh, live' = live
      PROVE  \E S \in SUBSET JTI : Chain!Close(S)
  <2> DEFINE r == [req[p] EXCEPT !.pc = pc]
  <2>1. ~RotatingReq(r)
    BY <1>1, <1>2 DEF RotatingReq, Req
  <2>2. req' = [req EXCEPT ![p] = r] /\ ~RotatingReq(req[p])
    BY <1>2 DEF Goto, RotatingReq
  <2> HIDE DEF r
  <2> QED
    BY <1>2, <2>1, <2>2, QuietMaps
<1>3. ASSUME Finish(p), ~RotatingReq(req[p]), refresh' = refresh, live' \subseteq live
      PROVE  \E S \in SUBSET JTI : Chain!Close(S)
  BY <1>3, IdleReq, QuietMaps DEF Finish
<1>4. CASE resolveUser(p)
  <2>1. req[p].jti = None /\ req[p].pc # "store" /\ ~RotatingReq(req[p])
        /\ refresh' = refresh /\ live' = live
    BY <1>1, <1>4 DEF resolveUser, WellFormed, RotatingReq
  <2> QED
    BY <1>2, <1>3, <1>4, <2>1 DEF resolveUser, Chain!Next
<1>5. CASE RefreshCheckUser(p)
  <2>1. req[p].pc # "store" /\ ~RotatingReq(req[p]) /\ refresh' = refresh /\ live' = live
    BY <1>5 DEF RefreshCheckUser, RotatingReq
  <2> QED
    BY <1>2, <1>3, <1>5, <2>1 DEF RefreshCheckUser, Chain!Next
<1>6. CASE ConsumeActive(p)
  <2>1. CASE req[p].jti \in live
    BY <1>6, <2>1, ConsumeMaps DEF Chain!Next
  <2>2. CASE req[p].jti \notin live
    BY <1>3, <1>6, <2>2 DEF ConsumeActive, RotatingReq, Chain!Next
  <2> QED
    BY <2>1, <2>2
<1>7. ASSUME NEW j \in JTI, issueTokens(p, j) PROVE Chain!Next
  BY <1>7, IssueMaps DEF Chain!Next
<1>8. CASE RotateSecretSweep(p) \/ SaveUser(p) \/ RevokeAllByUser(p)
  <2>1. ~RotatingReq(req[p]) /\ Finish(p) /\ refresh' = refresh /\ live' \subseteq live
    BY <1>8 DEF RotateSecretSweep, SaveUser, RevokeAllByUser, RotatingReq
  <2> QED
    BY <1>3, <2>1 DEF Chain!Next
<1>9. CASE Abort(p)
  <2>1. Finish(p) /\ refresh' = refresh /\ live' = live
    BY <1>9 DEF Abort
  <2>2. CASE ~RotatingReq(req[p])
    BY <1>3, <2>1, <2>2 DEF Chain!Next
  <2>3. CASE RotatingReq(req[p])
    <3>1. /\ p \in Rotating /\ Rotating' = Rotating \ {p}
          /\ \A q \in Rotating' : Family(q)' = Family(q)
      BY <1>1, <2>1, <2>3 DEF Finish, Rotating, RotatingReq, Idle, Family
    <3> QED
      BY <2>1, <3>1, LoseMaps DEF Chain!Next
  <2> QED
    BY <2>2, <2>3
<1> QED
  BY <1>4, <1>5, <1>6, <1>7, <1>8, <1>9 DEF ContinueRequest

\* Requests of a single call revoke rows or leave the table alone.
LEMMA OneCallMaps ==
  ASSUME IInv, OneCallRequest
  PROVE  \E S \in SUBSET JTI : Chain!Close(S)
<1>1. req' = req /\ refresh' = refresh /\ live' \subseteq live
  BY DEF OneCallRequest, Logout, RevokeSession, RevokeOtherSessions, RevokeToken,
     Revoke, RevokeOthers, mergeUsers, UpdateApp
<1> QED
  BY <1>1, RevokeMaps DEF Rotating, Family

\* An empty table has no chains.
LEMMA InitMaps == Init => Chain!Init
<1> SUFFICES ASSUME Init PROVE Chain!Init
  OBVIOUS
<1>1. Issued = {} /\ live = {}
  BY DEF Init, Issued
<1> QED
  BY <1>1 DEF chainPhase, chainHead, Chain!Init

\* Every step of the table is a step of its chains or leaves them alone.
LEMMA ChainStep ==
  ASSUME IInv, [Next]_vars
  PROVE  [Chain!Next]_chainVars
<1>1. CASE UNCHANGED vars
  BY <1>1 DEF vars, chainVars, chainPhase, chainHead, Issued, Rotating, Family
<1>2. CASE Next
  <2>1. ASSUME NEW p \in Proc, StartRequest(p) PROVE Chain!Next
    BY <2>1, StartMaps DEF Chain!Next
  <2>2. ASSUME OneCallRequest PROVE Chain!Next
    BY <2>2, OneCallMaps DEF Chain!Next
  <2> QED
    BY <1>2, <2>1, <2>2, ContinueMaps DEF Next
<1> QED
  BY <1>1, <1>2

\* The refresh_tokens table implements rotation chains: at most one token of
\* a login can be exchanged, and a chain revoked at rest stays closed.
THEOREM Refinement == Spec => ImplementsChain
<1>1. IInv /\ [Next]_vars => [Chain!Next]_chainVars
  BY ChainStep
<1> QED
  BY InitMaps, Invariance, <1>1, PTL DEF Spec, ImplementsChain, Chain!Spec, chainVars

-----------------------------------------------------------------------------
(* What a bulk revocation puts out of use *)

\* A closed chain never opens again, which is what SessionChain is for.
LEMMA ClosedStays ==
  ASSUME [Chain!Next]_chainVars, NEW s \in JTI, chainPhase[s] = "closed"
  PROVE  chainPhase'[s] = "closed"
<1>1. DOMAIN chainPhase = JTI
  BY PhaseDef
<1>2. CASE UNCHANGED chainVars
  BY <1>2 DEF chainVars
<1>3. ASSUME NEW r \in JTI, Chain!Open(r) \/ Chain!StartRotate(r) \/ Chain!Lose(r)
      PROVE  chainPhase'[s] = "closed"
  BY <1>1, <1>3 DEF Chain!Open, Chain!StartRotate, Chain!Lose
<1>4. ASSUME NEW r \in JTI, NEW j \in JTI, Chain!FinishRotate(r, j)
      PROVE  chainPhase'[s] = "closed"
  BY <1>1, <1>4 DEF Chain!FinishRotate
<1>5. ASSUME NEW S \in SUBSET JTI, Chain!Close(S)
      PROVE  chainPhase'[s] = "closed"
  BY <1>5 DEF Chain!Close
<1> QED
  BY <1>2, <1>3, <1>4, <1>5 DEF Chain!Next

\* Rows are never deleted nor handed to another login.
LEMMA RowsStay ==
  ASSUME IInv, [Next]_vars
  PROVE  Issued \subseteq Issued' /\ \A k \in Issued : refresh'[k] = refresh[k]
<1>1. ASSUME NEW p \in Proc, StartRequest(p) PROVE refresh' = refresh
  BY <1>1 DEF StartRequest, Login, MFAComplete, PasskeyLoginFinish, LogoutAll, SetPassword,
     ResetPasswordConfirm, FinishSAMLSLO, RefreshFind, RefreshReuse, SetUserStatus,
     ForceLogout, AnonymizeUser, UpdateProfile, RotateSecret
<1>2. ASSUME OneCallRequest PROVE refresh' = refresh
  BY <1>2 DEF OneCallRequest, Logout, RevokeSession, RevokeOtherSessions, RevokeToken,
     mergeUsers, UpdateApp
<1>3. ASSUME NEW p \in Proc, NEW j \in JTI, issueTokens(p, j)
      PROVE  Issued \subseteq Issued' /\ \A k \in Issued : refresh'[k] = refresh[k]
  BY <1>3 DEF issueTokens, Issued
<1>4. ASSUME NEW p \in Proc, ContinueRequest(p) \/ RevokeAllByUser(p),
             ~\E j \in JTI : issueTokens(p, j)
      PROVE  refresh' = refresh
  BY <1>4 DEF ContinueRequest, RevokeAllByUser, resolveUser, RefreshCheckUser, ConsumeActive,
     RotateSecretSweep, SaveUser, Abort
<1> QED
  BY <1>1, <1>2, <1>3, <1>4 DEF Next, vars, Issued

\* A login whose last sweep missed no rotation of it is closed.
SweptClosed ==
  \A why \in Why : \A k \in swept[why] :
    refresh[k].fam \notin missed => chainPhase[refresh[k].fam] = "closed"

SweepsInv == IInv /\ swept \in [Why -> SUBSET Issued] /\ SweptClosed

\* The login of a row is one of JTI, and its first row is its root.
LEMMA LoginOfRow ==
  ASSUME IInv, NEW k \in Issued
  PROVE  refresh[k].fam \in JTI /\ Root(refresh[k].fam)
BY DEF IInv, LineageIsolated, TypeOK, Root, Row

\* RevokeAllByUser covers all rows of a login or none.
LEMMA ScopeOfLogin ==
  ASSUME IInv, NEW u, NEW c, NEW k \in Scope(u, c), NEW j \in Issued,
         refresh[j].fam = refresh[k].fam
  PROVE  j \in Scope(u, c)
BY DEF IInv, LineageIsolated, Scope

\* Sweeping closes every login in its scope that is not in rotation.
LEMMA SweepCloses ==
  ASSUME IInv, IInv', NEW p \in Proc, RevokeAllByUser(p),
         NEW s \in Logins(Scope(req[p].user, req[p].client)), s \notin InFlight
  PROVE  s \in JTI /\ chainPhase'[s] = "closed"
<1> DEFINE rows == Scope(req[p].user, req[p].client)
<1>1. PICK k \in rows : s = refresh[k].fam
  BY DEF Logins
<1>2. k \in Issued /\ s \in JTI /\ Root(s)
  BY <1>1, LoginOfRow DEF Scope
<1>3. /\ refresh' = refresh /\ live' = live \ rows /\ live \subseteq Issued
      /\ req' = [req EXCEPT ![p] = Idle] /\ req \in [Proc -> Req] /\ req[p].pc = "revoke"
  BY DEF RevokeAllByUser, Finish, IInv, TypeOK
<1>4. Root(s)' /\ ~HasHead(s)'
  BY <1>1, <1>2, <1>3, ScopeOfLogin DEF Root, HasHead, Issued
<1>5. ~InRotation(s)'
  BY <1>3 DEF InFlight, InRotation, Rotating, Family, Idle
<1> QED
  BY <1>2, <1>4, <1>5 DEF chainPhase, Root, HasHead, InRotation

\* A step that sweeps nothing leaves closed what the sweeps closed.
LEMMA OtherKeepsSweeps ==
  ASSUME SweepsInv, [Next]_vars, UNCHANGED <<swept, missed>>
  PROVE  SweepsInv'
<1>1. IInv'
  BY InvariantStep DEF SweepsInv
<1>2. Issued \subseteq Issued' /\ \A k \in Issued : refresh'[k] = refresh[k]
  BY RowsStay DEF SweepsInv
<1>3. swept' \in [Why -> SUBSET Issued']
  BY <1>2 DEF SweepsInv
<1>4. SweptClosed'
  <2> SUFFICES ASSUME NEW why \in Why, NEW k \in swept[why], refresh'[k].fam \notin missed
               PROVE  chainPhase'[refresh'[k].fam] = "closed"
    BY DEF SweptClosed
  <2>1. k \in Issued /\ refresh'[k] = refresh[k]
    BY <1>2 DEF SweepsInv
  <2>2. refresh[k].fam \in JTI /\ chainPhase[refresh[k].fam] = "closed"
    BY <2>1, LoginOfRow DEF SweepsInv, SweptClosed
  <2> QED
    BY <2>1, <2>2, ClosedStays, ChainStep DEF SweepsInv
<1> QED
  BY <1>1, <1>3, <1>4 DEF SweepsInv

\* Nor does a sweep.
LEMMA SweepKeepsSweeps ==
  ASSUME SweepsInv, NEW p \in Proc, SweepRows(p)
  PROVE  SweepsInv'
<1> DEFINE rows == Scope(req[p].user, req[p].client)
<1>1. Next /\ RevokeAllByUser(p) /\ IInv
  BY DEF SweepRows, Next, SweepsInv
<1>2. IInv' /\ [Chain!Next]_chainVars
  BY <1>1, InvariantStep, ChainStep
<1>3. refresh' = refresh /\ Issued' = Issued
  BY <1>1 DEF RevokeAllByUser, Issued
<1>4. /\ swept' = [swept EXCEPT ![req[p].why] = @ \cup rows]
      /\ missed' = (missed \ Logins(rows)) \cup (Logins(rows) \cap InFlight)
      /\ rows \subseteq Issued
  BY DEF SweepRows, Scope
<1>5. swept' \in [Why -> SUBSET Issued']
  BY <1>3, <1>4 DEF SweepsInv
<1>6. SweptClosed'
  <2> SUFFICES ASSUME NEW why \in Why, NEW k \in swept'[why], refresh[k].fam \notin missed'
               PROVE  chainPhase'[refresh[k].fam] = "closed"
    BY <1>3 DEF SweptClosed
  <2>1. CASE refresh[k].fam \in Logins(rows)
    BY <1>1, <1>2, <1>4, <2>1, SweepCloses
  <2>2. CASE refresh[k].fam \notin Logins(rows)
    <3>1. k \in swept[why] /\ refresh[k].fam \notin missed
      BY <1>4, <2>2 DEF SweepsInv, Logins
    <3>2. refresh[k].fam \in JTI /\ chainPhase[refresh[k].fam] = "closed"
      BY <3>1, LoginOfRow DEF SweepsInv, SweptClosed
    <3> QED
      BY <1>2, <3>2, ClosedStays
  <2> QED
    BY <2>1, <2>2
<1> QED
  BY <1>2, <1>5, <1>6 DEF SweepsInv

\* RevokeAllByUser: a forced logout, reuse handling or any other sweep puts
\* every login it covers out of use for good, but for a login one of whose
\* tokens was being exchanged while the last such sweep ran.
THEOREM SweepsExactHolds == SpecSweeps => []SweepsExact
<1>1. InitSweeps => SweepsInv
  BY InitIInv DEF InitSweeps, SweepsInv, SweptClosed
<1>2. SweepsInv /\ [NextSweeps]_sweepVars => SweepsInv'
  <2> SUFFICES ASSUME SweepsInv, [NextSweeps]_sweepVars PROVE SweepsInv'
    OBVIOUS
  <2>1. CASE \E p \in Proc : SweepRows(p)
    BY <2>1, SweepKeepsSweeps
  <2>2. CASE /\ \/ \E p \in Proc : StartRequest(p) \/ ContinueRequest(p)
                \/ OneCallRequest
             /\ UNCHANGED <<swept, missed>>
    BY <2>2, OtherKeepsSweeps DEF Next
  <2>3. CASE UNCHANGED sweepVars
    BY <2>3, OtherKeepsSweeps DEF sweepVars
  <2> QED
    BY <2>1, <2>2, <2>3 DEF NextSweeps
<1>3. SweepsInv => SweepsExact
  <2> SUFFICES ASSUME SweepsInv, NEW why \in Why, NEW k \in swept[why],
                      refresh[k].fam \notin missed
               PROVE  /\ \A j \in live : refresh[j].fam # refresh[k].fam
                      /\ refresh[k].fam \notin InFlight
    BY DEF SweepsExact
  <2>1. refresh[k].fam \in JTI /\ chainPhase[refresh[k].fam] = "closed"
    BY LoginOfRow DEF SweepsInv, SweptClosed
  <2>2. ~HasHead(refresh[k].fam) /\ ~InRotation(refresh[k].fam)
    BY <2>1, PhaseDef
  <2> QED
    BY <2>2 DEF HasHead, InRotation, InFlight
<1> QED
  BY <1>1, <1>2, <1>3, PTL DEF SpecSweeps
=============================================================================
