---------------------------- MODULE InvitesProofs ----------------------------
(***************************************************************************)
(* Proofs about Invites, for any identities, join requests and finitely    *)
(* many concurrent requests, and an invite with any number of uses.        *)
(***************************************************************************)
EXTENDS Invites, FiniteSetTheorems, TLAPS

\* Requests that hold the invite, and those of them that have created a user.
Holders == {p \in Proc : ~At(p, "idle") /\ req[p].invited}

Owing == {p \in Holders : At(p, "identity") \/ At(p, "issue")}

\* Users whose request has come to an end in Consume.
Settled == admitted - unpaid - Cardinality(Owing)

\* A review works on the request's own identity, and approves it only with
\* the identity in the table.
Reviews ==
  \A p \in Proc : ~At(p, "idle") =>
    /\ At(p, "issue") => req[p].invited
    /\ req[p].join # None => req[p].join \in Requests /\ join[req[p].join].key = req[p].key
    /\ At(p, "approve") => req[p].join # None /\ req[p].key \in registered

\* While the invite has a use left every settled user is in its count; the
\* last use leaves fewer holders than processes, and no more come.
Accounts ==
  /\ invite.open /\ invite.used < MaxUses => Settled = invite.used
  /\ Settled + Cardinality(Holders) < MaxUses + Cardinality(Proc)

\* The inductive invariant.
IInv == TypeOK /\ Reviews /\ ApprovedIsRegistered /\ Accounts

-----------------------------------------------------------------------------
\* Sets of requests are finite.
LEMMA ProcSets ==
  ASSUME NEW S \in SUBSET Proc
  PROVE  IsFiniteSet(S) /\ Cardinality(S) \in Nat /\ Cardinality(S) <= Cardinality(Proc)
BY ProcAssumption, FS_Subset, FS_CardinalityType

LEMMA HolderSets ==
  /\ Holders \in SUBSET Proc /\ Owing \in SUBSET Holders
  /\ IsFiniteSet(Holders) /\ Cardinality(Holders) \in Nat
  /\ IsFiniteSet(Owing) /\ Cardinality(Owing) \in Nat
  /\ Cardinality(Owing) <= Cardinality(Holders) /\ Cardinality(Proc) \in Nat
<1>1. Holders \in SUBSET Proc /\ Owing \in SUBSET Holders
  BY DEF Holders, Owing
<1> QED
  BY <1>1, ProcSets, FS_Subset, FS_CardinalityType, ProcAssumption

\* The accounts bound the users created.
LEMMA Consequences == IInv => InviteBounded
BY HolderSets, LimitAssumption DEF IInv, TypeOK, Accounts, Settled, InviteBounded

LEMMA InitIInv == Init => IInv
<1> SUFFICES ASSUME Init PROVE IInv
  OBVIOUS
<1>1. \A p \in Proc : req[p] = Idle
  BY DEF Init
<1>2. Holders = {} /\ Owing = {}
  BY <1>1 DEF Holders, Owing, At, Idle
<1>3. Requests = {}
  BY DEF Init, Requests
<1>4. TypeOK
  BY <1>3, LimitAssumption DEF Init, TypeOK, Req
<1>5. Reviews /\ ApprovedIsRegistered
  BY <1>1, <1>3 DEF Reviews, ApprovedIsRegistered, At, Idle
<1>6. Accounts
  <2>1. Cardinality(Proc) \in Nat /\ MaxUses \in Nat \ {0} /\ Cardinality({}) = 0
    BY ProcAssumption, FS_CardinalityType, LimitAssumption, FS_EmptySet
  <2>2. invite.used = 0 /\ Settled = 0 /\ Cardinality(Holders) = 0
    BY <1>2, <2>1 DEF Init, Settled
  <2> QED
    BY <2>1, <2>2 DEF Accounts
<1> QED
  BY <1>4, <1>5, <1>6 DEF IInv

-----------------------------------------------------------------------------
\* What a step does to req keeps it well formed, and the table of join
\* requests keeps its rows' identities.
LEMMA TypeStep == IInv /\ [Next]_vars => TypeOK'
<1> SUFFICES ASSUME IInv, [Next]_vars PROVE TypeOK'
  OBVIOUS
<1> USE DEF IInv, TypeOK, Idle
<1>1. ASSUME NEW p \in Proc, NEW k \in Key, NEW invited \in BOOLEAN, Login(p, k, invited)
      PROVE  TypeOK'
  BY <1>1 DEF Login, Start, Req, PC, Requests
<1>2. ASSUME NEW p \in Proc, resolveUser(p) PROVE TypeOK'
  <2>1. req' \in [Proc -> Req]
    BY <1>2 DEF resolveUser, At, Goto, Finish, Req, PC
  <2> QED
    BY <1>2, <2>1 DEF resolveUser, Requests
<1>3. ASSUME NEW p \in Proc, NEW j \in Join, createJoinRequest(p, j) PROVE TypeOK'
  <2>1. req[p].key \in Key /\ req' \in [Proc -> Req]
    BY <1>3 DEF createJoinRequest, At, Finish, Req
  <2> QED
    BY <1>3, <2>1 DEF createJoinRequest, Requests, JoinRequest
<1>4. ASSUME NEW p \in Proc, NEW j \in Join, ReviewJoinRequest(p, j) PROVE TypeOK'
  <2>1. join[j].key \in Key
    BY <1>4 DEF ReviewJoinRequest, JoinRequest
  <2> QED
    BY <1>4, <2>1 DEF ReviewJoinRequest, Start, Req, PC, Requests
<1>5. ASSUME NEW p \in Proc, CreateUser(p) PROVE TypeOK'
  <2>1. req' \in [Proc -> Req]
    BY <1>5 DEF CreateUser, At, Goto, Req, PC
  <2> QED
    BY <1>5, <2>1 DEF CreateUser, Requests
<1>6. ASSUME NEW p \in Proc, CreateIdentity(p) PROVE TypeOK'
  <2>1. req[p].key \in Key /\ req' \in [Proc -> Req]
    BY <1>6 DEF CreateIdentity, At, Goto, Finish, Req, PC
  <2> QED
    BY <1>6, <2>1 DEF CreateIdentity, Requests
<1>7. ASSUME NEW p \in Proc, Consume(p) PROVE TypeOK'
  <2>1. invite' \in [open : BOOLEAN, used : 0 .. MaxUses]
    BY <1>7, LimitAssumption DEF Consume
  <2> QED
    BY <1>7, <2>1 DEF Consume, Finish, Requests, Req
<1>8. ASSUME NEW p \in Proc, SaveReview(p) PROVE TypeOK'
  <2>1. Requests' = Requests /\ \A j \in Requests : join'[j] \in JoinRequest
    BY <1>8 DEF SaveReview, Requests, JoinRequest
  <2> QED
    BY <1>8, <2>1 DEF SaveReview, Finish, Req
<1>9. ASSUME NEW p \in Proc, Abort(p) PROVE TypeOK'
  BY <1>9 DEF Abort, Finish, Requests, Req
<1>10. ASSUME RevokeInvite PROVE TypeOK'
  BY <1>10, LimitAssumption DEF RevokeInvite, Requests
<1>11. ASSUME NEW k \in Key, Rebind(k) PROVE TypeOK'
  BY <1>11 DEF Rebind, Requests
<1>12. CASE UNCHANGED vars
  BY <1>12 DEF vars, Requests
<1> QED
  BY <1>1, <1>2, <1>3, <1>4, <1>5, <1>6, <1>7, <1>8, <1>9, <1>10, <1>11, <1>12 DEF Next

\* A review's request stays in the table with the identity it was made for,
\* and what has been registered stays so.
LEMMA ReviewsStep == IInv /\ [Next]_vars => Reviews' /\ ApprovedIsRegistered'
<1> SUFFICES ASSUME IInv, [Next]_vars PROVE Reviews' /\ ApprovedIsRegistered'
  OBVIOUS
<1> USE DEF IInv, TypeOK
<1>1. ASSUME join' = join, registered' = registered,
             NEW p \in Proc, \A q \in Proc \ {p} : req'[q] = req[q],
             \/ At(p, "idle")'
             \/ /\ At(p, "issue")' => req'[p].invited
                /\ req'[p].join # None => req'[p].join \in Requests
                                          /\ join[req'[p].join].key = req'[p].key
                /\ ~At(p, "approve")'
      PROVE  Reviews' /\ ApprovedIsRegistered'
  <2>1. ApprovedIsRegistered'
    BY <1>1 DEF ApprovedIsRegistered, Requests
  <2>2. ASSUME NEW q \in Proc, ~At(q, "idle")'
        PROVE  /\ At(q, "issue")' => req'[q].invited
               /\ req'[q].join # None => req'[q].join \in Requests'
                                         /\ join'[req'[q].join].key = req'[q].key
               /\ At(q, "approve")' => req'[q].join # None /\ req'[q].key \in registered'
    <3>1. CASE q = p
      BY <1>1, <2>2, <3>1 DEF Requests
    <3>2. CASE q # p
      BY <1>1, <2>2, <3>2 DEF Reviews, At, Requests
    <3> QED
      BY <3>1, <3>2
  <2> QED
    BY <2>1, <2>2 DEF Reviews
<1>2. ASSUME join' = join, registered' = registered, req' = req
      PROVE  Reviews' /\ ApprovedIsRegistered'
  BY <1>2 DEF Reviews, ApprovedIsRegistered, Requests, At
<1>3. ASSUME NEW p \in Proc, Finish(p), join' = join, registered' = registered
      PROVE  Reviews' /\ ApprovedIsRegistered'
  <2>1. At(p, "idle")' /\ \A q \in Proc \ {p} : req'[q] = req[q]
    BY <1>3 DEF Finish, At, Idle
  <2> QED
    BY <1>1, <1>3, <2>1
<1>4. ASSUME NEW p \in Proc, NEW pc \in PC \ {"issue", "approve"}, Goto(p, pc), ~At(p, "idle"),
             join' = join, registered' = registered
      PROVE  Reviews' /\ ApprovedIsRegistered'
  <2>1. \A q \in Proc \ {p} : req'[q] = req[q]
    BY <1>4 DEF Goto
  <2>2. /\ req'[p].pc = pc /\ req'[p].join = req[p].join /\ req'[p].key = req[p].key
        /\ req'[p].invited = req[p].invited
    BY <1>4 DEF Goto, At, Req, Idle
  <2> QED
    BY <1>1, <1>4, <2>1, <2>2 DEF At, Reviews, PC
<1>5. ASSUME NEW p \in Proc, NEW pc \in PC \ {"issue", "approve"}, NEW k \in Key,
             NEW invited \in BOOLEAN, NEW j \in Join \cup {None}, Start(p, pc, k, invited, j),
             j # None => j \in Requests /\ join[j].key = k, join' = join, registered' = registered
      PROVE  Reviews' /\ ApprovedIsRegistered'
  <2>1. \A q \in Proc \ {p} : req'[q] = req[q]
    BY <1>5 DEF Start
  <2>2. /\ req'[p].pc = pc /\ req'[p].join = j /\ req'[p].key = k
        /\ req'[p].invited = invited
    BY <1>5 DEF Start
  <2> QED
    BY <1>1, <1>5, <2>1, <2>2 DEF At, PC
<1>6. ASSUME NEW p \in Proc, NEW k \in Key, NEW invited \in BOOLEAN, Login(p, k, invited)
      PROVE  Reviews' /\ ApprovedIsRegistered'
  BY <1>5, <1>6 DEF Login, PC
<1>7. ASSUME NEW p \in Proc, resolveUser(p) PROVE Reviews' /\ ApprovedIsRegistered'
  <2>1. ~At(p, "idle") /\ join' = join /\ registered' = registered
    BY <1>7 DEF resolveUser, At
  <2>2. Finish(p) \/ Goto(p, "user") \/ Goto(p, "join")
    BY <1>7 DEF resolveUser
  <2> QED
    BY <1>3, <1>4, <2>1, <2>2 DEF PC
<1>8. ASSUME NEW p \in Proc, NEW j \in Join, createJoinRequest(p, j)
      PROVE  Reviews' /\ ApprovedIsRegistered'
  <2>1. /\ Requests' = Requests \cup {j} /\ \A i \in Requests : join'[i] = join[i]
        /\ join'[j].status = "pending" /\ registered' = registered
    BY <1>8 DEF createJoinRequest, Requests
  <2>2. req'[p].pc = "idle" /\ \A q \in Proc \ {p} : req'[q] = req[q]
    BY <1>8 DEF createJoinRequest, Finish, Idle
  <2>3. ApprovedIsRegistered'
    BY <2>1 DEF ApprovedIsRegistered
  <2>4. Reviews'
    BY <2>1, <2>2 DEF Reviews, At
  <2> QED
    BY <2>3, <2>4
<1>9. ASSUME NEW p \in Proc, NEW j \in Join, ReviewJoinRequest(p, j)
      PROVE  Reviews' /\ ApprovedIsRegistered'
  <2>1. j \in Requests /\ join[j].key \in Key
    BY <1>9 DEF ReviewJoinRequest, JoinRequest
  <2>2. PICK pc \in {"user", "reject"} : Start(p, pc, join[j].key, FALSE, j)
    BY <1>9 DEF ReviewJoinRequest
  <2> QED
    BY <1>5, <1>9, <2>1, <2>2 DEF ReviewJoinRequest, PC
<1>10. ASSUME NEW p \in Proc, CreateUser(p) PROVE Reviews' /\ ApprovedIsRegistered'
  BY <1>4, <1>10 DEF CreateUser, At, PC
<1>11. ASSUME NEW p \in Proc, CreateIdentity(p) PROVE Reviews' /\ ApprovedIsRegistered'
  <2>1. /\ join' = join /\ Requests' = Requests
        /\ registered' = registered \cup {req[p].key} /\ ~At(p, "idle")
    BY <1>11 DEF CreateIdentity, At, Requests
  <2>2. ApprovedIsRegistered'
    BY <2>1 DEF ApprovedIsRegistered
  <2>3. \A q \in Proc \ {p} : req'[q] = req[q]
    BY <1>11 DEF CreateIdentity, Goto, Finish
  <2>4. \/ At(p, "idle")'
        \/ /\ req'[p].join = req[p].join /\ req'[p].key = req[p].key
           /\ req'[p].invited = req[p].invited
           /\ \/ req'[p].pc = "issue" /\ req[p].invited
              \/ req'[p].pc = "approve" /\ req[p].join # None
    BY <1>11 DEF CreateIdentity, Goto, Finish, At, Req, Idle
  <2>5. ASSUME NEW q \in Proc, ~At(q, "idle")'
        PROVE  /\ At(q, "issue")' => req'[q].invited
               /\ req'[q].join # None => req'[q].join \in Requests'
                                         /\ join'[req'[q].join].key = req'[q].key
               /\ At(q, "approve")' => req'[q].join # None /\ req'[q].key \in registered'
    <3>1. CASE q = p
      BY <2>1, <2>4, <2>5, <3>1 DEF Reviews, At
    <3>2. CASE q # p
      BY <2>1, <2>3, <2>5, <3>2 DEF Reviews, At
    <3> QED
      BY <3>1, <3>2
  <2> QED
    BY <2>2, <2>5 DEF Reviews
<1>12. ASSUME NEW p \in Proc, Consume(p) PROVE Reviews' /\ ApprovedIsRegistered'
  BY <1>3, <1>12 DEF Consume
<1>13. ASSUME NEW p \in Proc, SaveReview(p) PROVE Reviews' /\ ApprovedIsRegistered'
  <2>1. /\ Requests' = Requests /\ registered' = registered
        /\ \A j \in Requests : join'[j].key = join[j].key
        /\ \A j \in Requests : join'[j].status = "approved" =>
             join[j].status = "approved" \/ (j = req[p].join /\ At(p, "approve"))
    BY <1>13 DEF SaveReview, Requests, JoinRequest
  <2>2. ~At(p, "idle")
    BY <1>13 DEF SaveReview, At
  <2>3. ApprovedIsRegistered'
    BY <2>1, <2>2 DEF ApprovedIsRegistered, Reviews
  <2>4. req'[p].pc = "idle" /\ \A q \in Proc \ {p} : req'[q] = req[q]
    BY <1>13 DEF SaveReview, Finish, Idle
  <2>5. Reviews'
    BY <2>1, <2>4 DEF Reviews, At
  <2> QED
    BY <2>3, <2>5
<1>14. ASSUME NEW p \in Proc, Abort(p) PROVE Reviews' /\ ApprovedIsRegistered'
  BY <1>3, <1>14 DEF Abort
<1>15. CASE RevokeInvite \/ (\E k \in Key : Rebind(k)) \/ UNCHANGED vars
  BY <1>2, <1>15 DEF RevokeInvite, Rebind, vars
<1> QED
  BY <1>6, <1>7, <1>8, <1>9, <1>10, <1>11, <1>12, <1>13, <1>14, <1>15 DEF Next

-----------------------------------------------------------------------------
\* A step that settles nobody, brings no holder and leaves the invite alone,
\* or closes it, keeps the accounts.
LEMMA AccountsKept ==
  ASSUME IInv, Settled' = Settled, Holders' \in SUBSET Holders,
         invite' = invite \/ ~invite'.open
  PROVE  Accounts'
<1>1. Holders' \in SUBSET Proc /\ IsFiniteSet(Holders)
  BY HolderSets
<1>2. Cardinality(Holders') \in Nat /\ Cardinality(Holders') <= Cardinality(Holders)
  BY <1>1, ProcSets, FS_Subset
<1>3. Settled \in Int /\ Cardinality(Holders) \in Nat /\ Cardinality(Proc) \in Nat /\ MaxUses \in Nat
  BY HolderSets, LimitAssumption DEF IInv, TypeOK, Settled
<1> QED
  BY <1>2, <1>3 DEF IInv, Accounts

\* Adding an element to a set of requests, or taking one out, counts one.
LEMMA CountAdd ==
  ASSUME NEW S \in SUBSET Proc, NEW p \in Proc \ S
  PROVE  Cardinality(S \cup {p}) = Cardinality(S) + 1
BY ProcSets, FS_AddElement

LEMMA CountRemove ==
  ASSUME NEW S \in SUBSET Proc, NEW p \in S
  PROVE  Cardinality(S \ {p}) = Cardinality(S) - 1
BY ProcSets, FS_RemoveElement

\* A request that ends holds the invite no longer.
LEMMA Ends ==
  ASSUME TypeOK, NEW p \in Proc, Finish(p)
  PROVE  Holders' = Holders \ {p} /\ Owing' = Owing \ {p}
BY DEF TypeOK, Finish, Holders, Owing, At, Idle

\* A request that goes on holds it as before, and owes for a user it creates.
LEMMA GoesOn ==
  ASSUME TypeOK, NEW p \in Proc, NEW pc \in PC, ~At(p, "idle"), Goto(p, pc)
  PROVE  /\ Holders' = Holders
         /\ Owing' = IF req[p].invited /\ pc \in {"identity", "issue"}
                     THEN Owing \cup {p} ELSE Owing \ {p}
<1>1. req[p] \in [pc : PC, key : Key, invited : BOOLEAN, join : Join \cup {None}]
  BY DEF TypeOK, Req, At, Idle
<1>2. req'[p].pc = pc /\ req'[p].invited = req[p].invited /\ pc # "idle"
  BY <1>1 DEF TypeOK, Goto, PC
<1>3. \A q \in Proc \ {p} : req'[q] = req[q]
  BY DEF TypeOK, Goto
<1>4. Holders' = Holders
  BY <1>2, <1>3 DEF Holders, At
<1>5. Owing' = IF req[p].invited /\ pc \in {"identity", "issue"}
               THEN Owing \cup {p} ELSE Owing \ {p}
  BY <1>2, <1>3, <1>4 DEF Owing, Holders, At
<1> QED
  BY <1>4, <1>5

LEMMA AccountsStep == IInv /\ [Next]_vars => Accounts'
<1> SUFFICES ASSUME IInv, [Next]_vars PROVE Accounts'
  OBVIOUS
<1>0. /\ Settled \in Int /\ admitted \in Nat /\ unpaid \in Nat /\ MaxUses \in Nat \ {0}
      /\ TypeOK /\ Reviews /\ Accounts
  BY HolderSets, LimitAssumption DEF IInv, TypeOK, Settled
<1>1. ASSUME NEW p \in Proc, NEW k \in Key, NEW invited \in BOOLEAN, Login(p, k, invited)
      PROVE  Accounts'
  <2>1. req'[p].pc = "find" /\ req'[p].invited = invited /\ At(p, "idle")
    BY <1>0, <1>1 DEF Login, Start, TypeOK
  <2>2. \A q \in Proc \ {p} : req'[q] = req[q]
    BY <1>0, <1>1 DEF Login, Start, TypeOK
  <2>3. Holders' = (IF invited THEN Holders \cup {p} ELSE Holders) /\ p \notin Holders
    BY <2>1, <2>2 DEF Holders, At
  <2>4. Owing' = Owing
    BY <2>1, <2>2 DEF Owing, Holders, At
  <2>5. Settled' = Settled /\ invite' = invite
    BY <1>1, <2>4 DEF Login, Settled
  <2>6. CASE ~invited
    BY <2>3, <2>5, <2>6, AccountsKept
  <2>7. CASE invited
    <3>1. invite.open /\ invite.used < MaxUses /\ Settled = invite.used
      BY <1>0, <1>1, <2>7 DEF Login, validateInviteForRegister, Accounts
    <3>2. Holders \cup {p} \in SUBSET Proc
      BY HolderSets
    <3>3. Cardinality(Holders') \in Nat /\ Cardinality(Holders') <= Cardinality(Proc)
      BY <2>3, <2>7, <3>2, ProcSets
    <3>4. Settled' + Cardinality(Holders') < MaxUses + Cardinality(Proc)
      BY <1>0, <2>5, <3>1, <3>3, HolderSets
    <3> QED
      BY <2>5, <3>1, <3>4 DEF Accounts
  <2> QED
    BY <2>6, <2>7
<1>2. ASSUME NEW p \in Proc, Finish(p), p \notin Owing, invite' = invite,
             admitted' = admitted, unpaid' = unpaid
      PROVE  Accounts'
  <2>1. Holders' \in SUBSET Holders /\ Owing' = Owing
    BY <1>0, <1>2, Ends
  <2> QED
    BY <1>2, <2>1, AccountsKept DEF Settled
<1>3. ASSUME NEW p \in Proc, resolveUser(p) PROVE Accounts'
  <2>1. ~At(p, "idle") /\ p \notin Owing /\ UNCHANGED <<invite, admitted, unpaid>>
    BY <1>3 DEF resolveUser, At, Owing
  <2>2. CASE Finish(p)
    BY <1>2, <2>1, <2>2
  <2>3. ASSUME NEW pc \in {"user", "join"}, Goto(p, pc) PROVE Accounts'
    <3>1. Holders' = Holders /\ Owing' = Owing
      BY <1>0, <2>1, <2>3, GoesOn DEF PC
    <3> QED
      BY <2>1, <3>1, AccountsKept DEF Settled
  <2> QED
    BY <1>3, <2>2, <2>3 DEF resolveUser
<1>4. ASSUME NEW p \in Proc, NEW j \in Join, createJoinRequest(p, j) PROVE Accounts'
  BY <1>2, <1>4 DEF createJoinRequest, At, Owing
<1>5. ASSUME NEW p \in Proc, NEW j \in Join, ReviewJoinRequest(p, j) PROVE Accounts'
  <2>1. req'[p].invited = FALSE /\ At(p, "idle") /\ \A q \in Proc \ {p} : req'[q] = req[q]
    BY <1>0, <1>5 DEF ReviewJoinRequest, Start, TypeOK
  <2>2. Holders' = Holders
    BY <2>1 DEF Holders, At
  <2>3. Owing' = Owing
    BY <2>1, <2>2 DEF Owing, Holders, At
  <2> QED
    BY <1>5, <2>2, <2>3, AccountsKept DEF ReviewJoinRequest, Settled
<1>6. ASSUME NEW p \in Proc, CreateUser(p) PROVE Accounts'
  <2>1. ~At(p, "idle") /\ p \notin Owing /\ UNCHANGED <<invite, unpaid>>
    BY <1>6 DEF CreateUser, At, Owing
  <2>2. /\ Holders' = Holders
        /\ Owing' = IF req[p].invited THEN Owing \cup {p} ELSE Owing
    BY <1>0, <1>6, <2>1, GoesOn DEF CreateUser, PC
  <2>3. Owing \in SUBSET Proc
    BY HolderSets
  <2>4. Settled' = Settled
    <3>1. CASE req[p].invited
      <4>1. Cardinality(Owing') = Cardinality(Owing) + 1
        BY <2>1, <2>2, <2>3, <3>1, CountAdd
      <4>2. admitted' = admitted + 1
        BY <1>6, <3>1 DEF CreateUser
      <4> QED
        BY <1>0, <2>1, <4>1, <4>2, HolderSets DEF Settled
    <3>2. CASE ~req[p].invited
      BY <1>6, <2>1, <2>2, <3>2 DEF CreateUser, Settled
    <3> QED
      BY <3>1, <3>2
  <2> QED
    BY <2>1, <2>2, <2>4, AccountsKept
<1>7. ASSUME NEW p \in Proc, CreateIdentity(p) PROVE Accounts'
  <2>1. ~At(p, "idle") /\ At(p, "identity") /\ UNCHANGED <<invite, admitted, unpaid>>
    BY <1>7 DEF CreateIdentity, At
  <2>2. CASE req[p].invited
    <3>1. p \in Owing
      BY <2>1, <2>2 DEF Owing, Holders
    <3>2. Holders' = Holders /\ Owing' = Owing
      BY <1>0, <1>7, <2>1, <2>2, <3>1, GoesOn DEF CreateIdentity, PC
    <3> QED
      BY <2>1, <3>2, AccountsKept DEF Settled
  <2>3. CASE ~req[p].invited /\ Finish(p)
    BY <1>2, <2>1, <2>3 DEF Owing, Holders
  <2>4. CASE ~req[p].invited /\ Goto(p, "approve")
    <3>1. p \notin Owing
      BY <2>4 DEF Owing, Holders
    <3>2. Holders' = Holders /\ Owing' = Owing
      BY <1>0, <2>1, <2>4, <3>1, GoesOn DEF PC
    <3> QED
      BY <2>1, <3>2, AccountsKept DEF Settled
  <2> QED
    BY <1>7, <2>2, <2>3, <2>4 DEF CreateIdentity
<1>8. ASSUME NEW p \in Proc, Consume(p) PROVE Accounts'
  <2>1. p \in Owing /\ p \in Holders
    BY <1>0, <1>8 DEF Consume, Owing, Holders, At, Reviews
  <2>2. Holders' = Holders \ {p} /\ Owing' = Owing \ {p}
    BY <1>0, <1>8, Ends DEF Consume
  <2>3. /\ Cardinality(Holders') = Cardinality(Holders) - 1
        /\ Cardinality(Owing') = Cardinality(Owing) - 1
    <3>1. Holders \in SUBSET Proc /\ Owing \in SUBSET Proc
      BY HolderSets
    <3> QED
      BY <2>1, <2>2, <3>1, CountRemove
  <2>4. Settled' = Settled + 1
    BY <1>0, <1>8, <2>3, HolderSets DEF Consume, Settled
  <2>5. Settled' + Cardinality(Holders') < MaxUses + Cardinality(Proc)
    BY <1>0, <2>3, <2>4, HolderSets DEF Accounts
  <2>6. ASSUME invite'.open, invite'.used < MaxUses PROVE Settled' = invite'.used
    <3>1. invite.used \in Nat /\ invite.open \in BOOLEAN
      BY <1>0 DEF TypeOK
    <3>2. invite.open /\ invite.used < MaxUses /\ invite'.used = invite.used + 1
      BY <1>0, <1>8, <2>6, <3>1 DEF Consume, TypeOK
    <3> QED
      BY <1>0, <2>4, <3>2 DEF Accounts
  <2> QED
    BY <2>5, <2>6 DEF Accounts
<1>9. ASSUME NEW p \in Proc, SaveReview(p) PROVE Accounts'
  BY <1>2, <1>9 DEF SaveReview, At, Owing
<1>10. ASSUME NEW p \in Proc, Abort(p) PROVE Accounts'
  <2>1. Finish(p) /\ UNCHANGED <<invite, admitted>> /\ ~At(p, "idle")
    BY <1>10 DEF Abort
  <2>2. p \in Owing <=> req[p].invited /\ req[p].pc \in {"identity", "issue"}
    BY <2>1 DEF Owing, Holders, At
  <2>3. CASE p \notin Owing
    <3>1. unpaid' = unpaid
      BY <1>10, <2>2, <2>3 DEF Abort
    <3> QED
      BY <1>2, <2>1, <2>3, <3>1
  <2>4. CASE p \in Owing
    <3>1. unpaid' = unpaid + 1
      BY <1>10, <2>2, <2>4 DEF Abort
    <3>2. Holders' = Holders \ {p} /\ Owing' = Owing \ {p} /\ Owing \in SUBSET Proc
      BY <1>0, <2>1, Ends, HolderSets
    <3>3. Cardinality(Owing') = Cardinality(Owing) - 1
      BY <2>4, <3>2, CountRemove
    <3>4. Settled' = Settled
      BY <1>0, <2>1, <3>1, <3>3, HolderSets DEF Settled
    <3> QED
      BY <2>1, <3>2, <3>4, AccountsKept
  <2> QED
    BY <2>3, <2>4
<1>11. ASSUME req' = req, admitted' = admitted, unpaid' = unpaid,
              invite' = invite \/ ~invite'.open
       PROVE  Accounts'
  <2>1. Holders' = Holders
    BY <1>11 DEF Holders, At
  <2>2. Owing' = Owing
    BY <1>11, <2>1 DEF Owing, At
  <2> QED
    BY <1>11, <2>1, <2>2, AccountsKept DEF Settled
<1>12. CASE RevokeInvite \/ (\E k \in Key : Rebind(k)) \/ UNCHANGED vars
  BY <1>11, <1>12 DEF RevokeInvite, Rebind, vars
<1> QED
  BY <1>1, <1>3, <1>4, <1>5, <1>6, <1>7, <1>8, <1>9, <1>10, <1>12 DEF Next

-----------------------------------------------------------------------------
\* The inductive invariant holds in every reachable state.
THEOREM Invariance == Spec => []IInv
<1>1. Init => IInv
  BY InitIInv
<1>2. IInv /\ [Next]_vars => IInv'
  BY TypeStep, ReviewsStep, AccountsStep DEF IInv
<1> QED
  BY <1>1, <1>2, PTL DEF Spec

\* Rows and requests keep the shape the code gives them.
THEOREM TypeCorrect == Spec => []TypeOK
<1>1. IInv => TypeOK
  BY DEF IInv
<1> QED
  BY <1>1, Invariance, PTL

\* However many requests run at a time, an invite admits fewer users than its
\* uses and the requests together, but for those that failed on the way.
THEOREM InviteBoundedHolds == Spec => []InviteBounded
BY Invariance, Consequences, PTL

\* A join request is approved with the identity in the table.
THEOREM ApprovedIsRegisteredHolds == Spec => []ApprovedIsRegistered
<1>1. IInv => ApprovedIsRegistered
  BY DEF IInv
<1> QED
  BY <1>1, Invariance, PTL
=============================================================================
