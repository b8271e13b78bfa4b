-------------------------- MODULE IdentitiesProofs --------------------------
(***************************************************************************)
(* Proofs about Identities, for any users, identities, rows and concurrent *)
(* requests.                                                               *)
(***************************************************************************)
EXTENDS Identities, TLAPS

\* Rows and requests speak of users and rows that exist.
Known ==
  /\ \A r \in Drawn : row[r].user \in users \cup {None}
  /\ merging \subseteq [target : users, source : users]
  /\ \A p \in Proc :
       /\ At(p, "identity") => req[p].user \in users
       /\ At(p, "delete") => req[p].row \in Drawn
       /\ At(p, "anonymize") => req[p].user \in users /\ req[p].rows \subseteq Drawn

Doomed(r) == \E p \in Proc : At(p, "delete") /\ req[p].row = r

\* A row that no request is about to delete.
Spare == \A u \in enrolled \ raced : \E r \in RowsOf(u) : ~Doomed(r)

\* The inductive invariant.
IInv == TypeOK /\ Known /\ Spare

-----------------------------------------------------------------------------
LEMMA InitIInv == Init => IInv
BY DEF Init, IInv, TypeOK, Known, Spare, Drawn, Req, Idle, At

\* Only the user, the key and the row of a request tell it apart.
LEMMA TypeStep == IInv /\ [Next]_vars => TypeOK' /\ Known'
<1> SUFFICES ASSUME IInv, [Next]_vars PROVE TypeOK' /\ Known'
  OBVIOUS
<1>0. TypeOK /\ Known
  BY DEF IInv
<1>1. ASSUME NEW p \in Proc, NEW r \in Req, Start(p, r), row' = row, merging' = merging,
             enrolled' = enrolled, users \subseteq users', users' \subseteq User,
             raced' \subseteq users,
             /\ r.pc = "identity" => r.user \in users'
             /\ r.pc = "delete" => r.row \in Drawn
             /\ r.pc = "anonymize" => r.user \in users' /\ r.rows \subseteq Drawn
      PROVE  TypeOK' /\ Known'
  <2>1. req' = [req EXCEPT ![p] = r]
    BY <1>1 DEF Start
  <2>2. TypeOK'
    BY <1>0, <1>1, <2>1 DEF TypeOK, Drawn
  <2>3. Known'
    BY <1>0, <1>1, <2>1 DEF TypeOK, Known, Drawn, At
  <2> QED
    BY <2>2, <2>3
<1>2. ASSUME NEW p \in Proc, Finish(p), row' = row, merging' = merging,
             enrolled' = enrolled, users' = users, raced' = raced
      PROVE  TypeOK' /\ Known'
  <2>1. TypeOK'
    BY <1>0, <1>2 DEF Finish, TypeOK, Drawn, Req
  <2>2. Known'
    BY <1>0, <1>2 DEF Finish, TypeOK, Known, Drawn, At, Idle
  <2> QED
    BY <2>1, <2>2
<1>3. ASSUME NEW p \in Proc, NEW u \in User, NEW ks \in SUBSET Key, CreateUser(p, u, ks)
      PROVE  TypeOK' /\ Known'
  <2>1. Creating(u, ks) \in Req /\ Creating(u, ks).pc = "identity" /\ Creating(u, ks).user = u
    BY DEF Creating, Req
  <2> QED
    BY <1>0, <1>1, <1>3, <2>1 DEF CreateUser, TypeOK
<1>4. ASSUME NEW p \in Proc, NEW k \in Key, NEW r \in RowId, CreateIdentity(p, k, r)
      PROVE  TypeOK' /\ Known'
  <2>1. /\ req[p].user \in users /\ req[p].user \in User /\ req[p].keys \in SUBSET Key
    BY <1>0, <1>4 DEF CreateIdentity, TypeOK, Known, At, Req, Idle
  <2>2. /\ Drawn' = Drawn \cup {r} /\ r \notin Drawn
        /\ row'[r] = [user |-> req[p].user, key |-> k]
        /\ \A i \in Drawn : row'[i] = row[i]
    BY <1>4 DEF CreateIdentity, Drawn
  <2>3. UNCHANGED <<users, merging, raced>> /\ enrolled' = enrolled \cup {req[p].user}
    BY <1>4 DEF CreateIdentity
  <2>4. /\ \A q \in Proc \ {p} : req'[q] = req[q]
        /\ req'[p] = Idle \/ req'[p] = Creating(req[p].user, req[p].keys \ {k})
        /\ req' \in [Proc -> Req]
    <3>1. req' = [req EXCEPT ![p] = IF req[p].keys = {k} THEN Idle
                                    ELSE Creating(req[p].user, req[p].keys \ {k})]
      BY <1>4 DEF CreateIdentity
    <3>2. Creating(req[p].user, req[p].keys \ {k}) \in Req /\ Idle \in Req
      BY <2>1 DEF Creating, Req
    <3> QED
      BY <1>0, <3>1, <3>2 DEF TypeOK
  <2>5. \A i \in Drawn : row[i].user = None \/ row[i].key # k
    BY <1>4 DEF CreateIdentity, Taken
  <2>6. \A i, j \in Drawn' :
          row'[i].user # None /\ row'[j].user # None /\ row'[i].key # None
            /\ row'[i].key = row'[j].key => i = j
    BY <1>0, <2>2, <2>5 DEF TypeOK
  <2>7. \A i \in Drawn' : row'[i] \in Row
    BY <1>0, <2>1, <2>2 DEF TypeOK, Row
  <2>8. TypeOK'
    BY <1>0, <2>1, <2>2, <2>3, <2>4, <2>6, <2>7 DEF TypeOK
  <2>9. Known'
    BY <1>0, <2>1, <2>2, <2>3, <2>4 DEF Known, At, Creating, Idle
  <2> QED
    BY <2>8, <2>9
<1>5. ASSUME NEW p \in Proc, NEW u \in User, NEW k \in Key, Bind(p, u, k)
      PROVE  TypeOK' /\ Known'
  <2>1. Creating(u, {k}) \in Req /\ Creating(u, {k}).pc = "identity" /\ Creating(u, {k}).user = u
    BY DEF Creating, Req
  <2> QED
    BY <1>0, <1>1, <1>5, <2>1 DEF Bind, TypeOK
<1>6. ASSUME NEW p \in Proc, NEW u \in User, NEW r \in RowId, Unbind(p, u, r)
      PROVE  TypeOK' /\ Known'
  <2> DEFINE d == [pc |-> "delete", row |-> r]
  <2>1. d \in Req /\ d.pc = "delete" /\ d.row = r /\ r \in Drawn
    BY <1>6 DEF Req, Unbind, RowsOf
  <2>2. raced' \subseteq users
    BY <1>0, <1>6 DEF Unbind, TypeOK
  <2> HIDE DEF d
  <2>3. Start(p, d)
    BY <1>6 DEF Unbind, d
  <2> QED
    BY <1>0, <1>1, <1>6, <2>1, <2>2, <2>3 DEF Unbind, TypeOK
<1>7. ASSUME NEW p \in Proc, DeleteIdentity(p) PROVE TypeOK' /\ Known'
  <2>1. /\ Drawn' = Drawn /\ UNCHANGED <<users, merging, enrolled, raced>>
        /\ \A r \in Drawn : row'[r] = IF r = req[p].row THEN [row[r] EXCEPT !.user = None] ELSE row[r]
    BY <1>7 DEF DeleteIdentity, Drawn
  <2>2. \A r \in Drawn : /\ row'[r] \in Row /\ row'[r].key = row[r].key
                         /\ row'[r].user = row[r].user \/ row'[r].user = None
    BY <1>0, <2>1 DEF TypeOK, Row
  <2>3. \A q \in Proc \ {p} : req'[q] = req[q]
    BY <1>0, <1>7 DEF DeleteIdentity, Finish, TypeOK
  <2>4. req'[p] = Idle /\ req' \in [Proc -> Req]
    BY <1>0, <1>7 DEF DeleteIdentity, Finish, TypeOK, Req
  <2>5. TypeOK'
    BY <1>0, <2>1, <2>2, <2>4 DEF TypeOK
  <2>6. Known'
    BY <1>0, <2>1, <2>2, <2>3, <2>4 DEF Known, At, Idle
  <2> QED
    BY <2>5, <2>6
<1>8. ASSUME NEW target \in User, NEW k \in Key, MergeStart(target, k)
      PROVE  TypeOK' /\ Known'
  <2>1. UNCHANGED <<users, row, req, enrolled, raced>> /\ target \in users
    BY <1>8 DEF MergeStart
  <2>2. merging' \subseteq [target : users, source : users]
    BY <1>0, <1>8, <2>1 DEF MergeStart, Known
  <2>3. TypeOK'
    BY <1>0, <2>1, <2>2 DEF TypeOK, Drawn, MergeToken
  <2> QED
    BY <1>0, <2>1, <2>2, <2>3 DEF Known, Drawn, At
<1>9. ASSUME NEW target \in User, NEW source \in User, mergeUsers(target, source),
             merging' \subseteq merging
      PROVE  TypeOK' /\ Known'
  <2>1. /\ Drawn' = Drawn /\ UNCHANGED <<users, req>> /\ target \in users /\ source \in users
        /\ \A r \in Drawn : row'[r] = IF row[r].user = source
                                      THEN [row[r] EXCEPT !.user = target] ELSE row[r]
    BY <1>9 DEF mergeUsers, Drawn
  <2>2. \A r \in Drawn : /\ row'[r] \in Row /\ row'[r].key = row[r].key
                         /\ row'[r].user # None <=> row[r].user # None
                         /\ row'[r].user \in users \cup {None}
    BY <1>0, <2>1, NoneAssumption DEF TypeOK, Known, Row
  <2>3. enrolled' \subseteq users /\ raced' \subseteq users
    BY <1>0, <1>9, <2>1 DEF mergeUsers, TypeOK
  <2>4. TypeOK'
    BY <1>0, <1>9, <2>1, <2>2, <2>3 DEF TypeOK
  <2> QED
    BY <1>0, <1>9, <2>1, <2>2, <2>4 DEF Known, At
<1>10. ASSUME NEW token \in merging, MergeConfirm(token) PROVE TypeOK' /\ Known'
  BY <1>0, <1>9, <1>10 DEF MergeConfirm, TypeOK, MergeToken
<1>11. ASSUME NEW token \in merging, MergeLapses(token) PROVE TypeOK' /\ Known'
  <2>1. UNCHANGED <<users, row, req, enrolled, raced>> /\ merging' \subseteq merging
    BY <1>11 DEF MergeLapses
  <2> QED
    BY <1>0, <2>1 DEF TypeOK, Known, Drawn, At
<1>12. ASSUME NEW target \in User, NEW source \in User, AdminMergeUsers(target, source)
       PROVE  TypeOK' /\ Known'
  BY <1>9, <1>12 DEF AdminMergeUsers
<1>13. ASSUME NEW p \in Proc, NEW u \in User, AnonymizeUser(p, u) PROVE TypeOK' /\ Known'
  <2> DEFINE d == Anonymizing(u, RowsOf(u))
  <2>1. /\ d \in Req /\ d.pc = "anonymize" /\ d.user = u /\ u \in users
        /\ d.rows = RowsOf(u) /\ RowsOf(u) \subseteq Drawn
    BY <1>0, <1>13 DEF Anonymizing, Req, AnonymizeUser, RowsOf, TypeOK
  <2> HIDE DEF d
  <2>2. Start(p, d)
    BY <1>13 DEF AnonymizeUser, d
  <2> QED
    BY <1>0, <1>1, <1>13, <2>1, <2>2 DEF AnonymizeUser, TypeOK
<1>14. ASSUME NEW p \in Proc, NEW r \in RowId, SaveAnonymous(p, r) PROVE TypeOK' /\ Known'
  <2>1. /\ req[p].user \in users /\ req[p].user \in User
        /\ req[p].rows \subseteq Drawn /\ req[p].rows \in SUBSET RowId /\ r \in req[p].rows
        /\ req[p].pc = "anonymize"
    BY <1>0, <1>14 DEF SaveAnonymous, TypeOK, Known, At, Req, Idle
  <2>2. /\ Drawn' = Drawn /\ UNCHANGED <<users, merging, enrolled>> /\ r \in Drawn
        /\ row'[r] = [user |-> req[p].user, key |-> None]
        /\ \A s \in Drawn \ {r} : row'[s] = row[s]
    BY <1>14, <2>1 DEF SaveAnonymous, Drawn
  <2>3. raced' \subseteq users
    BY <1>0, <1>14, <2>2 DEF SaveAnonymous, TypeOK, Known
  <2>4. /\ \A q \in Proc \ {p} : req'[q] = req[q]
        /\ req'[p] = Idle \/ req'[p] = Anonymizing(req[p].user, req[p].rows \ {r})
        /\ req' \in [Proc -> Req]
    <3>1. req' = [req EXCEPT ![p] = IF req[p].rows = {r} THEN Idle
                                    ELSE Anonymizing(req[p].user, req[p].rows \ {r})]
      BY <1>14 DEF SaveAnonymous
    <3>2. Anonymizing(req[p].user, req[p].rows \ {r}) \in Req /\ Idle \in Req
      BY <2>1 DEF Anonymizing, Req
    <3> QED
      BY <1>0, <3>1, <3>2 DEF TypeOK
  <2>5. \A s \in Drawn : row'[s] \in Row
    BY <1>0, <2>1, <2>2 DEF TypeOK, Row
  <2>6. TypeOK'
    BY <1>0, <2>2, <2>3, <2>4, <2>5 DEF TypeOK
  <2>7. Known'
    BY <1>0, <2>1, <2>2, <2>4 DEF Known, At, Idle, Anonymizing
  <2> QED
    BY <2>6, <2>7
<1>15. ASSUME NEW p \in Proc, Abort(p) PROVE TypeOK' /\ Known'
  BY <1>2, <1>15 DEF Abort
<1>16. CASE UNCHANGED vars
  BY <1>0, <1>16 DEF vars, TypeOK, Known, Drawn, At
<1> QED
  BY <1>3, <1>4, <1>5, <1>6, <1>7, <1>8, <1>10, <1>11, <1>12, <1>13, <1>14, <1>15, <1>16
     DEF Next, Merge, Serve, resolveUser, findOrCreateByEmail, ReviewJoinRequest, AdminCreateUser

-----------------------------------------------------------------------------
\* No row is newly doomed, and who had a spare row has one.
LEMMA SpareKept ==
  ASSUME IInv, \A r : Doomed(r)' => Doomed(r),
         \A u \in enrolled' \ raced' : u \in enrolled \ raced,
         \A r \in Drawn, u \in enrolled' \ raced' :
           row[r].user = u /\ ~Doomed(r) => r \in Drawn' /\ row'[r].user = u
  PROVE  Spare'
<1> SUFFICES ASSUME NEW u \in enrolled' \ raced'
             PROVE  \E r \in RowsOf(u)' : ~Doomed(r)'
  BY DEF Spare
<1>1. PICK r \in RowsOf(u) : ~Doomed(r)
  BY DEF IInv, Spare
<1>2. r \in Drawn' /\ row'[r].user = u
  BY <1>1 DEF RowsOf
<1> QED
  BY <1>1, <1>2 DEF RowsOf

\* A request that begins or goes on without a row to delete dooms none.
LEMMA NotDoomed ==
  ASSUME NEW p \in Proc, \A q \in Proc \ {p} : req'[q] = req[q], ~At(p, "delete")'
  PROVE  \A r : Doomed(r)' => Doomed(r)
BY DEF Doomed, At

LEMMA SpareStep == IInv /\ [Next]_vars => Spare'
<1> SUFFICES ASSUME IInv, [Next]_vars PROVE Spare'
  OBVIOUS
<1>0. TypeOK /\ Known /\ Spare
  BY DEF IInv
<1>1. ASSUME NEW p \in Proc, UNCHANGED <<row, enrolled, raced>>,
             \/ Finish(p)
             \/ \E r : Start(p, r) /\ r.pc # "delete"
      PROVE  Spare'
  <2>1. \A q \in Proc \ {p} : req'[q] = req[q]
    BY <1>0, <1>1 DEF Finish, Start, TypeOK
  <2>2. ~At(p, "delete")'
    BY <1>0, <1>1 DEF Finish, Start, At, Idle, TypeOK
  <2> QED
    BY <1>1, <2>1, <2>2, NotDoomed, SpareKept DEF Drawn
<1>2. ASSUME NEW p \in Proc, NEW u \in User, NEW ks \in SUBSET Key, CreateUser(p, u, ks)
      PROVE  Spare'
  <2>1. Creating(u, ks).pc # "delete"
    BY DEF Creating
  <2> QED
    BY <1>1, <1>2, <2>1 DEF CreateUser
<1>3. ASSUME NEW p \in Proc, NEW k \in Key, NEW r \in RowId, CreateIdentity(p, k, r)
      PROVE  Spare'
  <2>1. /\ Drawn' = Drawn \cup {r} /\ r \notin Drawn
        /\ row'[r].user = req[p].user
        /\ \A i \in Drawn : row'[i] = row[i]
    BY <1>3 DEF CreateIdentity, Drawn
  <2>2. raced' = raced /\ enrolled' = enrolled \cup {req[p].user}
    BY <1>3 DEF CreateIdentity
  <2>3. \A q \in Proc \ {p} : req'[q] = req[q]
    BY <1>0, <1>3 DEF CreateIdentity, TypeOK
  <2>4. ~At(p, "delete")'
    BY <1>0, <1>3 DEF CreateIdentity, At, Idle, Creating, TypeOK
  <2>5. \A s : Doomed(s)' => Doomed(s)
    BY <2>3, <2>4, NotDoomed
  <2>6. ~Doomed(r)
    BY <1>0, <2>1 DEF Doomed, Known
  <2>7. ASSUME NEW u \in enrolled' \ raced' PROVE \E s \in RowsOf(u)' : ~Doomed(s)'
    <3>1. CASE u = req[p].user
      BY <2>1, <2>5, <2>6, <3>1 DEF RowsOf
    <3>2. CASE u # req[p].user
      <4>1. PICK s \in RowsOf(u) : ~Doomed(s)
        BY <1>0, <2>2, <2>7, <3>2 DEF Spare
      <4> QED
        BY <2>1, <2>5, <4>1 DEF RowsOf
    <3> QED
      BY <3>1, <3>2
  <2> QED
    BY <2>7 DEF Spare
<1>4. ASSUME NEW p \in Proc, NEW u \in User, NEW k \in Key, Bind(p, u, k) PROVE Spare'
  <2>1. Creating(u, {k}).pc # "delete"
    BY DEF Creating
  <2> QED
    BY <1>1, <1>4, <2>1 DEF Bind
<1>5. ASSUME NEW p \in Proc, NEW u \in User, NEW r \in RowId, Unbind(p, u, r) PROVE Spare'
  <2>1. r \in RowsOf(u) /\ UNCHANGED <<row, enrolled>>
    BY <1>5 DEF Unbind
  <2>2. /\ \A q \in Proc \ {p} : req'[q] = req[q]
        /\ req'[p].pc = "delete" /\ req'[p].row = r /\ At(p, "idle")
    BY <1>0, <1>5 DEF Unbind, Start, TypeOK
  <2>3. \A s : Doomed(s)' => Doomed(s) \/ s = r
    BY <2>2 DEF Doomed, At
  <2>4. ASSUME NEW v \in enrolled' \ raced' PROVE \E s \in RowsOf(v)' : ~Doomed(s)'
    <3>1. CASE v = u
      <4>1. Condemned(u) = {}
        BY <1>5, <2>4, <3>1 DEF Unbind
      <4>2. PICK s \in RowsOf(u) : s # r
        BY <1>5 DEF Unbind
      <4>3. ~Doomed(s)
        BY <4>1, <4>2 DEF Condemned, Doomed
      <4> QED
        BY <2>1, <2>3, <3>1, <4>2, <4>3 DEF RowsOf, Drawn
    <3>2. CASE v # u
      <4>1. v \in enrolled \ raced
        BY <1>5, <2>1, <2>4 DEF Unbind
      <4>2. PICK s \in RowsOf(v) : ~Doomed(s)
        BY <1>0, <4>1 DEF Spare
      <4>3. s # r
        BY <2>1, <3>2, <4>2 DEF RowsOf
      <4> QED
        BY <2>1, <2>3, <4>2, <4>3 DEF RowsOf, Drawn
    <3> QED
      BY <3>1, <3>2
  <2> QED
    BY <2>4 DEF Spare
<1>6. ASSUME NEW p \in Proc, DeleteIdentity(p) PROVE Spare'
  <2>1. /\ Drawn' = Drawn /\ UNCHANGED <<enrolled, raced>>
        /\ \A r \in Drawn : r # req[p].row => row'[r] = row[r]
    BY <1>6 DEF DeleteIdentity, Drawn
  <2>2. Doomed(req[p].row)
    BY <1>6 DEF DeleteIdentity, Doomed
  <2>3. \A q \in Proc \ {p} : req'[q] = req[q]
    BY <1>0, <1>6 DEF DeleteIdentity, Finish, TypeOK
  <2>4. ~At(p, "delete")'
    BY <1>0, <1>6 DEF DeleteIdentity, Finish, At, Idle, TypeOK
  <2> QED
    BY <2>1, <2>2, <2>3, <2>4, NotDoomed, SpareKept
<1>7. ASSUME NEW target \in User, NEW source \in User, mergeUsers(target, source)
      PROVE  Spare'
  <2>1. /\ Drawn' = Drawn /\ req' = req /\ target # source
        /\ \A r \in Drawn : row[r].user = source => row'[r].user = target
        /\ \A r \in Drawn : row[r].user # source => row'[r] = row[r]
    <3>1. row' = [r \in Drawn |-> IF row[r].user = source
                                  THEN [row[r] EXCEPT !.user = target] ELSE row[r]]
      BY <1>7 DEF mergeUsers
    <3>2. \A r \in Drawn : row[r] \in Row
      BY <1>0 DEF TypeOK
    <3> QED
      BY <1>7, <3>1, <3>2 DEF mergeUsers, Drawn, Row
  <2>2. \A r : Doomed(r)' <=> Doomed(r)
    BY <2>1 DEF Doomed, At
  <2>3. ASSUME NEW v \in enrolled' \ raced' PROVE \E s \in RowsOf(v)' : ~Doomed(s)'
    <3>1. \/ v \in enrolled /\ v \notin raced /\ v # source
          \/ v = target /\ source \in enrolled /\ source \notin raced
      BY <1>7, <2>1, <2>3 DEF mergeUsers
    <3>2. CASE v \in enrolled /\ v \notin raced /\ v # source
      <4>1. PICK s \in RowsOf(v) : ~Doomed(s)
        BY <1>0, <3>2 DEF Spare
      <4> QED
        BY <2>1, <2>2, <3>2, <4>1 DEF RowsOf
    <3>3. CASE v = target /\ source \in enrolled /\ source \notin raced
      <4>1. PICK s \in RowsOf(source) : ~Doomed(s)
        BY <1>0, <3>3 DEF Spare
      <4> QED
        BY <2>1, <2>2, <3>3, <4>1 DEF RowsOf
    <3> QED
      BY <3>1, <3>2, <3>3
  <2> QED
    BY <2>3 DEF Spare
<1>8. ASSUME NEW p \in Proc, NEW u \in User, AnonymizeUser(p, u) PROVE Spare'
  <2>1. Anonymizing(u, RowsOf(u)).pc # "delete"
    BY DEF Anonymizing
  <2> QED
    BY <1>1, <1>8, <2>1 DEF AnonymizeUser
<1>9. ASSUME NEW p \in Proc, NEW r \in RowId, SaveAnonymous(p, r) PROVE Spare'
  <2>1. /\ Drawn' = Drawn /\ enrolled' = enrolled
        /\ r \in Drawn => row'[r].user = req[p].user
        /\ \A s \in Drawn \ {r} : row'[s] = row[s]
    BY <1>9 DEF SaveAnonymous, Drawn
  <2>2. raced' = raced \cup ({row[r].user} \ {req[p].user, None})
    BY <1>9 DEF SaveAnonymous
  <2>3. \A q \in Proc \ {p} : req'[q] = req[q]
    BY <1>0, <1>9 DEF SaveAnonymous, TypeOK
  <2>4. ~At(p, "delete")'
    BY <1>0, <1>9 DEF SaveAnonymous, At, Idle, Anonymizing, TypeOK
  <2>5. None \notin enrolled
    BY <1>0, NoneAssumption DEF TypeOK
  <2>6. \A s \in Drawn, u \in enrolled' \ raced' :
          row[s].user = u => s \in Drawn' /\ row'[s].user = u
    BY <2>1, <2>2, <2>5
  <2> QED
    BY <2>1, <2>2, <2>3, <2>4, <2>6, NotDoomed, SpareKept
<1>10. ASSUME NEW p \in Proc, Abort(p) PROVE Spare'
  BY <1>1, <1>10 DEF Abort
<1>11. CASE UNCHANGED <<row, req, enrolled, raced>>
  BY <1>0, <1>11 DEF Spare, RowsOf, Doomed, Drawn, At
<1>12. CASE Merge
  BY <1>0, <1>7, <1>11, <1>12
     DEF Merge, MergeStart, MergeConfirm, MergeLapses, AdminMergeUsers, TypeOK, MergeToken
<1> QED
  BY <1>2, <1>3, <1>4, <1>5, <1>6, <1>8, <1>9, <1>10, <1>11, <1>12
     DEF Next, Serve, resolveUser, findOrCreateByEmail, ReviewJoinRequest, AdminCreateUser, vars

-----------------------------------------------------------------------------
\* The inductive invariant holds in every reachable state.
THEOREM Invariance == Spec => []IInv
<1>1. IInv /\ [Next]_vars => IInv'
  BY TypeStep, SpareStep DEF IInv
<1> QED
  BY InitIInv, <1>1, PTL DEF Spec

\* Rows, tokens and requests keep their shape, and the index stays unique.
THEOREM TypeCorrect == Spec => []TypeOK
<1>1. IInv => TypeOK
  BY DEF IInv
<1> QED
  BY <1>1, Invariance, PTL

\* Whatever else goes on, a user keeps an identity unless two requests took
\* theirs at the same time.
THEOREM UnbindKeepsOneHolds == Spec => []UnbindKeepsOne
<1>1. IInv => UnbindKeepsOne
  BY DEF IInv, Spare, UnbindKeepsOne
<1> QED
  BY <1>1, Invariance, PTL

-----------------------------------------------------------------------------
(* Identities implements IdentityDirectory *)

\* The owner of k by the rows in f, and what makes it one.
Holds(f, r, k) == r \in DOMAIN f /\ f[r].user # None /\ f[r].key = k

OwnerIn(f, k) ==
  IF \E r \in DOMAIN f : f[r].user # None /\ f[r].key = k
  THEN f[CHOOSE r \in DOMAIN f : f[r].user # None /\ f[r].key = k].user
  ELSE None

Index(f) ==
  \A r, s \in DOMAIN f :
    f[r].user # None /\ f[s].user # None /\ f[r].key # None /\ f[r].key = f[s].key => r = s

LEMMA HolderOwns ==
  ASSUME NEW f, Index(f), NEW k \in Key, NEW r, Holds(f, r, k)
  PROVE  OwnerIn(f, k) = f[r].user
<1> DEFINE c == CHOOSE s \in DOMAIN f : f[s].user # None /\ f[s].key = k
<1>1. c \in DOMAIN f /\ f[c].user # None /\ f[c].key = k
  BY DEF Holds
<1>2. c = r
  BY <1>1, NoneAssumption DEF Holds, Index
<1> QED
  BY <1>1, <1>2 DEF OwnerIn

LEMMA NobodyOwns ==
  ASSUME NEW f, NEW k, \A r : ~Holds(f, r, k)
  PROVE  OwnerIn(f, k) = None
BY DEF OwnerIn, Holds

\* Tables that agree on who holds k agree on its owner.
LEMMA SameOwner ==
  ASSUME NEW f, NEW g, Index(f), Index(g), NEW k \in Key,
         \A r : Holds(f, r, k) => Holds(g, r, k) /\ g[r].user = f[r].user,
         \A r : Holds(g, r, k) => Holds(f, r, k)
  PROVE  OwnerIn(g, k) = OwnerIn(f, k)
<1>1. CASE \E r : Holds(f, r, k)
  <2>1. PICK r : Holds(f, r, k)
    BY <1>1
  <2>2. OwnerIn(f, k) = f[r].user /\ OwnerIn(g, k) = g[r].user
    BY <2>1, HolderOwns
  <2> QED
    BY <2>1, <2>2
<1>2. CASE \A r : ~Holds(f, r, k)
  BY <1>2, NobodyOwns
<1> QED
  BY <1>1, <1>2

LEMMA OwnersRead ==
  /\ ownerOf = [k \in Key |-> OwnerIn(row, k)]
  /\ TypeOK => Index(row)
<1>1. ownerOf = [k \in Key |-> OwnerIn(row, k)]
  BY DEF ownerOf, OwnerIn, Taken, Drawn
<1>2. TypeOK => Index(row)
  BY DEF TypeOK, Index, Drawn
<1> QED
  BY <1>1, <1>2

LEMMA OwnersReadNext ==
  /\ ownerOf' = [k \in Key |-> OwnerIn(row', k)]
  /\ TypeOK' => Index(row')
<1>1. ownerOf' = [k \in Key |-> OwnerIn(row', k)]
  BY DEF ownerOf, OwnerIn, Taken, Drawn
<1>2. TypeOK' => Index(row')
  BY DEF TypeOK, Index, Drawn
<1> QED
  BY <1>1, <1>2

\* A step that changes one row, to nobody's or to an anonymous one, releases
\* the identity it held, if any.
LEMMA DropMaps ==
  ASSUME TypeOK, TypeOK', NEW r, DOMAIN row' = DOMAIN row,
         \A s \in DOMAIN row : s # r => row'[s] = row[s],
         r \in DOMAIN row => row'[r].user = None \/ row'[r].key = None
  PROVE  (\E k \in Key : Directory!Release(k)) \/ ownerOf' = ownerOf
<1>1. Index(row) /\ Index(row')
  BY OwnersRead, OwnersReadNext
<1>2. ASSUME NEW k \in Key, ~Holds(row, r, k)
      PROVE  OwnerIn(row', k) = OwnerIn(row, k)
  <2>1. \A s : Holds(row, s, k) => Holds(row', s, k) /\ row'[s].user = row[s].user
    BY <1>2 DEF Holds
  <2>2. \A s : Holds(row', s, k) => Holds(row, s, k)
    BY NoneAssumption DEF Holds
  <2> QED
    BY <1>1, <2>1, <2>2, SameOwner
<1>3. CASE \E k \in Key : Holds(row, r, k)
  <2>1. PICK k \in Key : Holds(row, r, k)
    BY <1>3
  <2>2. \A i \in Key \ {k} : ~Holds(row, r, i)
    BY <2>1 DEF Holds
  <2>3. \A s : ~Holds(row', s, k)
    BY <1>1, <2>1, NoneAssumption DEF Holds, Index
  <2>4. OwnerIn(row', k) = None
    BY <2>3, NobodyOwns
  <2>5. OwnerIn(row, k) # None
    BY <1>1, <2>1, HolderOwns DEF Holds
  <2>6. ownerOf[k] # None
    BY <2>5, OwnersRead
  <2>7. ownerOf' = [ownerOf EXCEPT ![k] = None]
    BY <1>2, <2>2, <2>4, OwnersRead, OwnersReadNext
  <2> QED
    BY <2>1, <2>6, <2>7 DEF Directory!Release
<1>4. CASE \A k \in Key : ~Holds(row, r, k)
  BY <1>2, <1>4, OwnersRead, OwnersReadNext
<1> QED
  BY <1>3, <1>4

LEMMA ClaimMaps ==
  ASSUME IInv, TypeOK', NEW p \in Proc, NEW k \in Key, NEW r \in RowId, CreateIdentity(p, k, r)
  PROVE  \E u \in User : Directory!Claim(k, u)
<1>1. Index(row) /\ Index(row')
  BY OwnersRead, OwnersReadNext DEF IInv
<1>2. req[p].user \in User
  BY DEF CreateIdentity, IInv, TypeOK, At, Req, Idle
<1>3. /\ DOMAIN row' = DOMAIN row \cup {r} /\ r \notin DOMAIN row
      /\ row'[r].user = req[p].user /\ row'[r].key = k
      /\ \A s \in DOMAIN row : row'[s] = row[s]
  BY DEF CreateIdentity, Drawn
<1>4. OwnerIn(row', k) = req[p].user
  <2>1. Holds(row', r, k)
    BY <1>2, <1>3, NoneAssumption DEF Holds
  <2> QED
    BY <1>1, <1>3, <2>1, HolderOwns
<1>5. OwnerIn(row, k) = None
  BY NobodyOwns DEF CreateIdentity, Taken, Holds, Drawn
<1>6. ASSUME NEW i \in Key, i # k PROVE OwnerIn(row', i) = OwnerIn(row, i)
  <2>1. \A s : Holds(row, s, i) => Holds(row', s, i) /\ row'[s].user = row[s].user
    BY <1>3 DEF Holds
  <2>2. \A s : Holds(row', s, i) => Holds(row, s, i)
    BY <1>3, <1>6 DEF Holds
  <2> QED
    BY <1>1, <2>1, <2>2, SameOwner
<1>7. ownerOf[k] = None /\ ownerOf' = [ownerOf EXCEPT ![k] = req[p].user]
  BY <1>4, <1>5, <1>6, OwnersRead, OwnersReadNext
<1> QED
  BY <1>2, <1>7 DEF Directory!Claim

LEMMA AbsorbMaps ==
  ASSUME TypeOK, TypeOK', NEW target \in User, NEW source \in User, mergeUsers(target, source)
  PROVE  Directory!Absorb(source, target)
<1>1. Index(row) /\ Index(row')
  BY OwnersRead, OwnersReadNext
<1>2. /\ DOMAIN row' = DOMAIN row
      /\ \A r \in DOMAIN row : row'[r].key = row[r].key
      /\ \A r \in DOMAIN row :
           row'[r].user = IF row[r].user = source THEN target ELSE row[r].user
  <2>1. row' = [r \in Drawn |-> IF row[r].user = source
                                THEN [row[r] EXCEPT !.user = target] ELSE row[r]]
    BY DEF mergeUsers
  <2>2. \A r \in Drawn : row[r] \in Row
    BY DEF TypeOK
  <2> QED
    BY <2>1, <2>2 DEF Drawn, Row
<1>3. source # None /\ target # None
  BY NoneAssumption
<1>4. ASSUME NEW k \in Key
      PROVE  OwnerIn(row', k) = IF OwnerIn(row, k) = source THEN target ELSE OwnerIn(row, k)
  <2>1. CASE \E r : Holds(row, r, k)
    <3>1. PICK r : Holds(row, r, k)
      BY <2>1
    <3>2. Holds(row', r, k)
      BY <1>2, <1>3, <3>1 DEF Holds
    <3>3. OwnerIn(row, k) = row[r].user /\ OwnerIn(row', k) = row'[r].user
      BY <1>1, <3>1, <3>2, HolderOwns
    <3> QED
      BY <1>2, <3>1, <3>3 DEF Holds
  <2>2. CASE \A r : ~Holds(row, r, k)
    <3>1. \A r : ~Holds(row', r, k)
      BY <1>2, <1>3, <2>2 DEF Holds
    <3>2. OwnerIn(row, k) = None /\ OwnerIn(row', k) = None
      BY <2>2, <3>1, NobodyOwns
    <3> QED
      BY <1>3, <3>2
  <2> QED
    BY <2>1, <2>2
<1> QED
  BY <1>4, OwnersRead, OwnersReadNext DEF Directory!Absorb

\* Every step is a step of the directory, or none of its business.
LEMMA StepMaps ==
  ASSUME IInv, TypeOK', [Next]_vars
  PROVE  [Directory!Next]_ownerOf
<1>0. TypeOK /\ Known
  BY DEF IInv
<1>1. CASE UNCHANGED row
  BY <1>1, OwnersRead, OwnersReadNext
<1>2. ASSUME NEW p \in Proc, NEW k \in Key, NEW r \in RowId, CreateIdentity(p, k, r)
      PROVE  Directory!Next
  BY <1>2, ClaimMaps DEF Directory!Next
<1>3. ASSUME NEW p \in Proc, DeleteIdentity(p) PROVE [Directory!Next]_ownerOf
  <2>1. /\ DOMAIN row' = DOMAIN row
        /\ \A s \in DOMAIN row : s # req[p].row => row'[s] = row[s]
    BY <1>3 DEF DeleteIdentity, Drawn
  <2>2. req[p].row \in DOMAIN row => row'[req[p].row].user = None
    BY <1>0, <1>3 DEF DeleteIdentity, Drawn, TypeOK, Row
  <2>3. (\E k \in Key : Directory!Release(k)) \/ ownerOf' = ownerOf
    BY <1>0, <2>1, <2>2, DropMaps
  <2> QED
    BY <2>3 DEF Directory!Next
<1>4. ASSUME NEW p \in Proc, NEW r \in RowId, SaveAnonymous(p, r)
      PROVE  [Directory!Next]_ownerOf
  <2>1. /\ DOMAIN row' = DOMAIN row
        /\ \A s \in DOMAIN row : s # r => row'[s] = row[s]
        /\ r \in DOMAIN row => row'[r].key = None
    BY <1>4 DEF SaveAnonymous
  <2>2. (\E k \in Key : Directory!Release(k)) \/ ownerOf' = ownerOf
    BY <1>0, <2>1, DropMaps
  <2> QED
    BY <2>2 DEF Directory!Next
<1>5. ASSUME NEW target \in User, NEW source \in User, mergeUsers(target, source)
      PROVE  Directory!Next
  BY <1>0, <1>5, AbsorbMaps DEF Directory!Next
<1>6. CASE Merge
  <2>1. UNCHANGED row \/ \E target, source \in User : mergeUsers(target, source)
    BY <1>0, <1>6 DEF Merge, MergeStart, MergeConfirm, MergeLapses, AdminMergeUsers,
                      TypeOK, MergeToken
  <2> QED
    BY <1>1, <1>5, <2>1
<1>7. ASSUME NEW p \in Proc, Serve(p) PROVE [Directory!Next]_ownerOf
  <2>1. \/ UNCHANGED row
        \/ \E k \in Key, r \in RowId : CreateIdentity(p, k, r)
        \/ DeleteIdentity(p)
        \/ \E r \in RowId : SaveAnonymous(p, r)
    BY <1>7 DEF Serve, resolveUser, findOrCreateByEmail, ReviewJoinRequest, AdminCreateUser,
                CreateUser, Bind, Unbind, AnonymizeUser, Abort
  <2> QED
    BY <1>1, <1>2, <1>3, <1>4, <2>1
<1>8. CASE UNCHANGED vars
  BY <1>1, <1>8 DEF vars
<1> QED
  BY <1>6, <1>7, <1>8 DEF Next

LEMMA InitMaps == Init => Directory!Init
<1> SUFFICES ASSUME Init PROVE Directory!Init
  OBVIOUS
<1>1. \A k \in Key : OwnerIn(row, k) = None
  BY NobodyOwns DEF Init, Holds
<1> QED
  BY <1>1, OwnersRead DEF Directory!Init

\* However registrations, bindings, merges and anonymisations interleave, an
\* identity has one owner and changes hands only in a merge.
THEOREM Refinement == Spec => ImplementsDirectory
<1>1. IInv /\ TypeOK' /\ [Next]_vars => [Directory!Next]_ownerOf
  BY StepMaps
<1>2. IInv => TypeOK
  BY DEF IInv
<1> QED
  BY InitMaps, <1>1, <1>2, Invariance, PTL DEF Spec, ImplementsDirectory, Directory!Spec
=============================================================================
