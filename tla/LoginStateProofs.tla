-------------------------- MODULE LoginStateProofs --------------------------
(***************************************************************************)
(* Proofs about LoginState, for any limits, any values, any spellings of   *)
(* the identity and finitely many concurrent requests.                     *)
(***************************************************************************)
EXTENDS LoginState, FiniteSetTheorems, TLAPS

\* The requests at the steps that the counters depend on.
Failing     == {q \in Proc : At(q, "fail")}
Comparing   == {q \in Proc : At(q, "compare")}
Passed(k)   == {q \in Proc : /\ req[q].login /\ req[q].key = k
                             /\ At(q, "count") \/ At(q, "compare")}
Deleting(v) == {q \in Proc : At(q, "del") /\ req[q].v = v}

NFail    == Cardinality(Failing)
NCompare == Cardinality(Comparing)
NPassed(k) == Cardinality(Passed(k))
NDel(v)  == Cardinality(Deleting(v))

\* The request p is at the step pc next, about the value v.
Goes(p, pc, v) ==
  \E b \in BOOLEAN, k \in Key :
    req' = [req EXCEPT ![p] = [pc |-> pc, v |-> v, login |-> b, key |-> k]]

\* Every guess was counted, is about to be, or is lost; with the comparisons
\* under way they stay under the limit.
Attempts ==
  /\ guesses <= fails + NFail + lost
  /\ guesses + NCompare < Limit + Cardinality(Proc) + lost

\* Logins that have passed the lock may still compare.
LateUnder(k) ==
  IF locked[k] THEN late[k] + NPassed(k) <= Cardinality(Proc) + unread[k] ELSE late[k] = 0

Latecomers == \A k \in Key : LateUnder(k)

\* Only what was read loosely is on its way to being deleted; a value that is
\* live has one use ahead of it.
UsesOf(v) ==
  /\ \A p \in Proc : req[p].v = v => (v \in loose /\ puts[v] > 0)
  /\ puts[v] = 0 => redeemed[v] = 0
  /\ v \notin loose => redeemed[v] <= puts[v]
  /\ (v \notin loose /\ Live(v)) => redeemed[v] < puts[v]

ExchangesOf(v) ==
  puts[v] = 1 =>
    /\ Live(v) => redeemed[v] <= undeleted[v]
    /\ redeemed[v] + NDel(v) <= Cardinality(Proc) + undeleted[v]

Uses == \A v \in Value : UsesOf(v) /\ ExchangesOf(v)

\* The inductive invariant.
IInv == TypeOK /\ Attempts /\ Latecomers /\ LockFollows /\ Uses

-----------------------------------------------------------------------------
\* Sets of requests are finite.
LEMMA ProcSets ==
  ASSUME NEW S \in SUBSET Proc
  PROVE  IsFiniteSet(S) /\ Cardinality(S) \in Nat /\ Cardinality(S) <= Cardinality(Proc)
BY ProcAssumption, FS_Subset, FS_CardinalityType

LEMMA ProcCount == Cardinality(Proc) \in Nat
BY ProcAssumption, FS_CardinalityType

LEMMA OnSets ==
  /\ NFail \in Nat /\ NFail <= Cardinality(Proc)
  /\ NCompare \in Nat /\ NCompare <= Cardinality(Proc)
  /\ \A k : NPassed(k) \in Nat /\ NPassed(k) <= Cardinality(Proc)
  /\ \A v : NDel(v) \in Nat /\ NDel(v) <= Cardinality(Proc)
<1>1. /\ Failing \in SUBSET Proc /\ Comparing \in SUBSET Proc
      /\ \A k : Passed(k) \in SUBSET Proc
      /\ \A v : Deleting(v) \in SUBSET Proc
  BY DEF Failing, Comparing, Passed, Deleting
<1> QED
  BY <1>1, ProcSets DEF NFail, NCompare, NPassed, NDel

\* One request less than all of them, if one is elsewhere.
LEMMA OneElsewhere ==
  ASSUME NEW p \in Proc, NEW S \in SUBSET Proc, p \notin S
  PROVE  Cardinality(S) < Cardinality(Proc)
<1>1. IsFiniteSet(S) /\ Cardinality(S) \in Nat /\ S \cup {p} \in SUBSET Proc
  BY ProcSets
<1>2. Cardinality(S \cup {p}) = Cardinality(S) + 1
  BY <1>1, FS_AddElement
<1>3. Cardinality(S \cup {p}) <= Cardinality(Proc)
  BY <1>1, ProcSets
<1> QED
  BY <1>1, <1>2, <1>3, ProcCount

\* How many requests a set gains or loses when only p moves.
LEMMA Moved ==
  ASSUME NEW p \in Proc, NEW S \in SUBSET Proc, NEW T \in SUBSET Proc, S \ {p} = T \ {p}
  PROVE  /\ Cardinality(S) \in Nat /\ Cardinality(T) \in Nat
         /\ p \notin S => Cardinality(S) < Cardinality(Proc)
         /\ Cardinality(T) + (IF p \in S THEN 1 ELSE 0)
              = Cardinality(S) + (IF p \in T THEN 1 ELSE 0)
<1>1. /\ IsFiniteSet(S) /\ Cardinality(S) \in Nat
      /\ IsFiniteSet(T) /\ Cardinality(T) \in Nat
  BY ProcSets
<1>2. p \notin S => Cardinality(S) < Cardinality(Proc)
  BY OneElsewhere
<1>3. CASE p \in S <=> p \in T
  <2>1. S = T
    BY <1>3
  <2> QED
    BY <1>1, <1>2, <2>1
<1>4. CASE p \in S /\ p \notin T
  <2>1. S = T \cup {p}
    BY <1>4
  <2>2. Cardinality(S) = Cardinality(T) + 1
    BY <1>1, <1>4, <2>1, FS_AddElement
  <2> QED
    BY <1>1, <1>2, <1>4, <2>2
<1>5. CASE p \notin S /\ p \in T
  <2>1. T = S \cup {p}
    BY <1>5
  <2>2. Cardinality(T) = Cardinality(S) + 1
    BY <1>1, <1>5, <2>1, FS_AddElement
  <2> QED
    BY <1>1, <1>2, <1>5, <2>2
<1> QED
  BY <1>3, <1>4, <1>5

\* The same for the steps that the counters depend on.
LEMMA MovedLimits ==
  ASSUME TypeOK, NEW p \in Proc, NEW r \in Req, req' = [req EXCEPT ![p] = r]
  PROVE  /\ NFail \in Nat /\ NFail' \in Nat /\ NCompare \in Nat /\ NCompare' \in Nat
         /\ NFail' + (IF req[p].pc = "fail" THEN 1 ELSE 0)
              = NFail + (IF r.pc = "fail" THEN 1 ELSE 0)
         /\ NCompare' + (IF req[p].pc = "compare" THEN 1 ELSE 0)
              = NCompare + (IF r.pc = "compare" THEN 1 ELSE 0)
         /\ (req[p].pc # "fail" /\ req[p].pc # "compare") => NFail + NCompare < Cardinality(Proc)
<1>1. req'[p] = r /\ \A q \in Proc \ {p} : req'[q] = req[q]
  BY DEF TypeOK
<1>2. /\ Failing \in SUBSET Proc /\ Failing' \in SUBSET Proc
      /\ Failing \ {p} = Failing' \ {p}
      /\ p \in Failing <=> req[p].pc = "fail"
      /\ p \in Failing' <=> r.pc = "fail"
  BY <1>1 DEF Failing, At
<1>3. /\ Comparing \in SUBSET Proc /\ Comparing' \in SUBSET Proc
      /\ Comparing \ {p} = Comparing' \ {p}
      /\ p \in Comparing <=> req[p].pc = "compare"
      /\ p \in Comparing' <=> r.pc = "compare"
  BY <1>1 DEF Comparing, At
<1>5. /\ NFail \in Nat /\ NFail' \in Nat
      /\ NFail' + (IF p \in Failing THEN 1 ELSE 0) = NFail + (IF p \in Failing' THEN 1 ELSE 0)
  BY <1>2, Moved DEF NFail
<1>6. /\ NCompare \in Nat /\ NCompare' \in Nat
      /\ NCompare' + (IF p \in Comparing THEN 1 ELSE 0)
           = NCompare + (IF p \in Comparing' THEN 1 ELSE 0)
  BY <1>3, Moved DEF NCompare
<1>8. ASSUME req[p].pc # "fail", req[p].pc # "compare"
      PROVE  NFail + NCompare < Cardinality(Proc)
  <2>1. Failing \cap Comparing = {} /\ p \notin Failing \cup Comparing
    BY <1>8 DEF Failing, Comparing, At
  <2>2. IsFiniteSet(Failing) /\ IsFiniteSet(Comparing) /\ Failing \cup Comparing \in SUBSET Proc
    BY <1>2, <1>3, ProcSets
  <2>3. Cardinality(Failing \cup Comparing)
          = NFail + NCompare - Cardinality(Failing \cap Comparing)
    BY <2>2, FS_Union DEF NFail, NCompare
  <2>4. Cardinality(Failing \cup Comparing) < Cardinality(Proc)
    BY <2>1, <2>2, OneElsewhere
  <2>5. Cardinality(Failing \cap Comparing) = 0
    BY <2>1, FS_EmptySet
  <2> QED
    BY <1>5, <1>6, <2>3, <2>4, <2>5
<1> QED
  BY <1>2, <1>3, <1>5, <1>6, <1>8

\* And for the logins that have passed the lock of k.
Passing(r, k) == r.login /\ r.key = k /\ r.pc \in {"count", "compare"}

LEMMA MovedPassed ==
  ASSUME TypeOK, NEW p \in Proc, NEW r \in Req, req' = [req EXCEPT ![p] = r], NEW k \in Key
  PROVE  /\ NPassed(k) \in Nat /\ NPassed(k)' \in Nat /\ NPassed(k)' <= Cardinality(Proc)
         /\ NPassed(k)' + (IF Passing(req[p], k) THEN 1 ELSE 0)
              = NPassed(k) + (IF Passing(r, k) THEN 1 ELSE 0)
         /\ ~Passing(req[p], k) => NPassed(k) < Cardinality(Proc)
<1>1. req'[p] = r /\ \A q \in Proc \ {p} : req'[q] = req[q]
  BY DEF TypeOK
<1>2. /\ Passed(k) \in SUBSET Proc /\ Passed(k)' \in SUBSET Proc
      /\ Passed(k) \ {p} = Passed(k)' \ {p}
      /\ p \in Passed(k) <=> Passing(req[p], k)
      /\ p \in Passed(k)' <=> Passing(r, k)
  BY <1>1 DEF Passed, At, Passing
<1>3. /\ NPassed(k) \in Nat /\ NPassed(k)' \in Nat
      /\ NPassed(k)' + (IF p \in Passed(k) THEN 1 ELSE 0)
           = NPassed(k) + (IF p \in Passed(k)' THEN 1 ELSE 0)
      /\ p \notin Passed(k) => NPassed(k) < Cardinality(Proc)
  BY <1>2, Moved DEF NPassed
<1>4. NPassed(k)' <= Cardinality(Proc)
  BY <1>2, ProcSets DEF NPassed
<1> QED
  BY <1>2, <1>3, <1>4

-----------------------------------------------------------------------------
LEMMA Going ==
  ASSUME TypeOK, NEW p \in Proc
  PROVE  /\ \A pc, v : Goto(p, pc, v) => Goes(p, pc, v)
         /\ \A login \in BOOLEAN, k \in Key : Begin(p, login, k) => Goes(p, "count", None)
         /\ Finish(p) => Goes(p, "idle", None)
         /\ Refuse(p) => Goes(p, "note", None) \/ Goes(p, "idle", None)
<1>1. req[p].login \in BOOLEAN /\ req[p].key \in Key
  BY DEF TypeOK, Req
<1>2. \A pc, v : Goto(p, pc, v) => Goes(p, pc, v)
  BY <1>1 DEF Goto, Goes
<1>3. \A login \in BOOLEAN, k \in Key : Begin(p, login, k) => Goes(p, "count", None)
  BY DEF Begin, Goes
<1>4. Finish(p) => Goes(p, "idle", None)
  BY DEF Finish, Goes, Idle, Key
<1> QED
  BY <1>2, <1>3, <1>4 DEF Refuse

LEMMA Gone ==
  ASSUME TypeOK, NEW p \in Proc, NEW pc \in PC, NEW v \in Value \cup {None}, Goes(p, pc, v)
  PROVE  \E r \in Req : req' = [req EXCEPT ![p] = r] /\ r.pc = pc /\ r.v = v
<1>1. PICK b \in BOOLEAN, k \in Key :
        req' = [req EXCEPT ![p] = [pc |-> pc, v |-> v, login |-> b, key |-> k]]
  BY DEF Goes
<1>2. PICK r : r = [pc |-> pc, v |-> v, login |-> b, key |-> k]
  OBVIOUS
<1>3. r \in Req /\ r.pc = pc /\ r.v = v /\ req' = [req EXCEPT ![p] = r]
  BY <1>1, <1>2 DEF Req
<1> QED
  BY <1>3

\* The requests at the lock stay there, each with its key, unless they move.
LEMMA AtLock ==
  ASSUME TypeOK, NEW p \in Proc, NEW r \in Req, req' = [req EXCEPT ![p] = r],
         NEW q \in Proc, At(q, "lock"), q # p \/ req[p].pc # "lock"
  PROVE  At(q, "lock")' /\ req'[q].key = req[q].key
BY DEF TypeOK, At

\* The account of one lock, when the request p moves and the lock stays as it is.
LEMMA LateMoves ==
  ASSUME TypeOK, NEW k \in Key, LateUnder(k),
         NEW p \in Proc, NEW r \in Req, req' = [req EXCEPT ![p] = r],
         locked'[k] = locked[k],
         ~locked[k] => late'[k] = late[k],
         locked[k] =>
           \/ /\ late'[k] = late[k] /\ unread'[k] = unread[k]
              /\ Passing(r, k) => Passing(req[p], k)
           \/ /\ late'[k] = late[k] + 1 /\ unread'[k] = unread[k]
              /\ Passing(req[p], k) /\ ~Passing(r, k)
           \/ late'[k] = late[k] /\ unread'[k] = unread[k] + 1
  PROVE  LateUnder(k)'
<1>1. /\ NPassed(k) \in Nat /\ NPassed(k)' \in Nat
      /\ NPassed(k)' + (IF Passing(req[p], k) THEN 1 ELSE 0)
           = NPassed(k) + (IF Passing(r, k) THEN 1 ELSE 0)
  BY MovedPassed
<1>2. late[k] \in Nat /\ unread[k] \in Nat /\ Cardinality(Proc) \in Nat
  BY ProcCount DEF TypeOK
<1>3. CASE ~locked[k]
  BY <1>3 DEF LateUnder
<1>4. CASE locked[k]
  <2>1. late'[k] + NPassed(k)' <= Cardinality(Proc) + unread'[k]
    BY <1>1, <1>2, <1>4 DEF LateUnder, NPassed
  <2> QED
    BY <1>4, <2>1 DEF LateUnder
<1> QED
  BY <1>3, <1>4

\* A step of p that is none of the limits' keeps their invariants.
LEMMA Aside ==
  ASSUME TypeOK, Attempts, Latecomers, LockFollows, UNCHANGED limits,
         NEW p \in Proc, NEW r \in Req, req' = [req EXCEPT ![p] = r],
         req[p].pc \notin {"fail", "compare", "lock"},
         r.pc \notin {"fail", "compare", "count"}
  PROVE  Attempts' /\ Latecomers' /\ LockFollows'
<1>0. /\ NFail \in Nat /\ NFail' \in Nat /\ NCompare \in Nat /\ NCompare' \in Nat
      /\ NFail' + 0 = NFail + 0 /\ NCompare' + 0 = NCompare + 0
  BY MovedLimits DEF NFail, NCompare
<1>1. NFail' = NFail /\ NCompare' = NCompare
  BY <1>0 DEF NFail, NCompare
<1>2. UNCHANGED <<fails, risk, locked, guesses, lost, late, unread, lifted>>
  BY DEF limits
<1>3. Attempts'
  BY <1>1, <1>2 DEF Attempts
<1>4. Latecomers'
  <2> SUFFICES ASSUME NEW k \in Key PROVE LateUnder(k)'
    BY DEF Latecomers
  <2>1. ~Passing(r, k)
    BY DEF Passing
  <2> QED
    BY <1>2, <2>1, LateMoves DEF Latecomers
<1>5. LockFollows'
  BY <1>2, AtLock DEF LockFollows
<1> QED
  BY <1>3, <1>4, <1>5

\* The steps of a login up to its verdict, and of the other requests that verify a
\* password.
LoginStep(p) ==
  \/ \E k \in Key : Login(p, k)
  \/ StepUp(p) \/ OtherMethod(p) \/ failCountAtLeast(p) \/ WrongPassword(p)
  \/ LookupFails(p) \/ Fail(p) \/ RightPassword(p)

LEMMA Unfinished ==
  ASSUME TypeOK, NEW p \in Proc, LoginStep(p)
  PROVE  \E pc \in PC : Goes(p, pc, None)
BY Going
DEF LoginStep, Login, StepUp, OtherMethod, failCountAtLeast, WrongPassword, LookupFails, Fail,
    RightPassword, PC, Key

\* What these steps do to the limits.
LEMMA LoginSteps ==
  ASSUME IInv, NEW p \in Proc, LoginStep(p)
  PROVE  Attempts' /\ Latecomers' /\ LockFollows'
<1> USE DEF IInv
<1>0. /\ fails \in Nat /\ guesses \in Nat /\ lost \in Nat
      /\ late \in [Key -> Nat] /\ unread \in [Key -> Nat] /\ locked \in [Key -> BOOLEAN]
      /\ Limit \in Nat \ {0} /\ Cardinality(Proc) \in Nat
  BY LimitAssumption, ProcCount DEF TypeOK
<1>1. PICK pc \in PC : Goes(p, pc, None)
  BY Unfinished
<1>2. PICK r \in Req : req' = [req EXCEPT ![p] = r] /\ r.pc = pc /\ req'[p] = r
  BY <1>1, Gone DEF TypeOK
<1>3. /\ NFail \in Nat /\ NFail' \in Nat /\ NCompare \in Nat /\ NCompare' \in Nat
      /\ NFail' + (IF req[p].pc = "fail" THEN 1 ELSE 0) = NFail + (IF r.pc = "fail" THEN 1 ELSE 0)
      /\ NCompare' + (IF req[p].pc = "compare" THEN 1 ELSE 0)
           = NCompare + (IF r.pc = "compare" THEN 1 ELSE 0)
      /\ (req[p].pc # "fail" /\ req[p].pc # "compare") => NFail + NCompare < Cardinality(Proc)
  BY <1>2, MovedLimits
<1>4. UNCHANGED <<risk, locked, lifted>>
  BY DEF LoginStep, Login, StepUp, OtherMethod, failCountAtLeast, WrongPassword, LookupFails,
         Fail, RightPassword, limits
<1>5. ~At(p, "lock")
  BY DEF LoginStep, Login, StepUp, OtherMethod, failCountAtLeast, WrongPassword, LookupFails,
         Fail, RightPassword, At
<1>6. LockFollows'
  BY <1>2, <1>4, <1>5, AtLock DEF LockFollows, At
<1>14. ASSUME UNCHANGED <<late, unread>>, \A k \in Key : Passing(r, k) => Passing(req[p], k)
       PROVE  Latecomers'
  BY <1>2, <1>4, <1>14, LateMoves DEF Latecomers
<1>7. ASSUME NEW j \in Key, Login(p, j)
      PROVE  Attempts' /\ Latecomers'
  <2>1. /\ req[p].pc = "idle" /\ r.pc = "count" /\ r.key = j
        /\ UNCHANGED <<fails, guesses, lost, late>>
    BY <1>2, <1>7 DEF Login, At, Begin, TypeOK
  <2>2. IF locked[j] THEN unread' = [unread EXCEPT ![j] = @ + 1] ELSE unread' = unread
    BY <1>7 DEF Login
  <2>3. Attempts'
    BY <1>0, <1>3, <2>1 DEF Attempts, NFail, NCompare
  <2>4. Latecomers'
    <3> SUFFICES ASSUME NEW k \in Key PROVE LateUnder(k)'
      BY DEF Latecomers
    <3>1. k # j => ~Passing(r, k) /\ unread'[k] = unread[k]
      BY <1>0, <2>1, <2>2 DEF Passing
    <3>2. locked[j] => unread'[j] = unread[j] + 1
      BY <1>0, <2>2
    <3> QED
      BY <1>2, <1>4, <2>1, <3>1, <3>2, LateMoves DEF Latecomers
  <2> QED
    BY <2>3, <2>4
<1>13. ASSUME StepUp(p)
       PROVE  Attempts' /\ Latecomers'
  <2>1. /\ req[p].pc = "idle" /\ r.pc = "count" /\ r.login = FALSE
        /\ UNCHANGED <<fails, guesses, lost, late, unread>>
    BY <1>2, <1>13 DEF StepUp, At, Begin, TypeOK, limits
  <2>2. Attempts'
    BY <1>0, <1>3, <2>1 DEF Attempts, NFail, NCompare
  <2>3. \A k \in Key : ~Passing(r, k)
    BY <2>1 DEF Passing
  <2> QED
    BY <1>14, <2>1, <2>2, <2>3
<1>15. ASSUME OtherMethod(p)
       PROVE  Attempts' /\ Latecomers'
  <2>1. req[p].pc = "count" /\ r.pc \in {"note", "clear"} /\ UNCHANGED limits
    BY <1>2, <1>15 DEF OtherMethod, At, Goto, TypeOK
  <2> QED
    BY <1>2, <2>1, Aside
<1>8. ASSUME failCountAtLeast(p)
      PROVE  Attempts' /\ Latecomers'
  <2>1. req[p].pc = "count" /\ UNCHANGED <<fails, guesses, lost, late, unread>>
    BY <1>8 DEF failCountAtLeast, At, limits
  <2>2. \/ r.pc \in {"note", "idle"}
        \/ r.pc = "compare" /\ r.login = req[p].login /\ r.key = req[p].key /\ fails < Limit
    <3>1. CASE ~Exhausted /\ Goto(p, "compare", None)
      <4>1. fails < Limit
        BY <3>1, <1>0 DEF Exhausted, IInv, TypeOK
      <4> QED
        BY <1>2, <3>1, <4>1 DEF Goto, TypeOK
    <3>2. CASE Refuse(p)
      BY <1>2, <3>2 DEF Goto, Refuse, Finish, Idle, TypeOK
    <3> QED
      BY <1>8, <3>1, <3>2 DEF failCountAtLeast
  <2>3. Attempts'
    BY <1>0, <1>3, <2>1, <2>2 DEF Attempts, NFail, NCompare
  <2>4. \A k \in Key : Passing(r, k) => Passing(req[p], k)
    BY <2>1, <2>2 DEF Passing
  <2> QED
    BY <1>14, <2>1, <2>3, <2>4
<1>16. ASSUME Late(p), req[p].pc = "compare", unread' = unread,
              r.pc \notin {"count", "compare"}
       PROVE  Latecomers'
  <2> SUFFICES ASSUME NEW k \in Key PROVE LateUnder(k)'
    BY DEF Latecomers
  <2>1. ~Passing(r, k)
    BY <1>16 DEF Passing
  <2>2. CASE locked[k] /\ Passing(req[p], k)
    <3>1. late'[k] = late[k] + 1
      BY <1>0, <1>16, <2>2 DEF Late, Passing
    <3> QED
      BY <1>2, <1>4, <1>16, <2>1, <2>2, <3>1, LateMoves DEF Latecomers
  <2>3. CASE ~(locked[k] /\ Passing(req[p], k))
    <3>1. late'[k] = late[k]
      BY <1>0, <1>16, <2>3 DEF Late, Passing
    <3> QED
      BY <1>2, <1>4, <1>16, <2>1, <3>1, LateMoves DEF Latecomers
  <2> QED
    BY <2>2, <2>3
<1>9. ASSUME WrongPassword(p)
      PROVE  Attempts' /\ Latecomers'
  <2>1. /\ req[p].pc = "compare" /\ r.pc = "fail" /\ UNCHANGED <<fails, lost, unread>>
        /\ guesses' = guesses + 1 /\ Late(p)
    BY <1>2, <1>9 DEF WrongPassword, At, Goto, TypeOK
  <2>2. Attempts'
    BY <1>0, <1>3, <2>1 DEF Attempts, NFail, NCompare
  <2> QED
    BY <1>16, <2>1, <2>2
<1>10. ASSUME LookupFails(p)
       PROVE  Attempts' /\ Latecomers'
  <2>1. /\ req[p].pc = "compare" /\ r.pc \in {"note", "idle"}
        /\ UNCHANGED <<fails, guesses, lost, late, unread>>
    BY <1>2, <1>10 DEF LookupFails, At, Goto, Refuse, Finish, Idle, TypeOK, limits
  <2>2. Attempts'
    BY <1>0, <1>3, <2>1 DEF Attempts, NFail, NCompare
  <2>3. \A k \in Key : ~Passing(r, k)
    BY <2>1 DEF Passing
  <2> QED
    BY <1>14, <2>1, <2>2, <2>3
<1>11. ASSUME Fail(p)
       PROVE  Attempts' /\ Latecomers'
  <2>1. /\ req[p].pc = "fail" /\ r.pc \in {"note", "idle"} /\ UNCHANGED <<guesses, late, unread>>
        /\ \/ fails' = fails + 1 /\ lost' = lost
           \/ fails' = fails /\ lost' = lost + 1
    BY <1>2, <1>11 DEF Fail, At, Goto, Refuse, Finish, Idle, TypeOK
  <2>2. Attempts'
    BY <1>0, <1>3, <2>1 DEF Attempts, NFail, NCompare
  <2>3. \A k \in Key : ~Passing(r, k)
    BY <2>1 DEF Passing
  <2> QED
    BY <1>14, <2>1, <2>2, <2>3
<1>12. ASSUME RightPassword(p)
       PROVE  Attempts' /\ Latecomers'
  <2>1. /\ req[p].pc = "compare" /\ r.pc \in {"clear", "issue", "idle"} /\ unread' = unread
        /\ Late(p)
    BY <1>2, <1>12 DEF RightPassword, At, Goto, Finish, Idle, TypeOK
  <2>2. (fails' = 0 /\ guesses' = 0 /\ lost' = 0) \/ UNCHANGED <<fails, guesses, lost>>
    BY <1>12 DEF RightPassword, Reset
  <2>3. NCompare < Cardinality(Proc) + 1
    BY <1>0, OnSets
  <2>4. Attempts'
    BY <1>0, <1>3, <2>1, <2>2, <2>3 DEF Attempts, NFail, NCompare
  <2> QED
    BY <1>16, <2>1, <2>4
<1> QED
  BY <1>6, <1>7, <1>8, <1>9, <1>10, <1>11, <1>12, <1>13, <1>15 DEF LoginStep

\* The lock k goes: its account is empty, and those of the others stay.
LEMMA Lifting ==
  ASSUME TypeOK, Latecomers, NEW k \in Key, Lift(k),
         \A j \in Key : NPassed(j)' \in Nat /\ NPassed(j)' <= NPassed(j)
  PROVE  Latecomers'
<1> SUFFICES ASSUME NEW j \in Key PROVE LateUnder(j)'
  BY DEF Latecomers
<1>1. NPassed(j) \in Nat /\ Cardinality(Proc) \in Nat /\ late[j] \in Nat /\ unread[j] \in Nat
  BY OnSets, ProcCount DEF TypeOK
<1>2. CASE j = k
  <2>1. ~locked'[j] /\ late'[j] = 0
    BY <1>2 DEF Lift, TypeOK
  <2> QED
    BY <2>1 DEF LateUnder
<1>3. CASE j # k
  <2>1. locked'[j] = locked[j] /\ late'[j] = late[j] /\ unread'[j] = unread[j]
    BY <1>3 DEF Lift, TypeOK
  <2> QED
    BY <1>1, <2>1 DEF LateUnder, Latecomers
<1> QED
  BY <1>2, <1>3

LEMMA LiftFollows ==
  ASSUME TypeOK, LockFollows, NEW k \in Key, Lift(k), risk' = risk,
         \A q \in Proc : At(q, "lock") => At(q, "lock")' /\ req'[q].key = req[q].key
  PROVE  LockFollows'
<1> SUFFICES ASSUME NEW j \in Key, risk[j] > RiskLimit
             PROVE  locked'[j] \/ lifted'[j] \/ \E q \in Proc : At(q, "lock")' /\ req'[q].key = j
  BY DEF LockFollows
<1>1. /\ locked[j] => locked'[j] \/ lifted'[j]
      /\ lifted[j] => lifted'[j]
  BY DEF Lift, TypeOK
<1> QED
  BY <1>1 DEF LockFollows

\* The steps of the risk counters and the locks.
LEMMA LockSteps ==
  ASSUME IInv, NEW p \in Proc,
         noteLoginFailure(p) \/ SetLock(p) \/ clearLoginFailures(p) \/ Abort(p)
  PROVE  Attempts' /\ Latecomers' /\ LockFollows'
<1> USE DEF IInv
<1>0. /\ fails \in Nat /\ guesses \in Nat /\ lost \in Nat
      /\ late \in [Key -> Nat] /\ unread \in [Key -> Nat] /\ locked \in [Key -> BOOLEAN]
      /\ lifted \in [Key -> BOOLEAN] /\ risk \in [Key -> Nat] /\ RiskLimit \in Nat
      /\ Limit \in Nat \ {0} /\ Cardinality(Proc) \in Nat /\ req[p].key \in Key
  BY LimitAssumption, ProcCount DEF TypeOK, Req
<1>1. PICK pc \in {"lock", "idle"} : Goes(p, pc, None)
  BY Going DEF noteLoginFailure, SetLock, clearLoginFailures, Abort
<1>2. PICK r \in Req : req' = [req EXCEPT ![p] = r] /\ r.pc = pc /\ req'[p] = r
  BY <1>1, Gone DEF TypeOK, PC
<1>3. \A q \in Proc : q # p /\ At(q, "lock") => At(q, "lock")' /\ req'[q].key = req[q].key
  BY <1>2, AtLock
<1>4. /\ NFail \in Nat /\ NFail' \in Nat /\ NCompare \in Nat /\ NCompare' \in Nat
      /\ NFail' + (IF req[p].pc = "fail" THEN 1 ELSE 0) = NFail
      /\ NCompare' + (IF req[p].pc = "compare" THEN 1 ELSE 0) = NCompare
  <2>1. r.pc # "fail" /\ r.pc # "compare"
    BY <1>2
  <2>2. /\ NFail \in Nat /\ NFail' \in Nat /\ NCompare \in Nat /\ NCompare' \in Nat
        /\ NFail' + (IF req[p].pc = "fail" THEN 1 ELSE 0) = NFail + 0
        /\ NCompare' + (IF req[p].pc = "compare" THEN 1 ELSE 0) = NCompare + 0
    BY <1>2, <2>1, MovedLimits DEF NFail, NCompare
  <2> QED
    BY <2>2 DEF NFail, NCompare
<1>5. \A k \in Key : ~Passing(r, k)
  BY <1>2 DEF Passing
<1>6. \A k \in Key : NPassed(k)' \in Nat /\ NPassed(k)' <= NPassed(k)
  <2> SUFFICES ASSUME NEW k \in Key PROVE NPassed(k)' \in Nat /\ NPassed(k)' <= NPassed(k)
    OBVIOUS
  <2>1. /\ NPassed(k) \in Nat /\ NPassed(k)' \in Nat
        /\ NPassed(k)' + (IF Passing(req[p], k) THEN 1 ELSE 0) = NPassed(k) + 0
    BY <1>2, <1>5, MovedPassed DEF NPassed
  <2> QED
    BY <2>1 DEF NPassed
<1>7. CASE noteLoginFailure(p)
  <2>1. req[p].pc = "note" /\ UNCHANGED <<fails, guesses, lost, late, unread, locked, lifted>>
    BY <1>7 DEF noteLoginFailure, At
  <2>2. /\ risk' = [risk EXCEPT ![req[p].key] = @ + 1]
        /\ risk[req[p].key] >= RiskLimit => At(p, "lock")' /\ req'[p].key = req[p].key
    BY <1>2, <1>7 DEF noteLoginFailure, Noted, At, Goto, TypeOK
  <2>3. Attempts'
    BY <1>0, <1>4, <2>1 DEF Attempts, NFail, NCompare
  <2>4. Latecomers'
    BY <1>2, <1>5, <2>1, LateMoves DEF Latecomers
  <2>5. LockFollows'
    <3> SUFFICES ASSUME NEW k \in Key, risk'[k] > RiskLimit
                 PROVE  locked[k] \/ lifted[k] \/ \E q \in Proc : At(q, "lock")' /\ req'[q].key = k
      BY <2>1 DEF LockFollows
    <3>1. CASE k = req[p].key /\ risk[k] >= RiskLimit
      BY <2>2, <3>1
    <3>2. CASE ~(k = req[p].key /\ risk[k] >= RiskLimit)
      <4>1. risk[k] > RiskLimit
        BY <1>0, <2>2, <3>2
      <4> QED
        BY <1>3, <2>1, <4>1 DEF LockFollows, At
    <3> QED
      BY <3>1, <3>2
  <2> QED
    BY <2>3, <2>4, <2>5
<1>8. CASE SetLock(p)
  <2>1. /\ req[p].pc = "lock" /\ UNCHANGED <<fails, risk, guesses, lost, late, unread>>
        /\ locked' = [locked EXCEPT ![req[p].key] = TRUE]
        /\ lifted' = [lifted EXCEPT ![req[p].key] = FALSE]
    BY <1>8 DEF SetLock, At
  <2>2. Attempts'
    BY <1>0, <1>4, <2>1 DEF Attempts, NFail, NCompare
  <2>3. Latecomers'
    <3> SUFFICES ASSUME NEW k \in Key PROVE LateUnder(k)'
      BY DEF Latecomers
    <3>1. /\ NPassed(k) \in Nat /\ NPassed(k)' \in Nat /\ NPassed(k)' <= NPassed(k)
          /\ NPassed(k) <= Cardinality(Proc) /\ late[k] \in Nat /\ unread[k] \in Nat
      BY <1>0, <1>6, OnSets
    <3>2. late'[k] = late[k] /\ unread'[k] = unread[k]
      BY <2>1
    <3>3. locked[k] => locked'[k]
      BY <1>0, <2>1
    <3> QED
      BY <1>0, <3>1, <3>2, <3>3 DEF LateUnder, Latecomers
  <2>4. LockFollows'
    <3> SUFFICES ASSUME NEW k \in Key, risk[k] > RiskLimit
                 PROVE  locked'[k] \/ lifted'[k]
                          \/ \E q \in Proc : At(q, "lock")' /\ req'[q].key = k
      BY <2>1 DEF LockFollows
    <3>1. CASE k = req[p].key
      BY <1>0, <2>1, <3>1
    <3>2. CASE k # req[p].key
      <4>1. locked'[k] = locked[k] /\ lifted'[k] = lifted[k]
        BY <1>0, <2>1, <3>2
      <4> QED
        BY <1>3, <3>2, <4>1 DEF LockFollows
    <3> QED
      BY <3>1, <3>2
  <2> QED
    BY <2>2, <2>3, <2>4
<1>9. CASE clearLoginFailures(p)
  <2>1. /\ req[p].pc = "clear" /\ UNCHANGED <<fails, risk, guesses, lost>> /\ Lift(req[p].key)
    BY <1>9 DEF clearLoginFailures, At
  <2>2. Attempts'
    BY <1>0, <1>4, <2>1 DEF Attempts, NFail, NCompare
  <2>3. Latecomers'
    BY <1>0, <1>6, <2>1, Lifting
  <2>4. LockFollows'
    BY <1>0, <1>3, <2>1, LiftFollows DEF At
  <2> QED
    BY <2>2, <2>3, <2>4
<1>10. CASE Abort(p)
  <2>1. /\ UNCHANGED <<fails, risk, locked, guesses, late, unread>>
        /\ lost' = (IF req[p].pc = "fail" THEN lost + 1 ELSE lost)
        /\ lifted' = [lifted EXCEPT ![req[p].key] = @ \/ At(p, "lock")]
    BY <1>10 DEF Abort, At
  <2>2. Attempts'
    BY <1>0, <1>4, <2>1 DEF Attempts, NFail, NCompare
  <2>3. Latecomers'
    BY <1>2, <1>5, <2>1, LateMoves DEF Latecomers
  <2>4. LockFollows'
    <3> SUFFICES ASSUME NEW k \in Key, risk[k] > RiskLimit
                 PROVE  locked[k] \/ lifted'[k]
                          \/ \E q \in Proc : At(q, "lock")' /\ req'[q].key = k
      BY <2>1 DEF LockFollows
    <3>1. /\ lifted[k] => lifted'[k]
          /\ k = req[p].key /\ At(p, "lock") => lifted'[k]
      BY <1>0, <2>1
    <3> QED
      BY <1>3, <3>1 DEF LockFollows
  <2> QED
    BY <2>2, <2>3, <2>4
<1> QED
  BY <1>7, <1>8, <1>9, <1>10

\* What ends by itself, or by the administrator.
Lapse == FailWindowEnds \/ \E k \in Key : Unlock(k) \/ RiskWindowEnds(k)

LEMMA LapseSteps ==
  ASSUME IInv, Lapse
  PROVE  Attempts' /\ Latecomers' /\ LockFollows'
<1> USE DEF IInv
<1>1. req' = req
  BY DEF Lapse, Unlock, FailWindowEnds, RiskWindowEnds
<1>2. NFail' = NFail /\ NCompare' = NCompare /\ \A k \in Key : NPassed(k)' = NPassed(k)
  BY <1>1 DEF NFail, NCompare, NPassed, Failing, Comparing, Passed, At
<1>3. NFail \in Nat /\ NCompare \in Nat /\ NCompare <= Cardinality(Proc)
      /\ Cardinality(Proc) \in Nat /\ Limit \in Nat \ {0}
  BY OnSets, ProcCount, LimitAssumption
<1>4. ASSUME NEW k \in Key, Unlock(k)
      PROVE  Attempts' /\ Latecomers' /\ LockFollows'
  <2>1. Lift(k) /\ UNCHANGED <<fails, risk, guesses, lost>>
    BY <1>4 DEF Unlock
  <2>2. Attempts'
    BY <1>2, <2>1 DEF Attempts
  <2>3. Latecomers'
    <3>1. \A j \in Key : NPassed(j)' \in Nat /\ NPassed(j)' <= NPassed(j)
      BY <1>2, OnSets
    <3> QED
      BY <2>1, <3>1, Lifting
  <2>4. LockFollows'
    BY <1>1, <2>1, LiftFollows DEF At
  <2> QED
    BY <2>2, <2>3, <2>4
<1>5. ASSUME FailWindowEnds
      PROVE  Attempts' /\ Latecomers' /\ LockFollows'
  <2>1. Attempts'
    BY <1>2, <1>3, <1>5 DEF FailWindowEnds, Reset, Attempts
  <2>2. Latecomers'
    BY <1>2, <1>5 DEF FailWindowEnds, Latecomers, LateUnder
  <2>3. LockFollows'
    BY <1>1, <1>5 DEF FailWindowEnds, LockFollows, At
  <2> QED
    BY <2>1, <2>2, <2>3
<1>6. ASSUME NEW k \in Key, RiskWindowEnds(k)
      PROVE  Attempts' /\ Latecomers' /\ LockFollows'
  <2>1. Attempts'
    BY <1>2, <1>6 DEF RiskWindowEnds, Attempts
  <2>2. Latecomers'
    BY <1>2, <1>6 DEF RiskWindowEnds, Latecomers, LateUnder
  <2>3. LockFollows'
    <3> SUFFICES ASSUME NEW j \in Key, risk'[j] > RiskLimit
                 PROVE  locked'[j] \/ lifted'[j]
                          \/ \E q \in Proc : At(q, "lock")' /\ req'[q].key = j
      BY DEF LockFollows
    <3>1. risk' = [risk EXCEPT ![k] = 0] /\ lifted' = [lifted EXCEPT ![k] = FALSE]
          /\ locked' = locked
      BY <1>6 DEF RiskWindowEnds
    <3>2. j # k /\ risk[j] > RiskLimit
      BY <3>1, LimitAssumption DEF TypeOK
    <3>3. lifted[j] => lifted'[j]
      BY <3>1, <3>2 DEF TypeOK
    <3> QED
      BY <1>1, <3>1, <3>2, <3>3 DEF LockFollows, At
  <2> QED
    BY <2>1, <2>2, <2>3
<1> QED
  BY <1>4, <1>5, <1>6 DEF Lapse

-----------------------------------------------------------------------------
\* How many requests delete v when only p moves.
LEMMA MovedDel ==
  ASSUME TypeOK, NEW p \in Proc, NEW r \in Req, req' = [req EXCEPT ![p] = r], NEW v \in Value
  PROVE  /\ NDel(v) \in Nat /\ NDel(v)' \in Nat /\ NDel(v)' <= Cardinality(Proc)
         /\ NDel(v)' + (IF req[p].pc = "del" /\ req[p].v = v THEN 1 ELSE 0)
              = NDel(v) + (IF r.pc = "del" /\ r.v = v THEN 1 ELSE 0)
         /\ req[p].pc # "del" => NDel(v) < Cardinality(Proc)
<1>1. req'[p] = r /\ \A q \in Proc \ {p} : req'[q] = req[q]
  BY DEF TypeOK
<1>2. /\ Deleting(v) \in SUBSET Proc /\ Deleting(v)' \in SUBSET Proc
      /\ Deleting(v) \ {p} = Deleting(v)' \ {p}
      /\ p \in Deleting(v) <=> (req[p].pc = "del" /\ req[p].v = v)
      /\ p \in Deleting(v)' <=> (r.pc = "del" /\ r.v = v)
  BY <1>1 DEF Deleting, At
<1>3. /\ NDel(v) \in Nat /\ NDel(v)' \in Nat
      /\ NDel(v)' + (IF p \in Deleting(v) THEN 1 ELSE 0)
           = NDel(v) + (IF p \in Deleting(v)' THEN 1 ELSE 0)
      /\ p \notin Deleting(v) => NDel(v) < Cardinality(Proc)
  BY <1>2, Moved DEF NDel
<1>4. NDel(v)' <= Cardinality(Proc)
  BY <1>2, ProcSets DEF NDel
<1> QED
  BY <1>2, <1>3, <1>4

\* A step that leaves the value w alone.
LEMMA OtherValue ==
  ASSUME IInv, NEW p \in Proc, NEW r \in Req, req' = [req EXCEPT ![p] = r],
         NEW w \in Value, r.v # w \/ r = req[p],
         value'[w] = value[w], puts'[w] = puts[w], redeemed'[w] = redeemed[w],
         undeleted'[w] = undeleted[w], w \in loose' <=> w \in loose
  PROVE  UsesOf(w)' /\ ExchangesOf(w)'
<1>1. UsesOf(w) /\ ExchangesOf(w) /\ TypeOK
  BY DEF IInv, Uses
<1>2. req'[p] = r /\ \A q \in Proc \ {p} : req'[q] = req[q]
  BY <1>1 DEF TypeOK
<1>3. UsesOf(w)'
  BY <1>1, <1>2 DEF UsesOf, Live
<1>4. NDel(w) \in Nat /\ NDel(w)' \in Nat /\ NDel(w)' <= NDel(w)
  <2>1. CASE r.v # w
    <3>1. /\ NDel(w) \in Nat /\ NDel(w)' \in Nat
          /\ NDel(w)' + (IF req[p].pc = "del" /\ req[p].v = w THEN 1 ELSE 0) = NDel(w) + 0
      BY <1>1, <2>1, MovedDel DEF NDel
    <3> QED
      BY <3>1 DEF NDel
  <2>2. CASE r = req[p]
    <3>1. Deleting(w)' = Deleting(w)
      BY <1>2, <2>2 DEF Deleting, At
    <3> QED
      BY <3>1, OnSets DEF NDel
  <2> QED
    BY <2>1, <2>2
<1>5. redeemed[w] \in Nat /\ undeleted[w] \in Nat /\ Cardinality(Proc) \in Nat
  BY <1>1, ProcCount DEF TypeOK
<1>6. ExchangesOf(w)'
  BY <1>1, <1>4, <1>5 DEF ExchangesOf, Live, NDel
<1> QED
  BY <1>3, <1>6

\* A step of the limits leaves all of them alone.
LEMMA ValuesAside ==
  ASSUME IInv, UNCHANGED values, NEW p \in Proc, NEW pc \in PC, Goes(p, pc, None)
  PROVE  Uses'
<1>1. PICK r \in Req : req' = [req EXCEPT ![p] = r] /\ r.v = None
  BY Gone DEF IInv
<1>2. UNCHANGED <<value, puts, redeemed, loose, undeleted>>
  BY DEF values
<1>3. ASSUME NEW w \in Value PROVE UsesOf(w)' /\ ExchangesOf(w)'
  BY <1>1, <1>2, OtherValue, NoneAssumption
<1> QED
  BY <1>3 DEF Uses

-----------------------------------------------------------------------------
\* A step about the value v: what is left to show is that v itself is well.
LEMMA OneValue ==
  ASSUME IInv, NEW p \in Proc, NEW r \in Req, req' = [req EXCEPT ![p] = r],
         NEW v \in Value, r.v \in {None, v} \/ r = req[p],
         \A w \in Value \ {v} :
           /\ value'[w] = value[w] /\ puts'[w] = puts[w] /\ redeemed'[w] = redeemed[w]
           /\ undeleted'[w] = undeleted[w] /\ (w \in loose' <=> w \in loose),
         UsesOf(v)' /\ ExchangesOf(v)'
  PROVE  Uses'
<1>1. ASSUME NEW w \in Value \ {v} PROVE UsesOf(w)' /\ ExchangesOf(w)'
  <2>1. r.v # w \/ r = req[p]
    BY NoneAssumption
  <2> QED
    BY <2>1, OtherValue
<1> QED
  BY <1>1 DEF Uses

\* What is known of a value before a step.
LEMMA Before ==
  ASSUME IInv, NEW v \in Value
  PROVE  /\ UsesOf(v) /\ ExchangesOf(v)
         /\ puts[v] \in Nat /\ redeemed[v] \in Nat /\ undeleted[v] \in Nat
         /\ Live(v) => puts[v] > 0
         /\ Cardinality(Proc) \in Nat
<1>1. /\ UsesOf(v) /\ ExchangesOf(v)
      /\ puts[v] \in Nat /\ redeemed[v] \in Nat /\ undeleted[v] \in Nat
      /\ Cardinality(Proc) \in Nat /\ (value[v].st = "none" <=> puts[v] = 0)
  BY ProcCount DEF IInv, TypeOK, Uses
<1> QED
  BY <1>1 DEF Live

LEMMA GetDelSteps ==
  ASSUME IInv, NEW p \in Proc, NEW v \in Value, GetDelJSON(p, v)
  PROVE  Uses'
<1>1. PICK r \in Req : /\ req' = [req EXCEPT ![p] = r]
                       /\ r.v = None \/ r = req[p]
                       /\ r.pc # "del"
  <2>1. CASE UNCHANGED req
    BY <2>1 DEF IInv, TypeOK, GetDelJSON, At
  <2>2. CASE Honoured(p, v)
    <3>1. PICK pc \in {"second", "idle"} : Goes(p, pc, None)
      BY <2>2, Going DEF Honoured, IInv
    <3> QED
      BY <3>1, Gone DEF IInv, PC
  <2> QED
    BY <2>1, <2>2 DEF GetDelJSON
<1>2. /\ value' = [value EXCEPT ![v] = [st |-> "gone", kind |-> value[v].kind]]
      /\ UNCHANGED <<puts, loose, undeleted>>
      /\ redeemed' = [redeemed EXCEPT ![v] = @ + 1] \/ redeemed' = redeemed
      /\ Live(v) /\ req[p].pc = "idle"
  BY DEF GetDelJSON, Drop, Honoured, Honour, At
<1>3. ~Live(v)' /\ (redeemed'[v] = redeemed[v] + 1 \/ redeemed'[v] = redeemed[v])
  BY <1>2 DEF Live, IInv, TypeOK
<1>4. \A q \in Proc : req'[q].v = v => req[q].v = v
  BY <1>1, NoneAssumption DEF IInv, TypeOK
<1>5. /\ NDel(v) \in Nat /\ NDel(v)' \in Nat /\ NDel(v)' + 0 = NDel(v) + 0
      /\ NDel(v) < Cardinality(Proc)
  BY <1>1, <1>2, MovedDel DEF IInv, NDel
<1>6. UsesOf(v)'
  BY <1>2, <1>3, <1>4, Before DEF UsesOf
<1>7. ExchangesOf(v)'
  BY <1>2, <1>3, <1>5, Before DEF ExchangesOf, NDel
<1>8. \A w \in Value \ {v} :
        /\ value'[w] = value[w] /\ puts'[w] = puts[w] /\ redeemed'[w] = redeemed[w]
        /\ undeleted'[w] = undeleted[w] /\ (w \in loose' <=> w \in loose)
  BY <1>2 DEF IInv, TypeOK
<1> QED
  BY <1>1, <1>6, <1>7, <1>8, OneValue

\* The value is read with a plain GET.
LEMMA GetSteps ==
  ASSUME IInv, NEW p \in Proc, NEW v \in Value, GetThenDel(p, v) \/ ExchangeToken(p, v)
  PROVE  Uses'
<1>1. PICK r \in Req : req' = [req EXCEPT ![p] = r] /\ r.v = v
  <2>1. PICK pc \in {"del", "spoil"} : Goes(p, pc, v)
    BY Going DEF GetThenDel, ExchangeToken, IInv
  <2> QED
    BY <2>1, Gone DEF IInv, PC
<1>2. UNCHANGED <<value, puts, redeemed, undeleted>> /\ loose' = loose \cup {v} /\ Live(v)
  BY DEF GetThenDel, ExchangeToken
<1>3. NDel(v)' \in Nat /\ NDel(v)' <= Cardinality(Proc)
  BY <1>1, MovedDel DEF IInv
<1>4. UsesOf(v)'
  BY <1>2, Before DEF UsesOf
<1>5. ExchangesOf(v)'
  BY <1>2, <1>3, Before DEF ExchangesOf, Live, NDel
<1> QED
  BY <1>1, <1>2, <1>4, <1>5, OneValue

LEMMA DelSteps ==
  ASSUME IInv, NEW p \in Proc, NEW v \in Value, Del(p, v)
  PROVE  Uses'
<1>1. PICK r \in Req : req' = [req EXCEPT ![p] = r] /\ r.v = None
  <2>1. PICK pc \in {"second", "idle"} : Goes(p, pc, None)
    BY Going DEF Del, Honoured, IInv
  <2> QED
    BY <2>1, Gone DEF IInv, PC
<1>2. /\ UNCHANGED <<puts, loose>> /\ redeemed' = [redeemed EXCEPT ![v] = @ + 1]
      /\ req[p].pc = "del" /\ req[p].v = v
      /\ \/ value' = [value EXCEPT ![v] = [st |-> "gone", kind |-> value[v].kind]]
            /\ undeleted' = undeleted
         \/ value' = value /\ undeleted' = [undeleted EXCEPT ![v] = @ + 1]
  BY DEF Del, Drop, Honoured, Honour, At
<1>3. /\ redeemed'[v] = redeemed[v] + 1 /\ puts'[v] = puts[v]
      /\ \/ ~Live(v)' /\ undeleted'[v] = undeleted[v]
         \/ (Live(v)' <=> Live(v)) /\ undeleted'[v] = undeleted[v] + 1
  BY <1>2 DEF Live, IInv, TypeOK
<1>4. r.v # v /\ \A q \in Proc : req'[q].v = v => req[q].v = v
  BY <1>1, NoneAssumption DEF IInv, TypeOK
<1>5. NDel(v) \in Nat /\ NDel(v)' \in Nat /\ NDel(v)' + 1 = NDel(v) + 0
  BY <1>1, <1>2, <1>4, MovedDel DEF IInv, NDel
<1>6. v \in loose /\ puts[v] > 0
  BY <1>2, Before DEF UsesOf
<1>7. UsesOf(v)'
  BY <1>2, <1>3, <1>4, <1>6, Before DEF UsesOf
<1>8. ExchangesOf(v)'
  <2>1. /\ redeemed[v] \in Nat /\ undeleted[v] \in Nat /\ Cardinality(Proc) \in Nat
        /\ ExchangesOf(v)
    BY Before
  <2>2. redeemed'[v] + NDel(v)' = redeemed[v] + NDel(v)
    BY <1>3, <1>5, <2>1 DEF NDel
  <2>3. undeleted'[v] \in Nat /\ undeleted'[v] >= undeleted[v]
    BY <1>3, <2>1
  <2>4. SUFFICES ASSUME puts[v] = 1
                 PROVE  /\ Live(v)' => redeemed'[v] <= undeleted'[v]
                        /\ redeemed'[v] + NDel(v)' <= Cardinality(Proc) + undeleted'[v]
    BY <1>3 DEF ExchangesOf
  <2>5. Live(v)' => redeemed'[v] <= undeleted'[v]
    BY <1>3, <2>1, <2>4 DEF ExchangesOf
  <2>6. redeemed'[v] + NDel(v)' <= Cardinality(Proc) + undeleted'[v]
    BY <1>5, <2>1, <2>2, <2>3, <2>4 DEF ExchangesOf, NDel
  <2> QED
    BY <2>5, <2>6
<1>9. \A w \in Value \ {v} :
        /\ value'[w] = value[w] /\ puts'[w] = puts[w] /\ redeemed'[w] = redeemed[w]
        /\ undeleted'[w] = undeleted[w] /\ (w \in loose' <=> w \in loose)
  BY <1>2 DEF IInv, TypeOK
<1> QED
  BY <1>1, <1>7, <1>8, <1>9, OneValue

LEMMA SpoilSteps ==
  ASSUME IInv, NEW p \in Proc, NEW v \in Value, Spoil(p, v)
  PROVE  Uses'
<1>1. PICK r \in Req : req' = [req EXCEPT ![p] = r] /\ r.v = None /\ r.pc # "del"
  <2>1. Goes(p, "idle", None)
    BY Going DEF Spoil, IInv
  <2> QED
    BY <2>1, Gone DEF IInv, PC
<1>2. /\ UNCHANGED <<puts, redeemed, loose, undeleted>> /\ req[p].pc = "spoil"
      /\ value' = [value EXCEPT ![v] = [st |-> "gone", kind |-> value[v].kind]]
  BY DEF Spoil, Drop, At
<1>3. ~Live(v)' /\ \A q \in Proc : req'[q].v = v => req[q].v = v
  BY <1>1, <1>2, NoneAssumption DEF Live, IInv, TypeOK
<1>4. NDel(v) \in Nat /\ NDel(v)' \in Nat /\ NDel(v)' + 0 = NDel(v) + 0
  <2>1. TypeOK /\ req[p].pc # "del" /\ ~(r.pc = "del" /\ r.v = v)
    BY <1>1, <1>2 DEF IInv
  <2>2. /\ NDel(v) \in Nat /\ NDel(v)' \in Nat
        /\ NDel(v)' + (IF req[p].pc = "del" /\ req[p].v = v THEN 1 ELSE 0)
             = NDel(v) + (IF r.pc = "del" /\ r.v = v THEN 1 ELSE 0)
    BY <1>1, <2>1, MovedDel
  <2> QED
    BY <2>1, <2>2 DEF NDel
<1>5. UsesOf(v)'
  BY <1>2, <1>3, Before DEF UsesOf
<1>6. ExchangesOf(v)'
  BY <1>2, <1>3, <1>4, Before DEF ExchangesOf, NDel
<1>7. \A w \in Value \ {v} : value'[w] = value[w]
  BY <1>2 DEF IInv, TypeOK
<1> QED
  BY <1>1, <1>2, <1>5, <1>6, <1>7, OneValue

\* A value is written, or expires, while no request takes up a value.
LEMMA StoreSteps ==
  ASSUME IInv, NEW v \in Value, Expire(v) \/ \E kind \in Kind : SetJSON(v, kind),
         \A q \in Proc, w \in Value : req'[q].v = w => req[q].v = w,
         \A w \in Value : Deleting(w)' = Deleting(w)
  PROVE  Uses'
<1>1. UNCHANGED <<redeemed, loose, undeleted>>
  BY DEF Expire, SetJSON
<1>3. \A w \in Value : NDel(w)' = NDel(w) /\ NDel(w) \in Nat /\ NDel(w) <= Cardinality(Proc)
  BY OnSets DEF NDel
<1>4. ASSUME NEW w \in Value, value'[w] = value[w], puts'[w] = puts[w]
      PROVE  UsesOf(w)' /\ ExchangesOf(w)'
  BY <1>1, <1>3, <1>4, Before DEF UsesOf, ExchangesOf, Live, NDel
<1>5. CASE Expire(v)
  <2>1. puts' = puts /\ ~Live(v)' /\ \A w \in Value \ {v} : value'[w] = value[w]
    BY <1>5 DEF Expire, Drop, Live, IInv, TypeOK
  <2>2. UsesOf(v)' /\ ExchangesOf(v)'
    BY <1>1, <1>3, <2>1, Before DEF UsesOf, ExchangesOf, NDel
  <2> QED
    BY <1>4, <2>1, <2>2 DEF Uses
<1>6. ASSUME NEW kind \in Kind, SetJSON(v, kind)
      PROVE  Uses'
  <2>1. /\ puts'[v] = puts[v] + 1
        /\ \A w \in Value \ {v} : value'[w] = value[w] /\ puts'[w] = puts[w]
    BY <1>6 DEF SetJSON, IInv, TypeOK
  <2>2. UsesOf(v) /\ ExchangesOf(v) /\ puts[v] \in Nat /\ redeemed[v] \in Nat
        /\ undeleted[v] \in Nat /\ Cardinality(Proc) \in Nat
    BY Before
  <2>3. redeemed[v] <= puts[v] \/ v \in loose
    BY <2>2 DEF UsesOf
  <2>4. UsesOf(v)'
    BY <1>1, <2>1, <2>2, <2>3 DEF UsesOf
  <2>5. puts[v] + 1 = 1 => redeemed[v] = 0
    BY <2>2 DEF UsesOf
  <2>6. ExchangesOf(v)'
    BY <1>1, <1>3, <2>1, <2>2, <2>5 DEF ExchangesOf, NDel
  <2> QED
    BY <1>4, <2>1, <2>4, <2>6 DEF Uses
<1> QED
  BY <1>5, <1>6

\* What is written without a request at work.
Written(v) ==
  \/ stepUpTOTP(v) \/ createMFAPending(v) \/ PasskeyRegisterBegin(v)
  \/ PasskeyLoginBegin(v) \/ IssueHostedCode(v) \/ Start(v)

LEMMA WrittenJSON ==
  ASSUME NEW v \in Value, Written(v)
  PROVE  UNCHANGED req /\ \E kind \in Kind : SetJSON(v, kind)
BY DEF Written, stepUpTOTP, createMFAPending, PasskeyRegisterBegin, PasskeyLoginBegin,
       IssueHostedCode, Start, SetNew, Kind

LEMMA IssueSteps ==
  ASSUME IInv, NEW p \in Proc, NEW v \in Value, IssueToken(p, v)
  PROVE  Uses'
<1>1. /\ req[p].pc = "issue" /\ \E kind \in Kind : SetJSON(v, kind)
      /\ req' = [req EXCEPT ![p] = Idle]
  BY DEF IssueToken, SetNew, At, Finish, Kind
<1>2. req'[p] = Idle /\ \A q \in Proc \ {p} : req'[q] = req[q]
  BY <1>1 DEF IInv, TypeOK
<1>3. \A q \in Proc, w \in Value : req'[q].v = w => req[q].v = w
  BY <1>2, NoneAssumption DEF Idle
<1>4. \A w \in Value : Deleting(w)' = Deleting(w)
  BY <1>1, <1>2 DEF Deleting, At, Idle
<1> QED
  BY <1>1, <1>3, <1>4, StoreSteps

-----------------------------------------------------------------------------
\* Everything keeps its type, action by action.
LEMMA TypeSteps ==
  ASSUME IInv, Next
  PROVE  TypeOK'
<1>0. TypeOK
  BY DEF IInv
<1> USE <1>0 DEF TypeOK
<1>1. \A p \in Proc, pc \in PC, v \in Value \cup {None} :
        Goes(p, pc, v) => req' \in [Proc -> Req]
  BY DEF Goes, Req
<1>2. \A p \in Proc : Finish(p) => req' \in [Proc -> Req]
  BY <1>1, Going DEF PC
<1>3. \A p \in Proc, v \in Value : Honoured(p, v) => req' \in [Proc -> Req]
  BY <1>1, <1>2, Going DEF Honoured, PC
<1>4. \A v \in Value : (Live(v) /\ Drop(v)) =>
        /\ value' \in [Value -> Stored]
        /\ \A w \in Value : value'[w].st = "none" <=> value[w].st = "none"
  BY DEF Live, Drop, Stored
<1>5. ASSUME NEW p \in Proc, LoginStep(p)
      PROVE  TypeOK'
  <2>1. req' \in [Proc -> Req]
    BY <1>1, <1>5, Unfinished
  <2>2. late' = late \/ Late(p)
    BY <1>5 DEF LoginStep, Login, StepUp, OtherMethod, failCountAtLeast, WrongPassword, LookupFails,
                Fail, RightPassword, limits
  <2>3. late' \in [Key -> Nat]
    BY <2>2 DEF Late
  <2>4. fails' \in Nat /\ guesses' \in Nat /\ lost' \in Nat /\ unread' \in [Key -> Nat]
    <3>1. ASSUME NEW k \in Key, Login(p, k)
          PROVE  UNCHANGED <<fails, guesses, lost>> /\ unread' \in [Key -> Nat]
      BY <3>1 DEF Login
    <3>2. CASE StepUp(p) \/ OtherMethod(p) \/ failCountAtLeast(p) \/ LookupFails(p)
      BY <3>2 DEF StepUp, OtherMethod, failCountAtLeast, LookupFails, limits
    <3>3. CASE WrongPassword(p)
      BY <3>3 DEF WrongPassword
    <3>4. CASE Fail(p)
      BY <3>4 DEF Fail
    <3>5. CASE RightPassword(p)
      BY <3>5 DEF RightPassword, Reset
    <3> QED
      BY <1>5, <3>1, <3>2, <3>3, <3>4, <3>5 DEF LoginStep
  <2>5. UNCHANGED <<risk, locked, lifted, value, puts, redeemed, loose, undeleted>>
    BY <1>5 DEF LoginStep, Login, StepUp, OtherMethod, failCountAtLeast, WrongPassword, LookupFails,
                Fail, RightPassword, limits, values
  <2> QED
    BY <2>1, <2>3, <2>4, <2>5
<1>13. \A k \in Key : Lift(k) =>
         /\ locked' \in [Key -> BOOLEAN] /\ lifted' \in [Key -> BOOLEAN]
         /\ late' \in [Key -> Nat] /\ unread' \in [Key -> Nat]
  BY DEF Lift
<1>6. ASSUME NEW p \in Proc,
             noteLoginFailure(p) \/ SetLock(p) \/ clearLoginFailures(p)
               \/ SecondFactor(p) \/ Abort(p)
      PROVE  TypeOK'
  <2>1. req' \in [Proc -> Req] /\ req[p].key \in Key
    BY <1>1, <1>2, <1>6, Going
    DEF noteLoginFailure, SetLock, clearLoginFailures, SecondFactor, Abort, PC, Req
  <2>2. fails' \in Nat /\ guesses' \in Nat /\ lost' \in Nat
    BY <1>6 DEF noteLoginFailure, SetLock, clearLoginFailures, SecondFactor, Abort, limits
  <2>3. UNCHANGED <<value, puts, redeemed, loose, undeleted>>
    BY <1>6 DEF noteLoginFailure, SetLock, clearLoginFailures, SecondFactor, Abort, values
  <2>4. /\ risk' \in [Key -> Nat] /\ locked' \in [Key -> BOOLEAN] /\ lifted' \in [Key -> BOOLEAN]
        /\ late' \in [Key -> Nat] /\ unread' \in [Key -> Nat]
    <3>1. CASE noteLoginFailure(p)
      BY <2>1, <3>1 DEF noteLoginFailure, Noted
    <3>2. CASE SetLock(p)
      BY <2>1, <3>2 DEF SetLock
    <3>3. CASE clearLoginFailures(p)
      BY <1>13, <2>1, <3>3 DEF clearLoginFailures
    <3>4. CASE SecondFactor(p)
      BY <3>4 DEF SecondFactor, limits
    <3>5. CASE Abort(p)
      BY <2>1, <3>5 DEF Abort
    <3> QED
      BY <1>6, <3>1, <3>2, <3>3, <3>4, <3>5
  <2> QED
    BY <2>1, <2>2, <2>3, <2>4
<1>7. ASSUME Lapse
      PROVE  TypeOK'
  <2>1. UNCHANGED <<value, puts, redeemed, loose, undeleted, req>>
    BY <1>7 DEF Lapse, Unlock, FailWindowEnds, RiskWindowEnds, values
  <2>2. CASE FailWindowEnds
    BY <2>1, <2>2 DEF FailWindowEnds, Reset
  <2>3. ASSUME NEW k \in Key, Unlock(k)
        PROVE  TypeOK'
    BY <1>13, <2>1, <2>3 DEF Unlock
  <2>4. ASSUME NEW k \in Key, RiskWindowEnds(k)
        PROVE  TypeOK'
    BY <2>1, <2>4 DEF RiskWindowEnds
  <2> QED
    BY <1>7, <2>2, <2>3, <2>4 DEF Lapse
<1>8. ASSUME NEW p \in Proc, NEW v \in Value, GetDelJSON(p, v) \/ GetThenDel(p, v)
                                               \/ ExchangeToken(p, v)
      PROVE  TypeOK'
  <2>1. req' \in [Proc -> Req]
    BY <1>1, <1>3, <1>8, Going DEF GetDelJSON, GetThenDel, ExchangeToken, PC
  <2>2. CASE GetDelJSON(p, v)
    BY <2>1, <2>2, <1>4 DEF GetDelJSON, Honoured, Honour, limits
  <2>3. CASE GetThenDel(p, v) \/ ExchangeToken(p, v)
    BY <2>1, <2>3 DEF GetThenDel, ExchangeToken, limits
  <2> QED
    BY <1>8, <2>2, <2>3
<1>9. ASSUME NEW p \in Proc, NEW v \in Value, Del(p, v) \/ Spoil(p, v)
      PROVE  TypeOK'
  <2>1. req' \in [Proc -> Req]
    BY <1>2, <1>3, <1>9 DEF Del, Spoil
  <2>2. value[v].st # "none"
    BY <1>9, Before DEF Del, Spoil, UsesOf
  <2>3. Drop(v) => /\ value' \in [Value -> Stored]
                   /\ \A w \in Value : value'[w].st = "none" <=> value[w].st = "none"
    BY <2>2 DEF Drop, Stored
  <2>4. CASE Del(p, v)
    BY <2>1, <2>3, <2>4 DEF Del, Honoured, Honour, limits
  <2>5. CASE Spoil(p, v)
    BY <2>1, <2>3, <2>5 DEF Spoil, limits
  <2> QED
    BY <1>9, <2>4, <2>5
<1>11. ASSUME NEW v \in Value, NEW kind \in Kind, SetJSON(v, kind), req' \in [Proc -> Req]
       PROVE  TypeOK'
  BY <1>11 DEF SetJSON, Stored, limits
<1>10. ASSUME NEW v \in Value, Expire(v) \/ Written(v)
       PROVE  TypeOK'
  <2>1. CASE Expire(v)
    BY <1>4, <2>1 DEF Expire, limits
  <2>2. CASE Written(v)
    BY <1>11, <2>2, WrittenJSON
  <2> QED
    BY <1>10, <2>1, <2>2
<1>12. ASSUME NEW p \in Proc, NEW v \in Value, IssueToken(p, v)
       PROVE  TypeOK'
  <2>1. req' \in [Proc -> Req] /\ SetJSON(v, "token")
    BY <1>2, <1>12 DEF IssueToken, SetNew
  <2> QED
    BY <1>11, <2>1 DEF Kind
<1> QED
  BY <1>5, <1>6, <1>7, <1>8, <1>9, <1>10, <1>12 DEF Next, LoginStep, Lapse, Written

\* Every step keeps the inductive invariant.
LEMMA NextIInv ==
  ASSUME IInv, Next
  PROVE  IInv'
<1>1. TypeOK'
  BY TypeSteps
<1>2. ASSUME NEW p \in Proc, LoginStep(p)
      PROVE  IInv'
  <2>1. \E pc \in PC : Goes(p, pc, None)
    BY <1>2, Unfinished DEF IInv
  <2>2. UNCHANGED values
    BY <1>2 DEF LoginStep, Login, StepUp, OtherMethod, failCountAtLeast, WrongPassword, LookupFails,
                Fail, RightPassword
  <2>3. Uses'
    BY <2>1, <2>2, ValuesAside
  <2> QED
    BY <1>1, <1>2, <2>3, LoginSteps DEF IInv
<1>3. ASSUME NEW p \in Proc,
             noteLoginFailure(p) \/ SetLock(p) \/ clearLoginFailures(p) \/ Abort(p)
      PROVE  IInv'
  <2>1. \E pc \in PC : Goes(p, pc, None)
    BY <1>3, Going DEF IInv, noteLoginFailure, SetLock, clearLoginFailures, Abort, PC
  <2>2. UNCHANGED values
    BY <1>3 DEF noteLoginFailure, SetLock, clearLoginFailures, Abort
  <2>3. Uses'
    BY <2>1, <2>2, ValuesAside
  <2> QED
    BY <1>1, <1>3, <2>3, LockSteps DEF IInv
<1>4. ASSUME NEW p \in Proc, SecondFactor(p)
      PROVE  IInv'
  <2>1. PICK pc \in {"clear", "note"} : Goes(p, pc, None)
    BY <1>4, Going DEF IInv, SecondFactor
  <2>2. UNCHANGED <<limits, values>> /\ req[p].pc = "second"
    BY <1>4 DEF SecondFactor, At
  <2>3. Uses'
    BY <2>1, <2>2, ValuesAside DEF PC
  <2>4. PICK r \in Req : req' = [req EXCEPT ![p] = r] /\ r.pc = pc
    BY <2>1, Gone DEF IInv, PC
  <2>5. Attempts' /\ Latecomers' /\ LockFollows'
    BY <2>2, <2>4, Aside DEF IInv
  <2> QED
    BY <1>1, <2>3, <2>5 DEF IInv
<1>5. ASSUME Lapse
      PROVE  IInv'
  <2>1. UNCHANGED <<value, puts, redeemed, loose, undeleted, req>>
    BY <1>5 DEF Lapse, Unlock, FailWindowEnds, RiskWindowEnds, values
  <2>2. \A v \in Value : NDel(v)' = NDel(v)
    BY <2>1 DEF NDel, Deleting, At
  <2>3. Uses'
    BY <2>1, <2>2 DEF IInv, Uses, UsesOf, ExchangesOf, Live
  <2> QED
    BY <1>1, <1>5, <2>3, LapseSteps DEF IInv
<1>6. ASSUME NEW p \in Proc, NEW v \in Value,
             GetDelJSON(p, v) \/ GetThenDel(p, v) \/ ExchangeToken(p, v)
               \/ Del(p, v) \/ Spoil(p, v)
      PROVE  IInv'
  <2>1. Uses'
    BY <1>6, GetDelSteps, GetSteps, DelSteps, SpoilSteps
  <2>2. UNCHANGED limits /\ req[p].pc \in {"idle", "del", "spoil"}
    BY <1>6 DEF GetDelJSON, GetThenDel, ExchangeToken, Del, Spoil, At
  <2>3. UNCHANGED req \/ \E pc \in {"second", "idle", "del", "spoil"}, u \in {None, v} : Goes(p, pc, u)
    BY <1>6, Going DEF IInv, GetDelJSON, GetThenDel, ExchangeToken, Del, Spoil, Honoured
  <2>4. PICK r \in Req : /\ req' = [req EXCEPT ![p] = r]
                         /\ r.pc \notin {"fail", "compare", "count"}
    <3>1. CASE UNCHANGED req
      BY <2>2, <3>1 DEF IInv, TypeOK
    <3>2. ASSUME NEW pc \in {"second", "idle", "del", "spoil"}, NEW u \in {None, v}, Goes(p, pc, u)
          PROVE  \E r \in Req : /\ req' = [req EXCEPT ![p] = r]
                                 /\ r.pc \notin {"fail", "compare", "count"}
      BY <3>2, Gone DEF IInv, PC
    <3> QED
      BY <2>3, <3>1, <3>2
  <2>5. Attempts' /\ Latecomers' /\ LockFollows'
    BY <2>2, <2>4, Aside DEF IInv
  <2> QED
    BY <1>1, <2>1, <2>5 DEF IInv
<1>7. ASSUME NEW v \in Value, Expire(v) \/ Written(v)
      PROVE  IInv'
  <2>1. UNCHANGED req /\ (Expire(v) \/ \E kind \in Kind : SetJSON(v, kind))
    BY <1>7, WrittenJSON DEF Expire
  <2>2. UNCHANGED limits
    BY <2>1 DEF Expire, SetJSON
  <2>3. \A w \in Value : Deleting(w)' = Deleting(w)
    BY <2>1 DEF Deleting, At
  <2>4. Uses'
    BY <2>1, <2>3, StoreSteps
  <2>5. Attempts' /\ Latecomers' /\ LockFollows'
    BY <2>1, <2>2 DEF IInv, Attempts, Latecomers, LateUnder, LockFollows, limits,
                NFail, NCompare, NPassed, Failing, Comparing, Passed, At
  <2> QED
    BY <1>1, <2>4, <2>5 DEF IInv
<1>8. ASSUME NEW p \in Proc, NEW v \in Value, IssueToken(p, v)
      PROVE  IInv'
  <2>1. UNCHANGED limits /\ req[p].pc = "issue" /\ Finish(p)
    BY <1>8 DEF IssueToken, SetNew, SetJSON, At
  <2>2. PICK r \in Req : req' = [req EXCEPT ![p] = r] /\ r.pc = "idle"
    BY <2>1, Going, Gone DEF IInv, PC
  <2>3. Attempts' /\ Latecomers' /\ LockFollows'
    BY <2>1, <2>2, Aside DEF IInv
  <2> QED
    BY <1>1, <1>8, <2>3, IssueSteps DEF IInv
<1> QED
  BY <1>2, <1>3, <1>4, <1>5, <1>6, <1>7, <1>8 DEF Next, LoginStep, Lapse, Written

LEMMA StutterIInv ==
  ASSUME IInv, UNCHANGED vars
  PROVE  IInv'
<1>1. UNCHANGED <<fails, risk, locked, guesses, lost, late, unread, lifted>> /\ UNCHANGED req
      /\ UNCHANGED <<value, puts, redeemed, loose, undeleted>>
  BY DEF vars, limits, values
<1>2. TypeOK'
  BY <1>1 DEF IInv, TypeOK
<1>3. Attempts' /\ Latecomers' /\ LockFollows'
  BY <1>1 DEF IInv, Attempts, Latecomers, LateUnder, LockFollows,
              NFail, NCompare, NPassed, Failing, Comparing, Passed, At
<1>4. \A v \in Value : NDel(v)' = NDel(v)
  BY <1>1 DEF NDel, Deleting, At
<1>5. Uses'
  BY <1>1, <1>4 DEF IInv, Uses, UsesOf, ExchangesOf, Live
<1> QED
  BY <1>2, <1>3, <1>5 DEF IInv

LEMMA InitIInv == Init => IInv
<1> SUFFICES ASSUME Init PROVE IInv
  OBVIOUS
<1>1. TypeOK
  BY DEF Init, TypeOK, Idle, Req, PC, Stored, Kind, Key
<1>2. Failing = {} /\ Comparing = {} /\ (\A k \in Key : Passed(k) = {}) /\ \A v \in Value : Deleting(v) = {}
  BY DEF Init, Idle, Failing, Comparing, Passed, Deleting, At
<1>3. NFail = 0 /\ NCompare = 0 /\ (\A k \in Key : NPassed(k) = 0) /\ \A v \in Value : NDel(v) = 0
  BY <1>2, FS_EmptySet DEF NFail, NCompare, NPassed, NDel
<1>4. Attempts /\ Latecomers
  BY <1>3, ProcCount, LimitAssumption DEF Init, Attempts, Latecomers, LateUnder
<1>5. LockFollows
  BY LimitAssumption DEF Init, LockFollows
<1>6. Uses
  BY <1>3, ProcCount, NoneAssumption DEF Init, Idle, Uses, UsesOf, ExchangesOf, Live
<1> QED
  BY <1>1, <1>4, <1>5, <1>6 DEF IInv

\* The inductive invariant holds throughout.
THEOREM Invariant == Spec => []IInv
<1>1. IInv /\ [Next]_vars => IInv'
  BY NextIInv, StutterIInv
<1> QED
  BY <1>1, InitIInv, PTL DEF Spec

-----------------------------------------------------------------------------
\* The counters, values and requests keep their types.
THEOREM TypeCorrect == Spec => []TypeOK
<1>1. IInv => TypeOK
  BY DEF IInv
<1> QED
  BY <1>1, Invariant, PTL

\* PasswordAuth.Verify lets no more passwords be compared in one window than
\* the limit and the concurrent requests allow.
THEOREM GuessesLimited == Spec => []GuessesBounded
<1>1. IInv => GuessesBounded
  <2> SUFFICES ASSUME IInv PROVE GuessesBounded
    OBVIOUS
  <2>1. NCompare \in Nat /\ Cardinality(Proc) \in Nat /\ Limit \in Nat
        /\ guesses \in Nat /\ lost \in Nat
    BY OnSets, ProcCount, LimitAssumption DEF IInv, TypeOK
  <2> QED
    BY <2>1 DEF IInv, Attempts, GuessesBounded
<1> QED
  BY <1>1, Invariant, PTL

\* noteLoginFailure: too many failures noted under one string lock that string, for
\* the window they fall in; each spelling and the user_id have a lock of their own.
THEOREM FailuresLock == Spec => []LockFollows
<1>1. IInv => LockFollows
  BY DEF IInv
<1> QED
  BY <1>1, Invariant, PTL

\* assertNotLocked: while the lock of a string holds, of the logins that send that
\* very string only latecomers compare a password.
THEOREM LockHolds == Spec => []LockStopsGuesses
<1>1. IInv => LockStopsGuesses
  <2> SUFFICES ASSUME IInv, NEW k \in Key, locked[k]
               PROVE  late[k] <= Cardinality(Proc) + unread[k]
    BY DEF LockStopsGuesses
  <2>1. NPassed(k) \in Nat /\ Cardinality(Proc) \in Nat /\ late[k] \in Nat /\ unread[k] \in Nat
    BY OnSets, ProcCount DEF IInv, TypeOK
  <2>2. LateUnder(k)
    BY DEF IInv, Latecomers
  <2> QED
    BY <2>1, <2>2 DEF LateUnder
<1> QED
  BY <1>1, Invariant, PTL

\* GetDelJSON: what is only ever taken by GETDEL is honoured once.
THEOREM HonouredOnce == Spec => []TakenOnce
<1>1. IInv => TakenOnce
  BY DEF IInv, Uses, UsesOf, TakenOnce
<1> QED
  BY <1>1, Invariant, PTL

\* ExchangeToken: an authorization code is worth no more than the overlapping
\* requests and the deletions that fail.
THEOREM ExchangesLimited == Spec => []ExchangesBounded
<1>1. IInv => ExchangesBounded
  <2> SUFFICES ASSUME IInv, NEW v \in Value, puts[v] = 1
               PROVE  redeemed[v] <= Cardinality(Proc) + undeleted[v]
    BY DEF ExchangesBounded
  <2>1. NDel(v) \in Nat
    BY OnSets
  <2> QED
    BY <2>1, Before DEF ExchangesOf
<1> QED
  BY <1>1, Invariant, PTL
=============================================================================
