------------------------- MODULE OtpChallengeProofs -------------------------
(***************************************************************************)
(* Proofs about OtpChallenge, for any identities, challenges and finitely  *)
(* many concurrent requests, any gates, limits and bounds.                 *)
(***************************************************************************)
EXTENDS OtpChallenge, FiniteSetTheorems, TLAPS

\* A request asks a gate that exists, for someone.
Requests ==
  \A p \in Proc :
    /\ At(p, "gate") => req[p].at \in 1 .. Len(Gates)
    /\ At(p, "gate") \/ At(p, "create") => req[p].identity \in Identity

\* Nothing has become of a code that does not exist.
Fresh ==
  /\ IsFiniteSet(Created)
  /\ \A c \in Challenge \ Created :
       seen[c].wrong = 0 /\ seen[c].lost = 0 /\ seen[c].accepted = 0

\* A wrong code is in the row's count, or lost, or on its way to either.
Guesses ==
  \A c \in Created :
    seen[c].wrong = row[c].try_count + seen[c].lost + Cardinality(Busy(c, "increment"))

\* The requests with a key that have gate g behind them and no code sent yet.
Past(p, g) ==
  \/ At(p, "create") \/ At(p, "send")
  \/ At(p, "gate") /\ \E i \in 1 .. req[p].at - 1 : Gates[i] = g

Whose(p) == IF At(p, "send") THEN row[req[p].ch].identity ELSE req[p].identity

Beyond(g, k) == {p \in Proc : Past(p, g) /\ KeyOf(g, Whose(p)) = k}

Admitted(g, n) == IF n <= Limit[g] THEN n ELSE Limit[g]

Budget(g, k) == Limit[g] * ended[g][k] + Admitted(g, used[g][k]) + slipped[g][k]

\* Each code sent, or about to be, has its own place in the budget.
WithinBudget ==
  \A g \in Gate, k \in Key :
    Cardinality(SentFor(g, k)) + Cardinality(Beyond(g, k)) <= Budget(g, k)

\* The inductive invariant.
IInv == /\ TypeOK /\ Requests /\ Fresh
        /\ Guesses /\ GuessesBounded /\ ReplayBounded
        /\ WithinBudget

-----------------------------------------------------------------------------
\* Sets of requests, and of the codes sent, are finite.
LEMMA ProcSets ==
  ASSUME NEW S \in SUBSET Proc
  PROVE  IsFiniteSet(S) /\ Cardinality(S) \in Nat /\ Cardinality(S) <= Cardinality(Proc)
BY ProcAssumption, FS_Subset, FS_CardinalityType

LEMMA SentFinite ==
  ASSUME Fresh, NEW g \in Gate, NEW k \in Key
  PROVE  IsFiniteSet(SentFor(g, k)) /\ Cardinality(SentFor(g, k)) \in Nat
<1>1. SentFor(g, k) \in SUBSET Created
  BY DEF SentFor
<1> QED
  BY <1>1, FS_Subset, FS_CardinalityType DEF Fresh

\* The limits and counters that make up a budget are numbers.
LEMMA BudgetNat ==
  ASSUME TypeOK, NEW g \in Gate, NEW k \in Key
  PROVE  /\ Limit[g] \in Nat /\ ended[g][k] \in Nat /\ used[g][k] \in Nat
         /\ slipped[g][k] \in Nat /\ Admitted(g, used[g][k]) \in Nat
         /\ Limit[g] * ended[g][k] \in Nat /\ Budget(g, k) \in Nat
<1>1. Limit[g] \in Nat /\ ended[g][k] \in Nat /\ used[g][k] \in Nat /\ slipped[g][k] \in Nat
  BY LimitAssumption DEF TypeOK
<1>2. Limit[g] * ended[g][k] \in Nat
  BY <1>1
<1> QED
  BY <1>1, <1>2 DEF Budget, Admitted

\* The budget of codes sent bounds the codes sent.
LEMMA Consequences == IInv => SendsWithinLimit
<1> SUFFICES ASSUME IInv, NEW g \in Gate, NEW k \in Key
             PROVE  Cardinality(SentFor(g, k)) <= Limit[g] * (ended[g][k] + 1) + slipped[g][k]
  BY DEF SendsWithinLimit
<1>1. Beyond(g, k) \in SUBSET Proc
  BY DEF Beyond
<1>2. Cardinality(Beyond(g, k)) \in Nat /\ Cardinality(SentFor(g, k)) \in Nat
  BY <1>1, ProcSets, SentFinite DEF IInv
<1>3. Cardinality(SentFor(g, k)) <= Budget(g, k)
  BY <1>2, BudgetNat DEF IInv, WithinBudget
<1>4. /\ Limit[g] \in Nat /\ ended[g][k] \in Nat /\ slipped[g][k] \in Nat
      /\ Admitted(g, used[g][k]) \in Nat /\ Limit[g] * ended[g][k] \in Nat
  BY BudgetNat DEF IInv
<1>5. Admitted(g, used[g][k]) <= Limit[g]
  BY <1>4, BudgetNat DEF IInv, Admitted
<1>6. Limit[g] * (ended[g][k] + 1) = Limit[g] * ended[g][k] + Limit[g]
  BY <1>4
<1> QED
  BY <1>2, <1>3, <1>4, <1>5, <1>6 DEF Budget

-----------------------------------------------------------------------------
\* At the start there are no requests and no codes.
LEMMA InitIInv == Init => IInv
<1> SUFFICES ASSUME Init PROVE IInv
  OBVIOUS
<1>1. Created = {} /\ \A p \in Proc : req[p] = Idle
  BY DEF Init, Created
<1>2. \A c : Busy(c, "increment") = {} /\ Busy(c, "consume") = {}
  BY <1>1 DEF Busy, Idle
<1>3. TypeOK
  <2>1. used \in [Gate -> [Key -> Nat]] /\ ended \in [Gate -> [Key -> Nat]]
        /\ slipped \in [Gate -> [Key -> Nat]]
    BY DEF Init
  <2>2. req \in [Proc -> Req]
    BY DEF Init, Idle, Req, PC
  <2>3. seen \in [Challenge -> Tally]
    BY DEF Init, Tally
  <2> QED
    BY <1>1, <2>1, <2>2, <2>3 DEF TypeOK, Idle
<1>4. Requests /\ Fresh
  BY <1>1, FS_EmptySet DEF Requests, Fresh, At, Idle, Init
<1>5. Guesses /\ ReplayBounded
  BY <1>1 DEF Guesses, ReplayBounded
<1>6. GuessesBounded
  <2>1. Cardinality(Proc) \in Nat /\ MaxTries \in Nat \ {0}
    BY ProcAssumption, FS_CardinalityType, LimitAssumption
  <2>2. \A c \in Challenge : seen[c].wrong = 0 /\ seen[c].lost = 0
    BY DEF Init
  <2> QED
    BY <2>1, <2>2 DEF GuessesBounded
<1>7. WithinBudget
  <2> SUFFICES ASSUME NEW g \in Gate, NEW k \in Key
               PROVE  Cardinality(SentFor(g, k)) + Cardinality(Beyond(g, k)) <= Budget(g, k)
    BY DEF WithinBudget
  <2>1. SentFor(g, k) = {} /\ Beyond(g, k) = {}
    BY <1>1 DEF SentFor, Beyond, Past, At, Idle
  <2> QED
    BY <1>3, <2>1, FS_EmptySet, BudgetNat
<1> QED
  BY <1>3, <1>4, <1>5, <1>6, <1>7 DEF IInv

-----------------------------------------------------------------------------
\* Steps of the sending half leave codes and the requests that enter them alone.
LEMMA SendingKeepsCodes ==
  ASSUME IInv, seen' = seen,
         Created \subseteq Created', IsFiniteSet(Created'),
         \A c \in Created : /\ row'[c].try_count = row[c].try_count
                            /\ row'[c].consumed = row[c].consumed,
         \A c \in Created' \ Created : /\ row'[c].try_count = 0
                                       /\ row'[c].consumed = FALSE
                                       /\ c \in Challenge,
         \A c \in Challenge : /\ Busy(c, "increment")' = Busy(c, "increment")
                              /\ Busy(c, "consume")' = Busy(c, "consume")
  PROVE  Fresh' /\ Guesses' /\ GuessesBounded' /\ ReplayBounded'
<1>1. \A c \in Created' \ Created :
        /\ Busy(c, "increment")' = {} /\ Busy(c, "consume")' = {}
        /\ seen[c].wrong = 0 /\ seen[c].lost = 0 /\ seen[c].accepted = 0
  BY DEF IInv, TypeOK, Fresh, Busy
<1>2. Fresh'
  BY DEF IInv, Fresh
<1>3. Created \subseteq Challenge
  BY DEF IInv, TypeOK
<1>4. Guesses'
  <2> SUFFICES ASSUME NEW c \in Created'
               PROVE  seen'[c].wrong = row'[c].try_count + seen'[c].lost
                                         + Cardinality(Busy(c, "increment")')
    BY DEF Guesses
  <2>1. CASE c \in Created
    <3>1. /\ row'[c].try_count = row[c].try_count /\ seen'[c] = seen[c]
          /\ Busy(c, "increment")' = Busy(c, "increment")
      BY <2>1, <1>3
    <3>2. seen[c].wrong = row[c].try_count + seen[c].lost + Cardinality(Busy(c, "increment"))
      BY <2>1 DEF IInv, Guesses
    <3> QED
      BY <3>1, <3>2
  <2>2. CASE c \notin Created
    <3>1. /\ Busy(c, "increment")' = {} /\ row'[c].try_count = 0
          /\ seen'[c].wrong = 0 /\ seen'[c].lost = 0
      BY <2>2, <1>1
    <3>2. Cardinality(Busy(c, "increment")') = 0
      BY <3>1, FS_EmptySet
    <3> QED
      BY <3>1, <3>2
  <2> QED
    BY <2>1, <2>2
<1>5. GuessesBounded'
  BY DEF IInv, GuessesBounded
<1>6. ReplayBounded'
  <2> SUFFICES ASSUME NEW c \in Created'
               PROVE  /\ seen'[c].accepted > 0 => row'[c].consumed
                      /\ seen'[c].accepted
                           + (IF row'[c].consumed THEN Cardinality(Busy(c, "consume")') ELSE 0)
                           <= Cardinality(Proc)
    BY DEF ReplayBounded
  <2>1. CASE c \in Created
    BY <2>1, <1>3 DEF IInv, ReplayBounded
  <2>2. CASE c \notin Created
    BY <2>2, <1>1, ProcAssumption, FS_CardinalityType
  <2> QED
    BY <2>1, <2>2
<1> QED
  BY <1>2, <1>4, <1>5, <1>6

\* Steps of the entering half send nothing.
LEMMA EnteringKeepsBudget ==
  ASSUME IInv, UNCHANGED <<used, ended, slipped>>, Created' = Created,
         \A c \in Created : /\ row'[c].identity = row[c].identity
                            /\ row'[c].known = row[c].known,
         \A g \in Gate, k \in Key : Beyond(g, k)' = Beyond(g, k)
  PROVE  WithinBudget'
<1>1. \A g \in Gate, k \in Key : SentFor(g, k)' = SentFor(g, k) /\ Budget(g, k)' = Budget(g, k)
  BY DEF SentFor, Budget
<1> QED
  BY <1>1 DEF IInv, WithinBudget

\* For one gate and key: requests may drop out, the budget may grow.
LEMMA BudgetKept ==
  ASSUME IInv, NEW g \in Gate, NEW k \in Key,
         SentFor(g, k)' = SentFor(g, k), Beyond(g, k)' \subseteq Beyond(g, k),
         Budget(g, k)' \in Nat, Budget(g, k)' >= Budget(g, k)
  PROVE  Cardinality(SentFor(g, k)') + Cardinality(Beyond(g, k)') <= Budget(g, k)'
<1>1. Beyond(g, k) \in SUBSET Proc
  BY DEF Beyond
<1>2. /\ IsFiniteSet(Beyond(g, k)) /\ Cardinality(Beyond(g, k)) \in Nat
      /\ Cardinality(SentFor(g, k)) \in Nat
  BY <1>1, ProcSets, SentFinite DEF IInv
<1>3. Cardinality(Beyond(g, k)') \in Nat /\ Cardinality(Beyond(g, k)') <= Cardinality(Beyond(g, k))
  BY <1>2, FS_Subset, FS_CardinalityType
<1>4. Budget(g, k) \in Nat /\ Cardinality(SentFor(g, k)) + Cardinality(Beyond(g, k)) <= Budget(g, k)
  BY BudgetNat DEF IInv, WithinBudget
<1> QED
  BY <1>2, <1>3, <1>4

\* One request gets past the gate and the budget pays for it.
LEMMA BudgetSpent ==
  ASSUME IInv, NEW g \in Gate, NEW k \in Key, NEW p \in Proc,
         SentFor(g, k)' = SentFor(g, k), Beyond(g, k)' \subseteq Beyond(g, k) \cup {p},
         Budget(g, k)' = Budget(g, k) + 1
  PROVE  Cardinality(SentFor(g, k)') + Cardinality(Beyond(g, k)') <= Budget(g, k)'
<1>1. Beyond(g, k) \in SUBSET Proc
  BY DEF Beyond
<1>2. /\ IsFiniteSet(Beyond(g, k)) /\ Cardinality(Beyond(g, k)) \in Nat
      /\ Cardinality(SentFor(g, k)) \in Nat
  BY <1>1, ProcSets, SentFinite DEF IInv
<1>3. /\ IsFiniteSet(Beyond(g, k) \cup {p})
      /\ Cardinality(Beyond(g, k) \cup {p}) \in Nat
      /\ Cardinality(Beyond(g, k) \cup {p}) <= Cardinality(Beyond(g, k)) + 1
  BY <1>2, FS_AddElement
<1>4. Cardinality(Beyond(g, k)') \in Nat
      /\ Cardinality(Beyond(g, k)') <= Cardinality(Beyond(g, k) \cup {p})
  BY <1>3, FS_Subset, FS_CardinalityType
<1>5. Budget(g, k) \in Nat /\ Cardinality(SentFor(g, k)) + Cardinality(Beyond(g, k)) <= Budget(g, k)
  BY BudgetNat DEF IInv, WithinBudget
<1> QED
  BY <1>2, <1>3, <1>4, <1>5

\* A request beyond the gate turns into a code sent.
LEMMA BudgetConverted ==
  ASSUME IInv, NEW g \in Gate, NEW k \in Key, NEW p \in Beyond(g, k), NEW c,
         SentFor(g, k)' \subseteq SentFor(g, k) \cup {c},
         Beyond(g, k)' \subseteq Beyond(g, k) \ {p},
         Budget(g, k)' = Budget(g, k)
  PROVE  Cardinality(SentFor(g, k)') + Cardinality(Beyond(g, k)') <= Budget(g, k)'
<1>1. Beyond(g, k) \in SUBSET Proc
  BY DEF Beyond
<1>2. /\ IsFiniteSet(Beyond(g, k)) /\ Cardinality(Beyond(g, k)) \in Nat
      /\ IsFiniteSet(SentFor(g, k)) /\ Cardinality(SentFor(g, k)) \in Nat
  BY <1>1, ProcSets, SentFinite DEF IInv
<1>3. /\ IsFiniteSet(Beyond(g, k) \ {p})
      /\ Cardinality(Beyond(g, k) \ {p}) = Cardinality(Beyond(g, k)) - 1
      /\ IsFiniteSet(SentFor(g, k) \cup {c})
      /\ Cardinality(SentFor(g, k) \cup {c}) \in Nat
      /\ Cardinality(SentFor(g, k) \cup {c}) <= Cardinality(SentFor(g, k)) + 1
  <2>1. /\ IsFiniteSet(Beyond(g, k) \ {p})
        /\ Cardinality(Beyond(g, k) \ {p}) = Cardinality(Beyond(g, k)) - 1
    BY <1>2, FS_RemoveElement
  <2>2. /\ IsFiniteSet(SentFor(g, k) \cup {c})
        /\ Cardinality(SentFor(g, k) \cup {c})
             = IF c \in SentFor(g, k) THEN Cardinality(SentFor(g, k))
                                      ELSE Cardinality(SentFor(g, k)) + 1
    BY <1>2, FS_AddElement
  <2> QED
    BY <1>2, <2>1, <2>2
<1>4. /\ Cardinality(Beyond(g, k)') \in Nat
      /\ Cardinality(Beyond(g, k)') <= Cardinality(Beyond(g, k)) - 1
  BY <1>3, FS_Subset, FS_CardinalityType
<1>5. /\ Cardinality(SentFor(g, k)') \in Nat
      /\ Cardinality(SentFor(g, k)') <= Cardinality(SentFor(g, k)) + 1
  BY <1>2, <1>3, FS_Subset, FS_CardinalityType
<1>6. Budget(g, k) \in Nat /\ Cardinality(SentFor(g, k)) + Cardinality(Beyond(g, k)) <= Budget(g, k)
  BY BudgetNat DEF IInv, WithinBudget
<1> QED
  BY <1>2, <1>4, <1>5, <1>6

-----------------------------------------------------------------------------
\* What a step may leave in a request.
Sound(r) ==
  /\ r \in Req
  /\ r.pc = "gate" => r.at \in 1 .. Len(Gates)
  /\ r.pc \in {"gate", "create"} => r.identity \in Identity

\* One request moves on; the others stay where they are.
LEMMA RequestStep ==
  ASSUME IInv, NEW p \in Proc, NEW r, Sound(r), req' = [req EXCEPT ![p] = r],
         Created \subseteq Created',
         r.pc \in {"send", "increment", "consume"} => r.ch \in Created'
  PROVE  /\ req' \in [Proc -> Req] /\ Requests'
         /\ \A q \in Proc : req'[q].pc \in {"send", "increment", "consume"} => req'[q].ch \in Created'
         /\ req'[p] = r /\ \A q \in Proc \ {p} : req'[q] = req[q]
<1>1. req \in [Proc -> Req]
  BY DEF IInv, TypeOK
<1>2. req'[p] = r /\ \A q \in Proc \ {p} : req'[q] = req[q]
  BY <1>1
<1>3. req' \in [Proc -> Req]
  BY <1>1 DEF Sound
<1>4. Requests'
  BY <1>2 DEF IInv, Requests, Sound, At
<1>5. \A q \in Proc : req'[q].pc \in {"send", "increment", "consume"} => req'[q].ch \in Created'
  BY <1>2 DEF IInv, TypeOK
<1> QED
  BY <1>2, <1>3, <1>4, <1>5

LEMMA IdleSound == Sound(Idle) /\ Idle.pc = "idle"
  BY DEF Sound, Idle, Req, PC

\* A request that passes its gate comes to the next, or to the insert.
LEMMA PassStep ==
  ASSUME IInv, NEW p \in Proc, At(p, "gate"), Pass(p)
  PROVE  \E r : /\ Sound(r) /\ req' = [req EXCEPT ![p] = r]
               /\ r.identity = req[p].identity
               /\ \/ r.pc = "create" /\ req[p].at = Len(Gates)
                  \/ r.pc = "gate" /\ r.at = req[p].at + 1
<1>1. /\ req[p] \in Req /\ req[p].at \in 1 .. Len(Gates) /\ req[p].identity \in Identity
      /\ Len(Gates) \in Nat /\ req \in [Proc -> Req]
  BY GatesAssumption DEF IInv, TypeOK, Requests
<1>2. CASE req[p].at = Len(Gates)
  <2> DEFINE r == [req[p] EXCEPT !.pc = "create"]
  <2>1. req' = [req EXCEPT ![p] = r]
    BY <1>1, <1>2 DEF Pass
  <2>2. Sound(r) /\ r.pc = "create" /\ r.identity = req[p].identity
    BY <1>1 DEF Sound, Req, PC
  <2> QED
    BY <1>2, <2>1, <2>2
<1>3. CASE req[p].at # Len(Gates)
  <2> DEFINE r == [req[p] EXCEPT !.at = @ + 1]
  <2>1. req' = [req EXCEPT ![p] = r]
    BY <1>1, <1>3 DEF Pass
  <2>2. Sound(r) /\ r.pc = "gate" /\ r.identity = req[p].identity /\ r.at = req[p].at + 1
    BY <1>1, <1>3 DEF Sound, Req, PC, At
  <2> QED
    BY <2>1, <2>2
<1> QED
  BY <1>2, <1>3

\* Passing puts a request beyond that gate and no other.
LEMMA PassBeyond ==
  ASSUME IInv, NEW p \in Proc, At(p, "gate"), Pass(p), row' = row,
         NEW g \in Gate, NEW k \in Key
  PROVE  /\ Beyond(g, k)' \subseteq Beyond(g, k) \cup {p}
         /\ g # GateOf(p) \/ k # KeyAt(p) => Beyond(g, k)' \subseteq Beyond(g, k)
<1>1. PICK r : /\ Sound(r) /\ req' = [req EXCEPT ![p] = r]
               /\ r.identity = req[p].identity
               /\ \/ r.pc = "create" /\ req[p].at = Len(Gates)
                  \/ r.pc = "gate" /\ r.at = req[p].at + 1
  BY PassStep
<1>2. req'[p] = r /\ \A q \in Proc \ {p} : req'[q] = req[q]
  BY <1>1 DEF IInv, TypeOK
<1>3. \A q \in Proc \ {p} : q \in Beyond(g, k)' <=> q \in Beyond(g, k)
  BY <1>2 DEF Beyond, Past, Whose, At
<1>4. req[p].at \in 1 .. Len(Gates) /\ Len(Gates) \in Nat
  BY GatesAssumption DEF IInv, Requests
<1>5. ASSUME p \in Beyond(g, k)' PROVE (g = GateOf(p) /\ k = KeyAt(p)) \/ p \in Beyond(g, k)
  <2>1. KeyOf(g, req[p].identity) = k
    BY <1>1, <1>2, <1>5 DEF Beyond, Whose, At
  <2>2. PICK i \in 1 .. Len(Gates) : Gates[i] = g
    BY DEF Gate
  <2>3. \E j \in 1 .. req[p].at : Gates[j] = g
    <3>1. CASE r.pc = "create" /\ req[p].at = Len(Gates)
      BY <2>2, <3>1
    <3>2. CASE r.pc = "gate" /\ r.at = req[p].at + 1
      <4>1. \E j \in 1 .. r.at - 1 : Gates[j] = g
        BY <1>2, <1>5, <3>2 DEF Beyond, Past, At
      <4> QED
        BY <1>4, <3>2, <4>1
    <3> QED
      BY <1>1, <3>1, <3>2
  <2>4. PICK j \in 1 .. req[p].at : Gates[j] = g
    BY <2>3
  <2>5. CASE j = req[p].at
    BY <2>1, <2>4, <2>5 DEF GateOf, KeyAt
  <2>6. CASE j # req[p].at
    <3>1. j \in 1 .. req[p].at - 1
      BY <1>4, <2>6
    <3> QED
      BY <2>1, <2>4, <3>1 DEF Beyond, Past, Whose, At
  <2> QED
    BY <2>5, <2>6
<1>6. Beyond(g, k)' \subseteq Proc
  BY DEF Beyond
<1> QED
  BY <1>3, <1>5, <1>6

-----------------------------------------------------------------------------
Sending == {"idle", "gate", "create", "send"}

\* A step of a request that sends leaves those that enter a code alone.
LEMMA SendingStep ==
  ASSUME IInv, NEW p \in Proc, NEW r, Sound(r), req' = [req EXCEPT ![p] = r],
         req[p].pc \in Sending, r.pc \in Sending,
         seen' = seen, row' = row,
         r.pc = "send" => r.ch \in Created,
         used' \in [Gate -> [Key -> Nat]], slipped' \in [Gate -> [Key -> Nat]], ended' = ended,
         \A g \in Gate, k \in Key :
           Cardinality(SentFor(g, k)') + Cardinality(Beyond(g, k)') <= Budget(g, k)'
  PROVE  IInv'
<1>1. Created' = Created
  BY DEF Created
<1>2. /\ req' \in [Proc -> Req] /\ Requests'
      /\ \A q \in Proc : req'[q].pc \in {"send", "increment", "consume"} => req'[q].ch \in Created'
      /\ req'[p] = r /\ \A q \in Proc \ {p} : req'[q] = req[q]
  BY <1>1, RequestStep DEF Sending
<1>3. TypeOK'
  BY <1>1, <1>2 DEF IInv, TypeOK
<1>4. \A c \in Challenge : /\ Busy(c, "increment")' = Busy(c, "increment")
                           /\ Busy(c, "consume")' = Busy(c, "consume")
  BY <1>2 DEF Busy, Sending
<1>5. Fresh' /\ Guesses' /\ GuessesBounded' /\ ReplayBounded'
  BY <1>1, <1>4, SendingKeepsCodes DEF IInv, Fresh
<1>6. WithinBudget'
  BY DEF WithinBudget
<1> QED
  BY <1>2, <1>3, <1>5, <1>6 DEF IInv

\* A step that only takes a request back costs nothing.
LEMMA QuietStep ==
  ASSUME IInv, NEW p \in Proc, NEW r, Sound(r), req' = [req EXCEPT ![p] = r],
         req[p].pc \in Sending, r.pc = "idle" \/ (r.pc = "gate" /\ r.at = 1),
         seen' = seen, row' = row, slipped' = slipped, ended' = ended,
         used' \in [Gate -> [Key -> Nat]],
         \A g \in Gate, k \in Key : used'[g][k] >= used[g][k]
  PROVE  IInv'
<1>1. req'[p] = r /\ \A q \in Proc \ {p} : req'[q] = req[q]
  BY DEF IInv, TypeOK
<1>2. slipped' \in [Gate -> [Key -> Nat]]
  BY DEF IInv, TypeOK
<1>3. ASSUME NEW g \in Gate, NEW k \in Key
      PROVE  Cardinality(SentFor(g, k)') + Cardinality(Beyond(g, k)') <= Budget(g, k)'
  <2>1. SentFor(g, k)' = SentFor(g, k)
    BY DEF SentFor, Created
  <2>2. p \notin Beyond(g, k)'
    BY <1>1 DEF Beyond, Past, At
  <2>3. Beyond(g, k)' \subseteq Beyond(g, k)
    BY <1>1, <2>2 DEF Beyond, Past, Whose, At
  <2>4. /\ Limit[g] \in Nat /\ ended[g][k] \in Nat /\ used[g][k] \in Nat
        /\ slipped[g][k] \in Nat /\ Limit[g] * ended[g][k] \in Nat
        /\ used'[g][k] \in Nat /\ used'[g][k] >= used[g][k]
    BY BudgetNat DEF IInv
  <2>5. Budget(g, k)' \in Nat /\ Budget(g, k)' >= Budget(g, k)
    BY <2>4 DEF Budget, Admitted
  <2> QED
    BY <2>1, <2>3, <2>5, BudgetKept
<1> QED
  BY <1>2, <1>3, SendingStep DEF Sending

LEMMA ChallengeStartStep ==
  ASSUME IInv, NEW p \in Proc, NEW i \in Identity, ChallengeStart(p, i)
  PROVE  IInv'
<1> DEFINE r == [pc |-> "gate", identity |-> i, at |-> 1, ch |-> None]
<1>1. Sound(r) /\ r.pc = "gate" /\ r.at = 1
  BY GatesAssumption DEF Sound, Req, PC
<1>2. req' = [req EXCEPT ![p] = r] /\ req[p].pc \in Sending
  BY DEF ChallengeStart, At, Sending
<1>3. /\ seen' = seen /\ row' = row /\ slipped' = slipped /\ ended' = ended
      /\ used' \in [Gate -> [Key -> Nat]]
      /\ \A g \in Gate, k \in Key : used'[g][k] >= used[g][k]
  BY BudgetNat DEF ChallengeStart, IInv, TypeOK
<1> HIDE DEF r
<1> QED
  BY <1>1, <1>2, <1>3, QuietStep

\* The gate a request asks, and the key it is counted by.
LEMMA AtGate ==
  ASSUME IInv, NEW p \in Proc, At(p, "gate")
  PROVE  GateOf(p) \in Gate /\ KeyAt(p) \in Key
BY DEF IInv, Requests, GateOf, KeyAt, KeyOf, Gate, Key

\* What Allow does to the count.
LEMMA Counted ==
  ASSUME IInv, NEW h \in Gate, NEW m \in Key,
         used' = [used EXCEPT ![h][m] = Up(h, @)]
  PROVE  /\ used' \in [Gate -> [Key -> Nat]]
         /\ used'[h][m] = Up(h, used[h][m])
         /\ \A g \in Gate, k \in Key : g # h \/ k # m => used'[g][k] = used[g][k]
         /\ \A g \in Gate, k \in Key : used'[g][k] >= used[g][k]
<1>1. used \in [Gate -> [Key -> Nat]] /\ used[h] \in [Key -> Nat] /\ used[h][m] \in Nat
  BY DEF IInv, TypeOK
<1>2. used' = [used EXCEPT ![h] = [used[h] EXCEPT ![m] = Up(h, used[h][m])]]
  OBVIOUS
<1>3. Up(h, used[h][m]) \in Nat /\ Up(h, used[h][m]) >= used[h][m]
  BY <1>1, LimitAssumption DEF Up
<1>4. [used[h] EXCEPT ![m] = Up(h, used[h][m])] \in [Key -> Nat]
  BY <1>1, <1>3
<1>5. used'[h] = [used[h] EXCEPT ![m] = Up(h, used[h][m])]
      /\ \A g \in Gate : g # h => used'[g] = used[g]
  BY <1>1, <1>2
<1>6. used'[h][m] = Up(h, used[h][m]) /\ \A k \in Key : k # m => used'[h][k] = used[h][k]
  BY <1>1, <1>5
<1>7. used' \in [Gate -> [Key -> Nat]]
  BY <1>1, <1>2, <1>4
<1>8. \A g \in Gate, k \in Key : used[g][k] \in Nat
  BY <1>1
<1> QED
  BY <1>3, <1>5, <1>6, <1>7, <1>8

\* A count that admits a request pays for it.
LEMMA AllowStep ==
  ASSUME IInv, NEW p \in Proc, Allow(p)
  PROVE  IInv'
<1> DEFINE h == GateOf(p)
           m == KeyAt(p)
<1>1. /\ At(p, "gate") /\ h \in Gate /\ m \in Key
      /\ used' = [used EXCEPT ![h][m] = Up(h, @)]
      /\ row' = row /\ ended' = ended /\ slipped' = slipped /\ seen' = seen
      /\ req[p].pc \in Sending
  BY AtGate DEF Allow, At, Sending
<1>2. /\ used' \in [Gate -> [Key -> Nat]] /\ slipped' \in [Gate -> [Key -> Nat]]
      /\ used'[h][m] = Up(h, used[h][m])
      /\ \A g \in Gate, k \in Key : g # h \/ k # m => used'[g][k] = used[g][k]
      /\ \A g \in Gate, k \in Key : used'[g][k] >= used[g][k]
  <2>1. slipped' \in [Gate -> [Key -> Nat]]
    BY <1>1 DEF IInv, TypeOK
  <2> HIDE DEF h, m
  <2> QED
    BY <1>1, <2>1, Counted
<1>3. CASE used[h][m] < Limit[h]
  <2>1. Pass(p)
    BY <1>3 DEF Allow
  <2>2. PICK r : /\ Sound(r) /\ req' = [req EXCEPT ![p] = r]
                 /\ r.pc = "create" \/ r.pc = "gate"
    BY <1>1, <2>1, PassStep
  <2>3. ASSUME NEW g \in Gate, NEW k \in Key
        PROVE  Cardinality(SentFor(g, k)') + Cardinality(Beyond(g, k)') <= Budget(g, k)'
    <3>1. SentFor(g, k)' = SentFor(g, k)
      BY <1>1 DEF SentFor, Created
    <3>2. /\ Limit[g] \in Nat /\ ended[g][k] \in Nat /\ used[g][k] \in Nat
          /\ slipped[g][k] \in Nat /\ Limit[g] * ended[g][k] \in Nat /\ Budget(g, k) \in Nat
      BY BudgetNat DEF IInv
    <3>3. CASE g = h /\ k = m
      <4>1. Budget(g, k)' = Budget(g, k) + 1
        BY <1>1, <1>2, <1>3, <3>2, <3>3 DEF Budget, Admitted, Up
      <4>2. Beyond(g, k)' \subseteq Beyond(g, k) \cup {p}
        BY <1>1, <2>1, PassBeyond
      <4> QED
        BY <3>1, <4>1, <4>2, BudgetSpent
    <3>4. CASE g # h \/ k # m
      <4>1. used'[g][k] = used[g][k]
        BY <1>2, <3>4
      <4>2. Budget(g, k)' = Budget(g, k)
        BY <1>1, <4>1 DEF Budget, Admitted
      <4>3. Beyond(g, k)' \subseteq Beyond(g, k)
        BY <1>1, <2>1, <3>4, PassBeyond
      <4> QED
        BY <3>1, <3>2, <4>2, <4>3, BudgetKept
    <3> QED
      BY <3>3, <3>4
  <2> QED
    BY <1>1, <1>2, <2>2, <2>3, SendingStep DEF Sending
<1>4. CASE ~(used[h][m] < Limit[h])
  <2>1. req' = [req EXCEPT ![p] = Idle]
    BY <1>4 DEF Allow, Finish
  <2> QED
    BY <1>1, <1>2, <2>1, IdleSound, QuietStep
<1> QED
  BY <1>3, <1>4

LEMMA PutNat ==
  ASSUME NEW S, NEW f \in [S -> Nat], NEW x \in S, NEW n \in Nat
  PROVE  [f EXCEPT ![x] = n] \in [S -> Nat]
OBVIOUS

\* A request that slips by is paid for by the count of failures.
LEMMA AllowFailsStep ==
  ASSUME IInv, NEW p \in Proc, AllowFails(p)
  PROVE  IInv'
<1> DEFINE h == GateOf(p)
           m == KeyAt(p)
<1>1. /\ At(p, "gate") /\ h \in Gate /\ m \in Key
      /\ row' = row /\ ended' = ended /\ used' = used /\ seen' = seen
      /\ req[p].pc \in Sending
      /\ used' \in [Gate -> [Key -> Nat]]
      /\ \A g \in Gate, k \in Key : used'[g][k] >= used[g][k]
  BY AtGate, BudgetNat DEF AllowFails, At, Sending, IInv, TypeOK
<1>2. CASE h \in FailOpen
  <2>1. Pass(p) /\ slipped' = [slipped EXCEPT ![h][m] = @ + 1]
    BY <1>2 DEF AllowFails
  <2>2. PICK r : /\ Sound(r) /\ req' = [req EXCEPT ![p] = r]
                 /\ r.pc = "create" \/ r.pc = "gate"
    BY <1>1, <2>1, PassStep
  <2>3. /\ slipped' \in [Gate -> [Key -> Nat]] /\ slipped'[h][m] = slipped[h][m] + 1
        /\ \A g \in Gate, k \in Key : g # h \/ k # m => slipped'[g][k] = slipped[g][k]
    <3>1. slipped \in [Gate -> [Key -> Nat]] /\ slipped[h] \in [Key -> Nat] /\ slipped[h][m] \in Nat
      BY <1>1 DEF IInv, TypeOK
    <3>2. slipped' = [slipped EXCEPT ![h] = [slipped[h] EXCEPT ![m] = slipped[h][m] + 1]]
      BY <2>1
    <3>3. [slipped[h] EXCEPT ![m] = slipped[h][m] + 1] \in [Key -> Nat]
      <4>1. slipped[h][m] + 1 \in Nat
        BY <3>1
      <4> QED
        BY <1>1, <3>1, <4>1, PutNat
    <3>4. slipped'[h] = [slipped[h] EXCEPT ![m] = slipped[h][m] + 1]
          /\ \A g \in Gate : g # h => slipped'[g] = slipped[g]
      BY <1>1, <3>1, <3>2
    <3> QED
      BY <1>1, <3>1, <3>2, <3>3, <3>4
  <2>4. ASSUME NEW g \in Gate, NEW k \in Key
        PROVE  Cardinality(SentFor(g, k)') + Cardinality(Beyond(g, k)') <= Budget(g, k)'
    <3>1. SentFor(g, k)' = SentFor(g, k)
      BY <1>1 DEF SentFor, Created
    <3>2. /\ slipped[g][k] \in Nat /\ Limit[g] * ended[g][k] \in Nat /\ Budget(g, k) \in Nat
          /\ Admitted(g, used[g][k]) \in Nat
      BY BudgetNat DEF IInv
    <3>3. CASE g = h /\ k = m
      <4>1. Budget(g, k)' = Limit[g] * ended[g][k] + Admitted(g, used[g][k]) + (slipped[g][k] + 1)
        BY <1>1, <2>3, <3>3 DEF Budget, Admitted
      <4>2. Budget(g, k)' = Budget(g, k) + 1
        BY <3>2, <4>1 DEF Budget
      <4>3. Beyond(g, k)' \subseteq Beyond(g, k) \cup {p}
        BY <1>1, <2>1, PassBeyond
      <4> QED
        BY <3>1, <4>2, <4>3, BudgetSpent
    <3>4. CASE g # h \/ k # m
      <4>1. slipped'[g][k] = slipped[g][k]
        BY <2>3, <3>4
      <4>2. Budget(g, k)' = Budget(g, k)
        BY <1>1, <4>1 DEF Budget, Admitted
      <4>3. Beyond(g, k)' \subseteq Beyond(g, k)
        BY <1>1, <2>1, <3>4, PassBeyond
      <4> QED
        BY <3>1, <3>2, <4>2, <4>3, BudgetKept
    <3> QED
      BY <3>3, <3>4
  <2> QED
    BY <1>1, <2>2, <2>3, <2>4, SendingStep DEF Sending
<1>3. CASE h \notin FailOpen
  <2>1. req' = [req EXCEPT ![p] = Idle] /\ slipped' = slipped
    BY <1>3 DEF AllowFails, Finish
  <2> QED
    BY <1>1, <2>1, IdleSound, QuietStep
<1> QED
  BY <1>2, <1>3

LEMMA SendFailsStep ==
  ASSUME IInv, NEW p \in Proc, SendFails(p)
  PROVE  IInv'
<1>1. /\ req[p].pc \in Sending /\ req' = [req EXCEPT ![p] = Idle]
      /\ UNCHANGED <<row, used, ended, slipped, seen>>
  BY DEF SendFails, At, Finish, Sending
<1>2. used' \in [Gate -> [Key -> Nat]] /\ \A g \in Gate, k \in Key : used'[g][k] >= used[g][k]
  BY <1>1, BudgetNat DEF IInv, TypeOK
<1> QED
  BY <1>1, <1>2, IdleSound, QuietStep

\* A new window adds a full allowance for what the old one admitted.
LEMMA WindowEndsStep ==
  ASSUME IInv, NEW h \in Gate, NEW m \in Key, WindowEnds(h, m)
  PROVE  IInv'
<1>1. UNCHANGED <<row, req, slipped, seen>> /\ Created' = Created
  BY DEF WindowEnds, Created
<1>2. /\ used \in [Gate -> [Key -> Nat]] /\ used[h] \in [Key -> Nat]
      /\ ended \in [Gate -> [Key -> Nat]] /\ ended[h] \in [Key -> Nat] /\ ended[h][m] \in Nat
  BY DEF IInv, TypeOK
<1>3. /\ used' = [used EXCEPT ![h] = [used[h] EXCEPT ![m] = 0]]
      /\ ended' = [ended EXCEPT ![h] = [ended[h] EXCEPT ![m] = ended[h][m] + 1]]
  BY DEF WindowEnds
<1>4. [used[h] EXCEPT ![m] = 0] \in [Key -> Nat]
      /\ [ended[h] EXCEPT ![m] = ended[h][m] + 1] \in [Key -> Nat]
  BY <1>2
<1>5. used' \in [Gate -> [Key -> Nat]] /\ ended' \in [Gate -> [Key -> Nat]]
  BY <1>2, <1>3, <1>4
<1>6. /\ used'[h] = [used[h] EXCEPT ![m] = 0]
      /\ ended'[h] = [ended[h] EXCEPT ![m] = ended[h][m] + 1]
      /\ \A g \in Gate : g # h => used'[g] = used[g] /\ ended'[g] = ended[g]
  BY <1>2, <1>3
<1>7. /\ used'[h][m] = 0 /\ ended'[h][m] = ended[h][m] + 1
      /\ \A g \in Gate, k \in Key :
           g # h \/ k # m => used'[g][k] = used[g][k] /\ ended'[g][k] = ended[g][k]
  <2>1. /\ used'[h][m] = 0 /\ ended'[h][m] = ended[h][m] + 1
        /\ \A k \in Key : k # m => used'[h][k] = used[h][k] /\ ended'[h][k] = ended[h][k]
    BY <1>2, <1>6
  <2> QED
    BY <1>6, <2>1
<1>8. TypeOK' /\ Requests'
  BY <1>1, <1>5 DEF IInv, TypeOK, Requests, At
<1>9. Fresh' /\ Guesses' /\ GuessesBounded' /\ ReplayBounded'
  BY <1>1 DEF IInv, Fresh, Guesses, GuessesBounded, ReplayBounded, Busy
<1>10. WithinBudget'
  <2> SUFFICES ASSUME NEW g \in Gate, NEW k \in Key
               PROVE  Cardinality(SentFor(g, k)') + Cardinality(Beyond(g, k)') <= Budget(g, k)'
    BY DEF WithinBudget
  <2>1. SentFor(g, k)' = SentFor(g, k) /\ Beyond(g, k)' = Beyond(g, k)
    BY <1>1 DEF SentFor, Beyond, Past, Whose, At
  <2>2. /\ Limit[g] \in Nat /\ ended[g][k] \in Nat /\ used[g][k] \in Nat
        /\ slipped[g][k] \in Nat /\ Limit[g] * ended[g][k] \in Nat
        /\ Admitted(g, used[g][k]) \in Nat /\ Budget(g, k) \in Nat
    BY BudgetNat DEF IInv
  <2>3. CASE g = h /\ k = m
    <3>1. Limit[g] * (ended[g][k] + 1) = Limit[g] * ended[g][k] + Limit[g]
      BY <2>2
    <3>2. Admitted(g, used[g][k]) <= Limit[g] /\ Admitted(g, 0) = 0
      BY <2>2 DEF Admitted
    <3>3. Budget(g, k)' = Limit[g] * (ended[g][k] + 1) + Admitted(g, 0) + slipped[g][k]
      BY <1>1, <1>7, <2>3 DEF Budget, Admitted
    <3>4. Budget(g, k)' \in Nat /\ Budget(g, k)' >= Budget(g, k)
      BY <2>2, <3>1, <3>2, <3>3 DEF Budget
    <3> QED
      BY <2>1, <3>4, BudgetKept
  <2>4. CASE g # h \/ k # m
    <3>1. Budget(g, k)' = Budget(g, k)
      BY <1>1, <1>7, <2>4 DEF Budget, Admitted
    <3> QED
      BY <2>1, <2>2, <3>1, BudgetKept
  <2> QED
    BY <2>3, <2>4
<1> QED
  BY <1>8, <1>9, <1>10 DEF IInv

-----------------------------------------------------------------------------
\* The new row counts for the request that inserted it.
LEMMA CreateStep ==
  ASSUME IInv, NEW p \in Proc, NEW c \in Challenge, Create(p, c)
  PROVE  IInv'
<1> DEFINE new == [identity |-> req[p].identity, known |-> FALSE,
                   try_count |-> 0, consumed |-> FALSE, expired |-> FALSE]
           r == [pc |-> "send", identity |-> None, at |-> 0, ch |-> c]
<1>1. /\ req[p].pc = "create" /\ c \notin Created /\ req[p].identity \in Identity
      /\ row' = [k \in Created \cup {c} |-> IF k = c THEN new ELSE row[k]]
      /\ req' = [req EXCEPT ![p] = r]
      /\ UNCHANGED <<used, ended, slipped, seen>>
  BY DEF Create, At, IInv, Requests
<1>2. new \in Row /\ new.known = FALSE /\ new.try_count = 0 /\ new.consumed = FALSE
      /\ new.identity = req[p].identity
  BY <1>1 DEF Row
<1>3. Sound(r) /\ r.pc = "send" /\ r.ch = c
  BY DEF Sound, Req, PC
<1> HIDE DEF new, r
<1>4. Created' = Created \cup {c} /\ row'[c] = new /\ \A k \in Created : row'[k] = row[k]
  BY <1>1 DEF Created
<1>5. /\ req' \in [Proc -> Req] /\ Requests'
      /\ \A q \in Proc : req'[q].pc \in {"send", "increment", "consume"} => req'[q].ch \in Created'
      /\ req'[p] = r /\ \A q \in Proc \ {p} : req'[q] = req[q]
  BY <1>1, <1>3, <1>4, RequestStep
<1>6. TypeOK'
  BY <1>1, <1>2, <1>4, <1>5 DEF IInv, TypeOK
<1>7. Fresh' /\ Guesses' /\ GuessesBounded' /\ ReplayBounded'
  <2>1. \A k \in Challenge : /\ Busy(k, "increment")' = Busy(k, "increment")
                            /\ Busy(k, "consume")' = Busy(k, "consume")
    BY <1>1, <1>3, <1>5 DEF Busy
  <2>2. IsFiniteSet(Created')
    BY <1>4, FS_AddElement DEF IInv, Fresh
  <2> QED
    BY <1>1, <1>2, <1>4, <2>1, <2>2, SendingKeepsCodes
<1>8. WithinBudget'
  <2> SUFFICES ASSUME NEW g \in Gate, NEW k \in Key
               PROVE  Cardinality(SentFor(g, k)') + Cardinality(Beyond(g, k)') <= Budget(g, k)'
    BY DEF WithinBudget
  <2>1. SentFor(g, k)' = SentFor(g, k)
    BY <1>1, <1>2, <1>4 DEF SentFor
  <2>2. \A q \in Proc \ {p} : q \in Beyond(g, k)' => q \in Beyond(g, k)
    BY <1>4, <1>5 DEF Beyond, Past, Whose, At, IInv, TypeOK
  <2>3. p \in Beyond(g, k)' => p \in Beyond(g, k)
    BY <1>1, <1>2, <1>3, <1>4, <1>5 DEF Beyond, Past, Whose, At
  <2>4. Beyond(g, k)' \subseteq Beyond(g, k)
    BY <2>2, <2>3 DEF Beyond
  <2>5. Budget(g, k)' = Budget(g, k) /\ Budget(g, k) \in Nat
    BY <1>1, BudgetNat DEF Budget, Admitted, IInv
  <2> QED
    BY <2>1, <2>4, <2>5, BudgetKept
<1> QED
  BY <1>5, <1>6, <1>7, <1>8 DEF IInv

\* The code sent takes the place of the request that sent it.
LEMMA SendOTPStep ==
  ASSUME IInv, NEW p \in Proc, SendOTP(p)
  PROVE  IInv'
<1> DEFINE c == req[p].ch
<1>1. /\ req[p].pc = "send" /\ c \in Created
      /\ row' = [row EXCEPT ![c].known = TRUE]
      /\ req' = [req EXCEPT ![p] = Idle]
      /\ UNCHANGED <<used, ended, slipped, seen>>
  BY DEF SendOTP, At, Finish, IInv, TypeOK
<1> HIDE DEF c
<1>2. \A k \in Created : row[k] \in Row
  BY DEF IInv, TypeOK
<1>3. /\ Created' = Created
      /\ row'[c] = [row[c] EXCEPT !.known = TRUE]
      /\ \A k \in Created : k # c => row'[k] = row[k]
  BY <1>1 DEF Created
<1>4. /\ row'[c] \in Row /\ row'[c].identity = row[c].identity
      /\ row'[c].try_count = row[c].try_count /\ row'[c].consumed = row[c].consumed
  <2>1. ASSUME NEW o \in Row
        PROVE  LET n == [o EXCEPT !.known = TRUE]
               IN  /\ n \in Row /\ n.identity = o.identity
                   /\ n.try_count = o.try_count /\ n.consumed = o.consumed
    BY DEF Row
  <2> QED
    BY <1>1, <1>2, <1>3, <2>1
<1>5. /\ req' \in [Proc -> Req] /\ Requests'
      /\ \A q \in Proc : req'[q].pc \in {"send", "increment", "consume"} => req'[q].ch \in Created'
      /\ req'[p] = Idle /\ \A q \in Proc \ {p} : req'[q] = req[q]
  BY <1>1, <1>3, IdleSound, RequestStep
<1>6. TypeOK'
  BY <1>1, <1>2, <1>3, <1>4, <1>5 DEF IInv, TypeOK
<1>7. Fresh' /\ Guesses' /\ GuessesBounded' /\ ReplayBounded'
  <2>1. \A k \in Challenge : /\ Busy(k, "increment")' = Busy(k, "increment")
                            /\ Busy(k, "consume")' = Busy(k, "consume")
    BY <1>1, <1>5, IdleSound DEF Busy
  <2>2. IsFiniteSet(Created')
    BY <1>3 DEF IInv, Fresh
  <2> QED
    BY <1>1, <1>3, <1>4, <2>1, <2>2, SendingKeepsCodes
<1>8. WithinBudget'
  <2> SUFFICES ASSUME NEW g \in Gate, NEW k \in Key
               PROVE  Cardinality(SentFor(g, k)') + Cardinality(Beyond(g, k)') <= Budget(g, k)'
    BY DEF WithinBudget
  <2>1. \A q \in Proc \ {p} : q \in Beyond(g, k)' => q \in Beyond(g, k)
    <3>1. \A q \in Proc : req[q].pc = "send" => req[q].ch \in Created
      BY DEF IInv, TypeOK
    <3>2. \A k1 \in Created : row'[k1].identity = row[k1].identity
      BY <1>3, <1>4
    <3> QED
      BY <1>5, <3>1, <3>2 DEF Beyond, Past, Whose, At
  <2>2. p \notin Beyond(g, k)'
    BY <1>5, IdleSound DEF Beyond, Past, At
  <2>3. Beyond(g, k)' \subseteq Beyond(g, k) \ {p}
    BY <2>1, <2>2 DEF Beyond
  <2>4. Budget(g, k)' = Budget(g, k) /\ Budget(g, k) \in Nat
    BY <1>1, BudgetNat DEF Budget, Admitted, IInv
  <2>5. CASE KeyOf(g, row[c].identity) = k
    <3>1. p \in Beyond(g, k)
      BY <1>1, <2>5 DEF Beyond, Past, Whose, At, c
    <3>2. SentFor(g, k)' \subseteq SentFor(g, k) \cup {c}
      BY <1>3 DEF SentFor
    <3> QED
      BY <2>3, <2>4, <3>1, <3>2, BudgetConverted
  <2>6. CASE KeyOf(g, row[c].identity) # k
    <3>1. SentFor(g, k)' = SentFor(g, k)
      BY <1>1, <1>3, <1>4, <2>6 DEF SentFor
    <3> QED
      BY <2>3, <2>4, <3>1, BudgetKept
  <2> QED
    BY <2>5, <2>6
<1> QED
  BY <1>5, <1>6, <1>7, <1>8 DEF IInv

-----------------------------------------------------------------------------
Entering == {"idle", "increment", "consume"}

\* A step of a request that enters a code sends nothing.
LEMMA EnteringStep ==
  ASSUME IInv, NEW p \in Proc, NEW r, Sound(r), req' = [req EXCEPT ![p] = r],
         req[p].pc \in Entering, r.pc \in Entering,
         r.pc # "idle" => r.ch \in Created,
         Created' = Created,
         \A c \in Created : /\ row'[c] \in Row
                            /\ row'[c].identity = row[c].identity
                            /\ row'[c].known = row[c].known,
         UNCHANGED <<used, ended, slipped>>, seen' \in [Challenge -> Tally],
         \A c \in Challenge \ Created : seen'[c] = seen[c],
         Guesses', GuessesBounded', ReplayBounded'
  PROVE  IInv'
<1>1. /\ req' \in [Proc -> Req] /\ Requests'
      /\ \A q \in Proc : req'[q].pc \in {"send", "increment", "consume"} => req'[q].ch \in Created'
      /\ req'[p] = r /\ \A q \in Proc \ {p} : req'[q] = req[q]
  BY RequestStep DEF Entering
<1>2. TypeOK'
  BY <1>1 DEF IInv, TypeOK
<1>3. Fresh'
  BY DEF IInv, Fresh
<1>4. \A g \in Gate, k \in Key : Beyond(g, k)' = Beyond(g, k)
  <2> TAKE g \in Gate, k \in Key
  <2>1. p \notin Beyond(g, k)' /\ p \notin Beyond(g, k)
    BY <1>1 DEF Beyond, Past, At, Entering
  <2>2. \A q \in Proc : req[q].pc = "send" => req[q].ch \in Created
    BY DEF IInv, TypeOK
  <2>3. \A q \in Proc \ {p} : q \in Beyond(g, k)' <=> q \in Beyond(g, k)
    BY <1>1, <2>2 DEF Beyond, Past, Whose, At
  <2> QED
    BY <2>1, <2>3 DEF Beyond
<1>5. WithinBudget'
  BY <1>4, EnteringKeepsBudget
<1> QED
  BY <1>1, <1>2, <1>3, <1>5 DEF IInv

\* How the requests under way for a code change when one joins or leaves.
LEMMA Joins ==
  ASSUME IInv, NEW p \in Proc, NEW r, req' = [req EXCEPT ![p] = r],
         req[p].pc = "idle", r.pc \in {"increment", "consume"},
         NEW c \in Challenge, NEW pc \in {"increment", "consume"}
  PROVE  /\ Cardinality(Busy(c, pc)) \in Nat
         /\ Cardinality(Busy(c, pc)') <= Cardinality(Proc)
         /\ Cardinality(Busy(c, pc)')
              = IF r.pc = pc /\ r.ch = c THEN Cardinality(Busy(c, pc)) + 1
                ELSE Cardinality(Busy(c, pc))
<1>1. req'[p] = r /\ \A q \in Proc \ {p} : req'[q] = req[q]
  BY DEF IInv, TypeOK
<1>2. Busy(c, pc) \in SUBSET Proc /\ Busy(c, pc)' \in SUBSET Proc
  BY DEF Busy
<1>3. /\ IsFiniteSet(Busy(c, pc)) /\ Cardinality(Busy(c, pc)) \in Nat
      /\ Cardinality(Busy(c, pc)') <= Cardinality(Proc)
  BY <1>2, ProcSets
<1>4. p \notin Busy(c, pc)
  BY DEF Busy
<1>5. CASE r.pc = pc /\ r.ch = c
  <2>1. Busy(c, pc)' = Busy(c, pc) \cup {p}
    BY <1>1, <1>5 DEF Busy
  <2>2. Cardinality(Busy(c, pc) \cup {p}) = Cardinality(Busy(c, pc)) + 1
    BY <1>3, <1>4, FS_AddElement
  <2> QED
    BY <1>3, <1>5, <2>1, <2>2
<1>6. CASE ~(r.pc = pc /\ r.ch = c)
  <2>1. Busy(c, pc)' = Busy(c, pc)
    BY <1>1, <1>4, <1>6 DEF Busy
  <2> QED
    BY <1>3, <1>6, <2>1
<1> QED
  BY <1>5, <1>6

LEMMA Leaves ==
  ASSUME IInv, NEW p \in Proc, req' = [req EXCEPT ![p] = Idle],
         NEW c \in Challenge, NEW pc \in {"increment", "consume"}
  PROVE  /\ Cardinality(Busy(c, pc)) \in Nat /\ Cardinality(Busy(c, pc)) <= Cardinality(Proc)
         /\ Cardinality(Busy(c, pc)')
              = IF req[p].pc = pc /\ req[p].ch = c THEN Cardinality(Busy(c, pc)) - 1
                ELSE Cardinality(Busy(c, pc))
<1>1. req'[p] = Idle /\ \A q \in Proc \ {p} : req'[q] = req[q]
  BY DEF IInv, TypeOK
<1>2. Busy(c, pc) \in SUBSET Proc
  BY DEF Busy
<1>3. /\ IsFiniteSet(Busy(c, pc)) /\ Cardinality(Busy(c, pc)) \in Nat
      /\ Cardinality(Busy(c, pc)) <= Cardinality(Proc)
  BY <1>2, ProcSets
<1>4. Busy(c, pc)' = Busy(c, pc) \ {p}
  BY <1>1, IdleSound DEF Busy
<1>5. p \in Busy(c, pc) <=> req[p].pc = pc /\ req[p].ch = c
  BY DEF Busy
<1>6. Cardinality(Busy(c, pc) \ {p})
        = IF p \in Busy(c, pc) THEN Cardinality(Busy(c, pc)) - 1 ELSE Cardinality(Busy(c, pc))
  BY <1>3, FS_RemoveElement
<1> QED
  BY <1>3, <1>4, <1>5, <1>6

\* What the bounds on tries and processes are made of.
LEMMA Numbers ==
  /\ MaxTries \in Nat \ {0} /\ Cardinality(Proc) \in Nat
  /\ TypeOK => \A c \in Challenge :
       /\ seen[c] \in Tally /\ seen[c].wrong \in Nat
       /\ seen[c].lost \in Nat /\ seen[c].accepted \in Nat
  /\ TypeOK => /\ Created \subseteq Challenge
               /\ \A c \in Created : row[c] \in Row /\ row[c].try_count \in Nat
                                      /\ row[c].consumed \in BOOLEAN
BY ProcAssumption, LimitAssumption, FS_CardinalityType DEF TypeOK, Tally, Row

\* What entering a code leaves in the request.
LEMMA EnteredSound ==
  ASSUME NEW c \in Challenge, NEW pc \in {"increment", "consume"}
  PROVE  Sound([pc |-> pc, identity |-> None, at |-> 0, ch |-> c])
BY DEF Sound, Req, PC

\* The count was below the limit when it was read: each wrong code beyond it
\* is under way with a process of its own, or was lost.
LEMMA WrongCodeStep ==
  ASSUME IInv, NEW p \in Proc, NEW c \in Challenge, WrongCode(p, c)
  PROVE  IInv'
<1> DEFINE r == [pc |-> "increment", identity |-> None, at |-> 0, ch |-> c]
<1>1. /\ req[p].pc = "idle" /\ c \in Created /\ req' = [req EXCEPT ![p] = r]
      /\ row[c].try_count < MaxTries
      /\ seen' = [seen EXCEPT ![c].wrong = @ + 1]
      /\ UNCHANGED <<row, used, ended, slipped>> /\ Created' = Created
  BY DEF WrongCode, Find, At, Created
<1>2. Sound(r) /\ r.pc = "increment" /\ r.ch = c
  BY EnteredSound
<1> HIDE DEF r
<1>3. /\ seen' \in [Challenge -> Tally]
      /\ seen'[c].wrong = seen[c].wrong + 1 /\ seen'[c].lost = seen[c].lost
      /\ seen'[c].accepted = seen[c].accepted
      /\ \A d \in Challenge : d # c => seen'[d] = seen[d]
  BY <1>1 DEF IInv, TypeOK, Tally
<1>4. \A d \in Challenge :
        /\ Cardinality(Busy(d, "increment")) \in Nat
        /\ Cardinality(Busy(d, "increment")') <= Cardinality(Proc)
        /\ Cardinality(Busy(d, "increment")')
             = IF d = c THEN Cardinality(Busy(d, "increment")) + 1
               ELSE Cardinality(Busy(d, "increment"))
        /\ Cardinality(Busy(d, "consume")') = Cardinality(Busy(d, "consume"))
  BY <1>1, <1>2, Joins
<1>5. Guesses'
  <2> SUFFICES ASSUME NEW d \in Created
               PROVE  seen'[d].wrong = row[d].try_count + seen'[d].lost
                                         + Cardinality(Busy(d, "increment")')
    BY <1>1 DEF Guesses
  <2>1. seen[d].wrong = row[d].try_count + seen[d].lost + Cardinality(Busy(d, "increment"))
    BY DEF IInv, Guesses
  <2> QED
    BY <1>3, <1>4, <2>1, Numbers DEF IInv
<1>6. GuessesBounded'
  <2> SUFFICES ASSUME NEW d \in Challenge
               PROVE  seen'[d].wrong < MaxTries + Cardinality(Proc) + seen'[d].lost
    BY DEF GuessesBounded
  <2>1. CASE d = c
    <3>1. seen[c].wrong = row[c].try_count + seen[c].lost + Cardinality(Busy(c, "increment"))
      BY <1>1 DEF IInv, Guesses
    <3> QED
      BY <1>1, <1>3, <1>4, <2>1, <3>1, Numbers DEF IInv
  <2>2. CASE d # c
    BY <1>3, <2>2 DEF IInv, GuessesBounded
  <2> QED
    BY <2>1, <2>2
<1>7. ReplayBounded'
  <2>1. \A d \in Created : seen'[d].accepted = seen[d].accepted
    BY <1>3, Numbers DEF IInv
  <2> QED
    BY <1>1, <1>4, <2>1, Numbers DEF IInv, ReplayBounded
<1> QED
  BY <1>1, <1>2, <1>3, <1>5, <1>6, <1>7, Numbers, EnteringStep DEF IInv, Entering

\* A code found right belongs to a row that is not consumed.
LEMMA RightCodeStep ==
  ASSUME IInv, NEW p \in Proc, NEW c \in Challenge, RightCode(p, c)
  PROVE  IInv'
<1> DEFINE r == [pc |-> "consume", identity |-> None, at |-> 0, ch |-> c]
<1>1. /\ req[p].pc = "idle" /\ c \in Created /\ req' = [req EXCEPT ![p] = r]
      /\ ~row[c].consumed
      /\ UNCHANGED <<row, used, ended, slipped, seen>> /\ Created' = Created
  BY DEF RightCode, Find, At, Created
<1>2. Sound(r) /\ r.pc = "consume" /\ r.ch = c
  BY EnteredSound
<1> HIDE DEF r
<1>3. \A d \in Challenge :
        /\ Cardinality(Busy(d, "increment")') = Cardinality(Busy(d, "increment"))
        /\ d # c => Cardinality(Busy(d, "consume")') = Cardinality(Busy(d, "consume"))
  BY <1>1, <1>2, Joins
<1>4. Guesses' /\ GuessesBounded'
  <2>1. Created \subseteq Challenge
    BY DEF IInv, TypeOK
  <2> QED
    BY <1>1, <1>3, <2>1 DEF IInv, Guesses, GuessesBounded
<1>5. ReplayBounded'
  <2> SUFFICES ASSUME NEW d \in Created
               PROVE  /\ seen[d].accepted > 0 => row[d].consumed
                      /\ seen[d].accepted
                           + (IF row[d].consumed THEN Cardinality(Busy(d, "consume")') ELSE 0)
                           <= Cardinality(Proc)
    BY <1>1 DEF ReplayBounded
  <2>1. /\ seen[d].accepted > 0 => row[d].consumed
        /\ seen[d].accepted + (IF row[d].consumed THEN Cardinality(Busy(d, "consume")) ELSE 0)
             <= Cardinality(Proc)
    BY DEF IInv, ReplayBounded
  <2>2. d \in Challenge
    BY DEF IInv, TypeOK
  <2> QED
    BY <1>1, <1>3, <2>1, <2>2
<1>6. \A d \in Created : row'[d] \in Row /\ row'[d].identity = row[d].identity /\ row'[d].known = row[d].known
  BY <1>1 DEF IInv, TypeOK
<1>7. seen' \in [Challenge -> Tally]
  BY <1>1 DEF IInv, TypeOK
<1> QED
  BY <1>1, <1>2, <1>4, <1>5, <1>6, <1>7, EnteringStep DEF Entering

\* An update of one column keeps the rest of the row.
LEMMA Columns ==
  ASSUME NEW o \in Row
  PROVE  /\ LET n == [o EXCEPT !.try_count = @ + 1]
            IN  /\ n \in Row /\ n.identity = o.identity /\ n.known = o.known
                /\ n.try_count = o.try_count + 1 /\ n.consumed = o.consumed
         /\ LET n == [o EXCEPT !.consumed = TRUE]
            IN  /\ n \in Row /\ n.identity = o.identity /\ n.known = o.known
                /\ n.try_count = o.try_count /\ n.consumed = TRUE
         /\ LET n == [o EXCEPT !.expired = TRUE]
            IN  /\ n \in Row /\ n.identity = o.identity /\ n.known = o.known
                /\ n.try_count = o.try_count /\ n.consumed = o.consumed
<1>1. LET n == [o EXCEPT !.try_count = @ + 1]
      IN  /\ n \in Row /\ n.identity = o.identity /\ n.known = o.known
          /\ n.try_count = o.try_count + 1 /\ n.consumed = o.consumed
  BY DEF Row
<1>2. LET n == [o EXCEPT !.consumed = TRUE]
      IN  /\ n \in Row /\ n.identity = o.identity /\ n.known = o.known
          /\ n.try_count = o.try_count /\ n.consumed = TRUE
  BY DEF Row
<1>3. LET n == [o EXCEPT !.expired = TRUE]
      IN  /\ n \in Row /\ n.identity = o.identity /\ n.known = o.known
          /\ n.try_count = o.try_count /\ n.consumed = o.consumed
  BY DEF Row
<1> QED
  BY <1>1, <1>2, <1>3

\* The rows after an update of row c.
LEMMA UpdatedRows ==
  ASSUME IInv, NEW c \in Created, NEW n \in Row, row' = [row EXCEPT ![c] = n],
         n.identity = row[c].identity, n.known = row[c].known
  PROVE  /\ Created' = Created /\ row'[c] = n
         /\ \A d \in Created : d # c => row'[d] = row[d]
         /\ \A d \in Created : /\ row'[d] \in Row
                               /\ row'[d].identity = row[d].identity
                               /\ row'[d].known = row[d].known
BY DEF IInv, TypeOK, Created

\* A wrong code moves from under way into the count.
LEMMA IncrementTryStep ==
  ASSUME IInv, NEW p \in Proc, IncrementTry(p)
  PROVE  IInv'
<1> DEFINE c == req[p].ch
           n == [row[c] EXCEPT !.try_count = @ + 1]
<1>1. /\ req[p].pc = "increment" /\ c \in Created /\ row[c] \in Row
      /\ row' = [row EXCEPT ![c] = n]
      /\ req' = [req EXCEPT ![p] = Idle]
      /\ UNCHANGED <<used, ended, slipped, seen>>
  BY DEF IncrementTry, At, Finish, IInv, TypeOK
<1>2. /\ n \in Row /\ n.identity = row[c].identity /\ n.known = row[c].known
      /\ n.try_count = row[c].try_count + 1 /\ n.consumed = row[c].consumed
  BY <1>1, Columns
<1>3. /\ Created' = Created /\ row'[c] = n
      /\ \A d \in Created : d # c => row'[d] = row[d]
      /\ \A d \in Created : /\ row'[d] \in Row
                            /\ row'[d].identity = row[d].identity
                            /\ row'[d].known = row[d].known
  BY <1>1, <1>2, UpdatedRows
<1>4. \A d \in Challenge :
        /\ Cardinality(Busy(d, "increment")) \in Nat
        /\ Cardinality(Busy(d, "increment")')
             = IF d = c THEN Cardinality(Busy(d, "increment")) - 1
               ELSE Cardinality(Busy(d, "increment"))
        /\ Cardinality(Busy(d, "consume")') = Cardinality(Busy(d, "consume"))
  BY <1>1, Leaves
<1>5. seen' = seen /\ seen' \in [Challenge -> Tally]
  BY <1>1 DEF IInv, TypeOK
<1> HIDE DEF c, n
<1>6. Guesses'
  <2> SUFFICES ASSUME NEW d \in Created
               PROVE  seen[d].wrong = row'[d].try_count + seen[d].lost
                                        + Cardinality(Busy(d, "increment")')
    BY <1>3, <1>5 DEF Guesses
  <2>1. seen[d].wrong = row[d].try_count + seen[d].lost + Cardinality(Busy(d, "increment"))
    BY DEF IInv, Guesses
  <2> QED
    BY <1>2, <1>3, <1>4, <2>1, Numbers DEF IInv
<1>7. GuessesBounded'
  BY <1>5 DEF IInv, GuessesBounded
<1>8. ReplayBounded'
  <2>1. \A d \in Created : row'[d].consumed = row[d].consumed /\ d \in Challenge
    BY <1>2, <1>3, Numbers DEF IInv
  <2> QED
    BY <1>3, <1>4, <1>5, <2>1 DEF IInv, ReplayBounded
<1> QED
  BY <1>1, <1>3, <1>5, <1>6, <1>7, <1>8, IdleSound, EnteringStep DEF Entering

\* Or it is lost.
LEMMA IncrementLostStep ==
  ASSUME IInv, NEW p \in Proc, IncrementLost(p)
  PROVE  IInv'
<1> DEFINE c == req[p].ch
<1>1. /\ req[p].pc = "increment" /\ c \in Created /\ c \in Challenge
      /\ seen' = [seen EXCEPT ![c].lost = @ + 1]
      /\ req' = [req EXCEPT ![p] = Idle]
      /\ UNCHANGED <<row, used, ended, slipped>> /\ Created' = Created
  BY DEF IncrementLost, At, Finish, IInv, TypeOK, Created
<1>2. \A d \in Challenge :
        /\ Cardinality(Busy(d, "increment")) \in Nat
        /\ Cardinality(Busy(d, "increment")')
             = IF d = c THEN Cardinality(Busy(d, "increment")) - 1
               ELSE Cardinality(Busy(d, "increment"))
        /\ Cardinality(Busy(d, "consume")') = Cardinality(Busy(d, "consume"))
  BY <1>1, Leaves
<1> HIDE DEF c
<1>3. /\ seen' \in [Challenge -> Tally]
      /\ seen'[c].wrong = seen[c].wrong /\ seen'[c].lost = seen[c].lost + 1
      /\ seen'[c].accepted = seen[c].accepted
      /\ \A d \in Challenge : d # c => seen'[d] = seen[d]
  BY <1>1 DEF IInv, TypeOK, Tally
<1>4. Guesses'
  <2> SUFFICES ASSUME NEW d \in Created
               PROVE  seen'[d].wrong = row[d].try_count + seen'[d].lost
                                         + Cardinality(Busy(d, "increment")')
    BY <1>1 DEF Guesses
  <2>1. seen[d].wrong = row[d].try_count + seen[d].lost + Cardinality(Busy(d, "increment"))
    BY DEF IInv, Guesses
  <2> QED
    BY <1>2, <1>3, <2>1, Numbers DEF IInv
<1>5. GuessesBounded'
  <2> SUFFICES ASSUME NEW d \in Challenge
               PROVE  seen'[d].wrong < MaxTries + Cardinality(Proc) + seen'[d].lost
    BY DEF GuessesBounded
  <2>1. seen[d].wrong < MaxTries + Cardinality(Proc) + seen[d].lost
    BY DEF IInv, GuessesBounded
  <2> QED
    BY <1>3, <2>1, Numbers DEF IInv
<1>6. ReplayBounded'
  <2>1. \A d \in Created : seen'[d].accepted = seen[d].accepted
    BY <1>3, Numbers DEF IInv
  <2> QED
    BY <1>1, <1>2, <2>1, Numbers DEF IInv, ReplayBounded
<1> QED
  BY <1>1, <1>3, <1>4, <1>5, <1>6, Numbers, IdleSound, EnteringStep DEF IInv, Entering

\* The first acceptance marks the row; the rest were under way by then.
LEMMA MarkConsumedStep ==
  ASSUME IInv, NEW p \in Proc, MarkConsumed(p)
  PROVE  IInv'
<1> DEFINE c == req[p].ch
           n == [row[c] EXCEPT !.consumed = TRUE]
<1>1. /\ req[p].pc = "consume" /\ c \in Created /\ c \in Challenge /\ row[c] \in Row
      /\ row' = [row EXCEPT ![c] = n]
      /\ seen' = [seen EXCEPT ![c].accepted = @ + 1]
      /\ req' = [req EXCEPT ![p] = Idle]
      /\ UNCHANGED <<used, ended, slipped>>
  BY DEF MarkConsumed, At, Finish, IInv, TypeOK
<1>2. /\ n \in Row /\ n.identity = row[c].identity /\ n.known = row[c].known
      /\ n.try_count = row[c].try_count /\ n.consumed = TRUE
  BY <1>1, Columns
<1>3. /\ Created' = Created /\ row'[c] = n
      /\ \A d \in Created : d # c => row'[d] = row[d]
      /\ \A d \in Created : /\ row'[d] \in Row
                            /\ row'[d].identity = row[d].identity
                            /\ row'[d].known = row[d].known
  BY <1>1, <1>2, UpdatedRows
<1>4. \A d \in Challenge :
        /\ Cardinality(Busy(d, "increment")') = Cardinality(Busy(d, "increment"))
        /\ Cardinality(Busy(d, "consume")) \in Nat
        /\ Cardinality(Busy(d, "consume")) <= Cardinality(Proc)
        /\ Cardinality(Busy(d, "consume")')
             = IF d = c THEN Cardinality(Busy(d, "consume")) - 1
               ELSE Cardinality(Busy(d, "consume"))
  BY <1>1, Leaves
<1> HIDE DEF c, n
<1>5. /\ seen' \in [Challenge -> Tally]
      /\ seen'[c].wrong = seen[c].wrong /\ seen'[c].lost = seen[c].lost
      /\ seen'[c].accepted = seen[c].accepted + 1
      /\ \A d \in Challenge : d # c => seen'[d] = seen[d]
  BY <1>1 DEF IInv, TypeOK, Tally
<1>6. Guesses'
  <2> SUFFICES ASSUME NEW d \in Created
               PROVE  seen'[d].wrong = row'[d].try_count + seen'[d].lost
                                         + Cardinality(Busy(d, "increment")')
    BY <1>3 DEF Guesses
  <2>1. seen[d].wrong = row[d].try_count + seen[d].lost + Cardinality(Busy(d, "increment"))
    BY DEF IInv, Guesses
  <2> QED
    BY <1>2, <1>3, <1>4, <1>5, <2>1, Numbers DEF IInv
<1>7. GuessesBounded'
  <2> SUFFICES ASSUME NEW d \in Challenge
               PROVE  seen'[d].wrong < MaxTries + Cardinality(Proc) + seen'[d].lost
    BY DEF GuessesBounded
  <2>1. seen[d].wrong < MaxTries + Cardinality(Proc) + seen[d].lost
    BY DEF IInv, GuessesBounded
  <2> QED
    BY <1>5, <2>1
<1>8. ReplayBounded'
  <2> SUFFICES ASSUME NEW d \in Created
               PROVE  /\ seen'[d].accepted > 0 => row'[d].consumed
                      /\ seen'[d].accepted
                           + (IF row'[d].consumed THEN Cardinality(Busy(d, "consume")') ELSE 0)
                           <= Cardinality(Proc)
    BY <1>3 DEF ReplayBounded
  <2>1. d \in Challenge /\ seen[d].accepted \in Nat /\ Cardinality(Proc) \in Nat
    BY Numbers DEF IInv
  <2>2. /\ seen[d].accepted > 0 => row[d].consumed
        /\ seen[d].accepted + (IF row[d].consumed THEN Cardinality(Busy(d, "consume")) ELSE 0)
             <= Cardinality(Proc)
    BY DEF IInv, ReplayBounded
  <2>3. CASE d # c
    BY <1>3, <1>4, <1>5, <2>1, <2>2, <2>3
  <2>4. CASE d = c
    <3>1. seen[d].accepted + Cardinality(Busy(d, "consume")) <= Cardinality(Proc)
      <4>1. CASE row[d].consumed
        BY <2>2, <4>1
      <4>2. CASE ~row[d].consumed
        BY <1>4, <2>1, <2>2, <4>2
      <4> QED
        BY <4>1, <4>2
    <3>2. row'[d].consumed = TRUE /\ seen'[d].accepted = seen[d].accepted + 1
      BY <1>2, <1>3, <1>5, <2>4
    <3>3. /\ Cardinality(Busy(d, "consume")') = Cardinality(Busy(d, "consume")) - 1
          /\ Cardinality(Busy(d, "consume")) \in Nat
      BY <1>4, <2>1, <2>4
    <3>4. seen'[d].accepted + Cardinality(Busy(d, "consume")') <= Cardinality(Proc)
      BY <2>1, <3>1, <3>2, <3>3
    <3> QED
      BY <3>2, <3>4
  <2> QED
    BY <2>3, <2>4
<1>9. \A d \in Challenge \ Created : seen'[d] = seen[d]
  BY <1>1, <1>5
<1> QED
  BY <1>1, <1>3, <1>5, <1>6, <1>7, <1>8, <1>9, IdleSound, EnteringStep DEF Entering

LEMMA MarkFailsStep ==
  ASSUME IInv, NEW p \in Proc, MarkFails(p)
  PROVE  IInv'
<1> DEFINE c == req[p].ch
<1>1. /\ req[p].pc = "consume" /\ req' = [req EXCEPT ![p] = Idle]
      /\ UNCHANGED <<row, used, ended, slipped, seen>> /\ Created' = Created
  BY DEF MarkFails, At, Finish, Created
<1>2. \A d \in Challenge :
        /\ Cardinality(Busy(d, "increment")') = Cardinality(Busy(d, "increment"))
        /\ Cardinality(Busy(d, "consume")) \in Nat
        /\ Cardinality(Busy(d, "consume")') \in Nat
        /\ Cardinality(Busy(d, "consume")') <= Cardinality(Busy(d, "consume"))
  <2> SUFFICES ASSUME NEW d \in Challenge
               PROVE  /\ Cardinality(Busy(d, "increment")') = Cardinality(Busy(d, "increment"))
                      /\ Cardinality(Busy(d, "consume")) \in Nat
                      /\ Cardinality(Busy(d, "consume")') \in Nat
                      /\ Cardinality(Busy(d, "consume")') <= Cardinality(Busy(d, "consume"))
    OBVIOUS
  <2>1. Busy(d, "consume")' \in SUBSET Proc
    BY DEF Busy
  <2>2. Cardinality(Busy(d, "consume")') \in Nat
    <3>1. IsFiniteSet(Busy(d, "consume")')
      BY <2>1, ProcAssumption, FS_Subset
    <3> QED
      BY <3>1, FS_CardinalityType
  <2>3. Cardinality(Busy(d, "increment")') = Cardinality(Busy(d, "increment"))
    BY <1>1, Leaves
  <2>4. /\ Cardinality(Busy(d, "consume")) \in Nat
        /\ \/ Cardinality(Busy(d, "consume")') = Cardinality(Busy(d, "consume"))
           \/ Cardinality(Busy(d, "consume")') = Cardinality(Busy(d, "consume")) - 1
    BY <1>1, Leaves
  <2> QED
    BY <2>2, <2>3, <2>4
<1>3. Guesses' /\ GuessesBounded'
  BY <1>1, <1>2, Numbers DEF IInv, Guesses, GuessesBounded
<1>4. ReplayBounded'
  <2> SUFFICES ASSUME NEW d \in Created
               PROVE  /\ seen[d].accepted > 0 => row[d].consumed
                      /\ seen[d].accepted
                           + (IF row[d].consumed THEN Cardinality(Busy(d, "consume")') ELSE 0)
                           <= Cardinality(Proc)
    BY <1>1 DEF ReplayBounded
  <2>1. /\ seen[d].accepted > 0 => row[d].consumed
        /\ seen[d].accepted + (IF row[d].consumed THEN Cardinality(Busy(d, "consume")) ELSE 0)
             <= Cardinality(Proc)
    BY DEF IInv, ReplayBounded
  <2>2. d \in Challenge /\ seen[d].accepted \in Nat /\ Cardinality(Proc) \in Nat
    BY Numbers DEF IInv
  <2>3. CASE row[d].consumed
    <3>1. seen[d].accepted + Cardinality(Busy(d, "consume")) <= Cardinality(Proc)
      BY <2>1, <2>3
    <3>2. seen[d].accepted + Cardinality(Busy(d, "consume")') <= Cardinality(Proc)
      BY <1>2, <2>2, <3>1
    <3> QED
      BY <2>1, <2>3, <3>2
  <2>4. CASE ~row[d].consumed
    BY <2>1, <2>4
  <2> QED
    BY <2>3, <2>4
<1>5. \A d \in Created : /\ row'[d] \in Row /\ row'[d].identity = row[d].identity
                         /\ row'[d].known = row[d].known
  BY <1>1 DEF IInv, TypeOK
<1>6. seen' \in [Challenge -> Tally]
  BY <1>1 DEF IInv, TypeOK
<1> QED
  BY <1>1, <1>3, <1>4, <1>5, <1>6, IdleSound, EnteringStep DEF Entering

LEMMA ExpireStep ==
  ASSUME IInv, NEW c \in Challenge, Expire(c)
  PROVE  IInv'
<1> DEFINE n == [row[c] EXCEPT !.expired = TRUE]
<1>1. /\ c \in Created /\ row[c] \in Row /\ row' = [row EXCEPT ![c] = n]
      /\ UNCHANGED <<used, req, ended, slipped, seen>>
  BY DEF Expire, IInv, TypeOK
<1>2. /\ n \in Row /\ n.identity = row[c].identity /\ n.known = row[c].known
      /\ n.try_count = row[c].try_count /\ n.consumed = row[c].consumed
  BY <1>1, Columns
<1> HIDE DEF n
<1>3. /\ Created' = Created
      /\ \A d \in Created : /\ row'[d] \in Row
                            /\ row'[d].identity = row[d].identity
                            /\ row'[d].known = row[d].known
                            /\ row'[d].try_count = row[d].try_count
                            /\ row'[d].consumed = row[d].consumed
  <2>1. /\ Created' = Created /\ row'[c] = n
        /\ \A d \in Created : d # c => row'[d] = row[d]
        /\ \A d \in Created : /\ row'[d] \in Row
                              /\ row'[d].identity = row[d].identity
                              /\ row'[d].known = row[d].known
    BY <1>1, <1>2, UpdatedRows
  <2> QED
    BY <1>2, <2>1
<1>4. TypeOK' /\ Requests'
  BY <1>1, <1>3 DEF IInv, TypeOK, Requests, At
<1>5. \A d \in Challenge : /\ Busy(d, "increment")' = Busy(d, "increment")
                           /\ Busy(d, "consume")' = Busy(d, "consume")
  BY <1>1 DEF Busy
<1>6. IsFiniteSet(Created')
  BY <1>3 DEF IInv, Fresh
<1>7. Fresh' /\ Guesses' /\ GuessesBounded' /\ ReplayBounded'
  BY <1>1, <1>3, <1>5, <1>6, SendingKeepsCodes
<1>8. \A g \in Gate, k \in Key : Beyond(g, k)' = Beyond(g, k)
  <2>1. \A q \in Proc : req[q].pc = "send" => req[q].ch \in Created
    BY DEF IInv, TypeOK
  <2> QED
    BY <1>1, <1>3, <2>1 DEF Beyond, Past, Whose, At
<1>9. WithinBudget'
  BY <1>1, <1>3, <1>8, EnteringKeepsBudget
<1> QED
  BY <1>4, <1>7, <1>9 DEF IInv

-----------------------------------------------------------------------------
LEMMA NextIInv == IInv /\ [Next]_vars => IInv'
<1> SUFFICES ASSUME IInv, [Next]_vars PROVE IInv'
  OBVIOUS
<1>1. ASSUME NEW p \in Proc, NEW i \in Identity, ChallengeStart(p, i) PROVE IInv'
  BY <1>1, ChallengeStartStep
<1>2. ASSUME NEW p \in Proc, Allow(p) \/ AllowFails(p) PROVE IInv'
  BY <1>2, AllowStep, AllowFailsStep
<1>3. ASSUME NEW p \in Proc, NEW c \in Challenge,
             Create(p, c) \/ WrongCode(p, c) \/ RightCode(p, c)
      PROVE  IInv'
  BY <1>3, CreateStep, WrongCodeStep, RightCodeStep
<1>4. ASSUME NEW p \in Proc, SendOTP(p) \/ SendFails(p) PROVE IInv'
  BY <1>4, SendOTPStep, SendFailsStep
<1>5. ASSUME NEW p \in Proc,
             IncrementTry(p) \/ IncrementLost(p) \/ MarkConsumed(p) \/ MarkFails(p)
      PROVE  IInv'
  BY <1>5, IncrementTryStep, IncrementLostStep, MarkConsumedStep, MarkFailsStep
<1>6. ASSUME NEW g \in Gate, NEW k \in Key, WindowEnds(g, k) PROVE IInv'
  BY <1>6, WindowEndsStep
<1>7. ASSUME NEW c \in Challenge, Expire(c) PROVE IInv'
  BY <1>7, ExpireStep
<1>8. CASE UNCHANGED vars
  BY <1>8 DEF vars, IInv, TypeOK, Requests, Fresh, Guesses, GuessesBounded, ReplayBounded,
              WithinBudget, SentFor, Beyond, Past, Whose, At, Busy, Budget, Admitted, Created
<1> QED
  BY <1>1, <1>2, <1>3, <1>4, <1>5, <1>6, <1>7, <1>8 DEF Next

\* The inductive invariant holds in every reachable state, for any number of
\* concurrent requests (OTPAuth.Challenge, OTPAuth.Verify).
THEOREM Invariance == Spec => []IInv
BY InitIInv, NextIInv, PTL DEF Spec

\* Rows, counters and requests keep their types.
THEOREM TypeCorrect == Spec => []TypeOK
<1>1. IInv => TypeOK
  BY DEF IInv
<1> QED
  BY <1>1, Invariance, PTL

\* No interleaving at the gates sends more codes than the windows admit
\* (Allow, assertTenantOTPQuota).
THEOREM SendsWithinLimitHolds == Spec => []SendsWithinLimit
BY Consequences, Invariance, PTL

\* No interleaving of wrong codes gets past the tries by more than the
\* processes and the lost updates (Verify, IncrementTry).
THEOREM GuessesBoundedHolds == Spec => []GuessesBounded
<1>1. IInv => GuessesBounded
  BY DEF IInv
<1> QED
  BY <1>1, Invariance, PTL

\* No code is accepted by a request that comes after the first acceptance
\* (Verify, MarkConsumed).
THEOREM ReplayBoundedHolds == Spec => []ReplayBounded
<1>1. IInv => ReplayBounded
  BY DEF IInv
<1> QED
  BY <1>1, Invariance, PTL
=============================================================================
