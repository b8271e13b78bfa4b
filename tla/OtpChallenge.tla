---------------------------- MODULE OtpChallenge ----------------------------
(***************************************************************************)
(* One-time codes by SMS and mail: the counters in Redis that limit how    *)
(* many are sent, and the rows of auth_challenges that limit how often a   *)
(* code may be guessed and used.                                           *)
(*                                                                         *)
(* A request that names another identity, app or scene than the row's is   *)
(* refused with no effect and is not a step.                               *)
(***************************************************************************)
EXTENDS Integers, Sequences, FiniteSets

CONSTANTS
  Identity, Challenge, Proc,
  Gates,        \* the counters of one request, in the order they are asked
  PerIdentity,  \* gates counted per identity, not per tenant or network
  FailOpen,     \* gates that let a request pass when Redis fails
  Limit,        \* gate -> requests admitted per window
  MaxTries,     \* cfg.OTP.MaxTries
  None,
  MaxWindows,   \* bound on the windows of one gate explored
  MaxFailures   \* bound on the failures explored, per gate key and per code

Gate == {Gates[i] : i \in 1 .. Len(Gates)}

ASSUME GatesAssumption ==
  /\ Gates \in Seq(Gate) /\ Len(Gates) > 0
  /\ \A i, j \in 1 .. Len(Gates) : Gates[i] = Gates[j] => i = j
  /\ PerIdentity \subseteq Gate /\ FailOpen \subseteq Gate
ASSUME LimitAssumption == Limit \in [Gate -> Nat \ {0}] /\ MaxTries \in Nat \ {0}
ASSUME ProcAssumption == IsFiniteSet(Proc)
ASSUME NoneAssumption == None \notin Identity \cup Challenge
ASSUME BoundsAssumption == MaxWindows \in Nat /\ MaxFailures \in Nat

VARIABLES
  row,     \* auth_challenges: challenge_id -> row
  used,    \* the count in Redis, by gate and key
  req,     \* the request each process is serving
  ended,   \* history: windows of a gate that have ended
  slipped, \* history: requests a gate let pass because Redis failed
  seen     \* history: what became of the codes entered for a challenge

vars == <<row, used, req, ended, slipped, seen>>

-----------------------------------------------------------------------------
Key == Identity \cup {None}

KeyOf(g, i) == IF g \in PerIdentity THEN i ELSE None

\* known: the caller has the challenge_id.
Row == [identity : Identity, known : BOOLEAN, try_count : Nat,
        consumed : BOOLEAN, expired : BOOLEAN]

PC == {"idle", "gate", "create", "send", "increment", "consume"}

Req == [pc : PC, identity : Identity \cup {None}, at : Nat,
        ch : Challenge \cup {None}]

Tally == [wrong : Nat, lost : Nat, accepted : Nat]

Idle == [pc |-> "idle", identity |-> None, at |-> 0, ch |-> None]

Created == DOMAIN row

At(p, pc) == req[p].pc = pc

Finish(p) == req' = [req EXCEPT ![p] = Idle]

Busy(ch, pc) == {p \in Proc : req[p].pc = pc /\ req[p].ch = ch}

\* Counts beyond the limit all refuse alike, so the model stops counting there.
Up(g, n) == IF n <= Limit[g] THEN n + 1 ELSE n

-----------------------------------------------------------------------------
Init ==
  /\ row = [c \in {} |-> None]
  /\ used = [g \in Gate |-> [k \in Key |-> 0]]
  /\ req = [p \in Proc |-> Idle]
  /\ ended = [g \in Gate |-> [k \in Key |-> 0]]
  /\ slipped = [g \in Gate |-> [k \in Key |-> 0]]
  /\ seen = [c \in Challenge |-> [wrong |-> 0, lost |-> 0, accepted |-> 0]]

-----------------------------------------------------------------------------
(* Sending a code *)

\* AuthService.Challenge, also on behalf of ResetPasswordStart.
ChallengeStart(p, i) ==
  /\ At(p, "idle")
  /\ req' = [req EXCEPT ![p] = [pc |-> "gate", identity |-> i, at |-> 1, ch |-> None]]
  /\ UNCHANGED <<row, used, ended, slipped, seen>>

GateOf(p) == Gates[req[p].at]
KeyAt(p)  == KeyOf(GateOf(p), req[p].identity)

Pass(p) ==
  req' = IF req[p].at = Len(Gates)
         THEN [req EXCEPT ![p].pc = "create"]
         ELSE [req EXCEPT ![p].at = @ + 1]

\* Mutant: lets one more pass.
AllowOneMore(p) ==
  /\ At(p, "gate")
  /\ used' = [used EXCEPT ![GateOf(p)][KeyAt(p)] = Up(GateOf(p), @)]
  /\ IF used[GateOf(p)][KeyAt(p)] <= Limit[GateOf(p)] THEN Pass(p) ELSE Finish(p)
  /\ UNCHANGED <<row, ended, slipped, seen>>

\* The script increments and compares in one step; a refused request has
\* used up its place at the gates before.  The resend lock, a SetNX, is the
\* last gate, with a limit of 1.
Allow(p) ==
  /\ At(p, "gate")
  /\ used' = [used EXCEPT ![GateOf(p)][KeyAt(p)] = Up(GateOf(p), @)]
  /\ IF used[GateOf(p)][KeyAt(p)] < Limit[GateOf(p)] THEN Pass(p) ELSE Finish(p)
  /\ UNCHANGED <<row, ended, slipped, seen>>

\* Redis fails: the tenant's quota is waived, every other gate refuses.  A
\* captcha refused after the first gate ends the request the same way.
AllowFails(p) ==
  /\ At(p, "gate")
  /\ IF GateOf(p) \in FailOpen
     THEN /\ slipped[GateOf(p)][KeyAt(p)] < MaxFailures
          /\ Pass(p)
          /\ slipped' = [slipped EXCEPT ![GateOf(p)][KeyAt(p)] = @ + 1]
     ELSE Finish(p) /\ UNCHANGED slipped
  /\ UNCHANGED <<row, used, ended, seen>>

Create(p, c) ==
  /\ At(p, "create")
  /\ c \notin Created
  /\ row' = [k \in Created \cup {c} |->
               IF k = c THEN [identity |-> req[p].identity, known |-> FALSE,
                              try_count |-> 0, consumed |-> FALSE, expired |-> FALSE]
               ELSE row[k]]
  /\ req' = [req EXCEPT ![p] = [pc |-> "send", identity |-> None, at |-> 0, ch |-> c]]
  /\ UNCHANGED <<used, ended, slipped, seen>>

SendOTP(p) ==
  /\ At(p, "send")
  /\ row' = [row EXCEPT ![req[p].ch].known = TRUE]
  /\ Finish(p)
  /\ UNCHANGED <<used, ended, slipped, seen>>

\* The insert or the sender fails; counters, lock and row stay.
SendFails(p) ==
  /\ At(p, "create") \/ At(p, "send")
  /\ Finish(p)
  /\ UNCHANGED <<row, used, ended, slipped, seen>>

\* A key's time to live runs out, or the day in its name changes.
WindowEnds(g, k) ==
  /\ used[g][k] > 0 /\ ended[g][k] < MaxWindows
  /\ used' = [used EXCEPT ![g][k] = 0]
  /\ ended' = [ended EXCEPT ![g][k] = @ + 1]
  /\ UNCHANGED <<row, req, slipped, seen>>

-----------------------------------------------------------------------------
(* Entering a code *)

Find(p, c, pc) ==
  /\ At(p, "idle")
  /\ c \in Created /\ row[c].known
  /\ req' = [req EXCEPT ![p] = [pc |-> pc, identity |-> None, at |-> 0, ch |-> c]]

\* Mutant: a count over the limit refuses, the limit itself does not.
WrongCodeOneMore(p, c) ==
  /\ Find(p, c, "increment")
  /\ ~row[c].consumed /\ ~row[c].expired /\ row[c].try_count <= MaxTries
  /\ seen' = [seen EXCEPT ![c].wrong = @ + 1]
  /\ UNCHANGED <<row, used, ended, slipped>>

\* Verify reads the row, finds it usable and the code wrong.
WrongCode(p, c) ==
  /\ Find(p, c, "increment")
  /\ ~row[c].consumed /\ ~row[c].expired /\ row[c].try_count < MaxTries
  /\ seen' = [seen EXCEPT ![c].wrong = @ + 1]
  /\ UNCHANGED <<row, used, ended, slipped>>

\* Mutant: asks whether the code has expired, not whether it was used.
RightCodeAgain(p, c) ==
  /\ Find(p, c, "consume")
  /\ ~row[c].expired /\ row[c].try_count < MaxTries
  /\ UNCHANGED <<row, used, ended, slipped, seen>>

\* Verify reads the row, finds it usable and the code right.
RightCode(p, c) ==
  /\ Find(p, c, "consume")
  /\ ~row[c].consumed /\ ~row[c].expired /\ row[c].try_count < MaxTries
  /\ UNCHANGED <<row, used, ended, slipped, seen>>

\* Mutant: counts the tries down.
IncrementTryDown(p) ==
  /\ At(p, "increment")
  /\ row' = [row EXCEPT ![req[p].ch].try_count = @ - 1]
  /\ Finish(p)
  /\ UNCHANGED <<used, ended, slipped, seen>>

\* UPDATE ... SET try_count = try_count + 1.
IncrementTry(p) ==
  /\ At(p, "increment")
  /\ row' = [row EXCEPT ![req[p].ch].try_count = @ + 1]
  /\ Finish(p)
  /\ UNCHANGED <<used, ended, slipped, seen>>

\* The update fails, or the caller has gone; the error is dropped.
IncrementLost(p) ==
  /\ At(p, "increment") /\ seen[req[p].ch].lost < MaxFailures
  /\ seen' = [seen EXCEPT ![req[p].ch].lost = @ + 1]
  /\ Finish(p)
  /\ UNCHANGED <<row, used, ended, slipped>>

\* An unconditional update: the code is accepted whatever the row says now.
MarkConsumed(p) ==
  /\ At(p, "consume")
  /\ row' = [row EXCEPT ![req[p].ch].consumed = TRUE]
  /\ seen' = [seen EXCEPT ![req[p].ch].accepted = @ + 1]
  /\ Finish(p)
  /\ UNCHANGED <<used, ended, slipped>>

MarkFails(p) ==
  /\ At(p, "consume")
  /\ Finish(p)
  /\ UNCHANGED <<row, used, ended, slipped, seen>>

Expire(c) ==
  /\ c \in Created /\ ~row[c].expired
  /\ row' = [row EXCEPT ![c].expired = TRUE]
  /\ UNCHANGED <<used, req, ended, slipped, seen>>

-----------------------------------------------------------------------------
Next ==
  \/ \E p \in Proc :
       \/ \E i \in Identity : ChallengeStart(p, i)
       \/ Allow(p) \/ AllowFails(p)
       \/ \E c \in Challenge :
            Create(p, c) \/ WrongCode(p, c) \/ RightCode(p, c)
       \/ SendOTP(p) \/ SendFails(p)
       \/ IncrementTry(p) \/ IncrementLost(p)
       \/ MarkConsumed(p) \/ MarkFails(p)
  \/ \E g \in Gate, k \in Key : WindowEnds(g, k)
  \/ \E c \in Challenge : Expire(c)

Spec == Init /\ [][Next]_vars

-----------------------------------------------------------------------------
\* Rows, counters and requests have the shape the code gives them.
TypeOK ==
  /\ Created \subseteq Challenge /\ \A c \in Created : row[c] \in Row
  /\ used \in [Gate -> [Key -> Nat]]
  /\ req \in [Proc -> Req]
  /\ ended \in [Gate -> [Key -> Nat]]
  /\ slipped \in [Gate -> [Key -> Nat]]
  /\ seen \in [Challenge -> Tally]
  /\ \A p \in Proc : req[p].pc \in {"send", "increment", "consume"} => req[p].ch \in Created

SentFor(g, k) == {c \in Created : row[c].known /\ KeyOf(g, row[c].identity) = k}

\* However requests interleave at the gates, no more codes go out for a key
\* than its windows together admit, but for those that passed the tenant's
\* gate while Redis failed (Challenge).
SendsWithinLimit ==
  \A g \in Gate, k \in Key :
    Cardinality(SentFor(g, k)) <= Limit[g] * (ended[g][k] + 1) + slipped[g][k]

\* The tries a challenge allows bound the wrong codes compared with it; the
\* count is read before it is raised, so requests that were under way at the
\* last try may each add one, and so may each raise that was lost (Verify).
GuessesBounded ==
  \A c \in Challenge :
    seen[c].wrong < MaxTries + Cardinality(Proc) + seen[c].lost

\* A code is accepted by requests that read its row before it was marked
\* consumed, hence at most once by each process, and never by a request that
\* comes after (Verify, MarkConsumed).
ReplayBounded ==
  \A c \in Created :
    /\ seen[c].accepted > 0 => row[c].consumed
    /\ seen[c].accepted + (IF row[c].consumed THEN Cardinality(Busy(c, "consume")) ELSE 0)
         <= Cardinality(Proc)
=============================================================================
