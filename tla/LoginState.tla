----------------------------- MODULE LoginState -----------------------------
(***************************************************************************)
(* What a login keeps in Redis: of one identity and its user the counter   *)
(* of wrong passwords, the risk counters and the locks; and the values     *)
(* that are good for one use: step-up and merge tokens, pending second     *)
(* factors and passkey sessions, OAuth states, and the authorization codes *)
(* of the hosted page.  The wrong passwords are counted by the normalised  *)
(* identity, one for all its spellings; the risk counters and locks by the *)
(* string the client sent, or by the user_id.  One command at a time;      *)
(* whose value it is and to which redirect_uri it was bound is a Boolean,  *)
(* the keys by IP repeat those by identity.                                *)
(***************************************************************************)
EXTENDS Integers, FiniteSets

CONSTANTS
  Value,      \* one-time values
  Spelling,   \* the strings that are normalised to the identity
  UserId,     \* the user_id of its user
  Proc,       \* requests served at a time
  None,
  Limit,      \* pwdFailLimit
  RiskLimit,  \* risk.lock_after_failures
  MaxRisk,    \* bound on the risk counter
  MaxPuts,    \* bound on the writes of one value
  MaxLost     \* bound on the commands of a kind that fail

ASSUME NoneAssumption == None \notin Value
ASSUME UserIdAssumption == UserId \notin Spelling
ASSUME LimitAssumption == Limit \in Nat \ {0} /\ RiskLimit \in Nat \ {0}
ASSUME ProcAssumption == IsFiniteSet(Proc)

VARIABLES
  fails,      \* uac:rl:pwd:fail:id, 0 when the key is gone
  risk,       \* uac:risk:fail:id of each string, 0 when the key is gone
  locked,     \* uac:risk:lock:id of each string is there
  value,      \* the one-time values
  req,        \* the request each process is serving
  guesses,    \* history: wrong passwords since fails was last 0
  lost,       \* history: of these, how many could not be counted
  late,       \* history: passwords that logins compared since the lock was set
  unread,     \* history: lock checks since then whose read failed
  lifted,     \* history: the lock was taken away, or not set, since the count began
  puts,       \* history: how often each value was written
  redeemed,   \* history: how often each value was honoured
  loose,      \* history: the values some request has read with a plain GET
  undeleted   \* history: how often deleting the value after that has failed

limits == <<fails, risk, locked, guesses, lost, late, unread, lifted>>
values == <<value, puts, redeemed, loose, undeleted>>
vars == <<limits, values, req>>

-----------------------------------------------------------------------------
Kind == {"token", "second", "state", "code"}

\* What a risk counter and a lock may be kept under.  Without an identity there is
\* neither.
Key == Spelling \cup {UserId}

\* What is noted of a request that is not a login goes under the user_id.
Idle == [pc |-> "idle", v |-> None, login |-> FALSE, key |-> UserId]

PC == {"idle", "count", "compare", "fail", "note", "lock", "issue", "second", "clear",
       "del", "spoil"}

\* A password is verified for a login, or again for a user who is logged in.
Req == [pc : PC, v : Value \cup {None}, login : BOOLEAN, key : Key]

At(p, pc) == req[p].pc = pc

Begin(p, login, k) ==
  req' = [req EXCEPT ![p] = [pc |-> "count", v |-> None, login |-> login, key |-> k]]

Goto(p, pc, v) ==
  req' = [req EXCEPT ![p] = [pc |-> pc, v |-> v, login |-> req[p].login, key |-> req[p].key]]

Finish(p) == req' = [req EXCEPT ![p] = Idle]

\* Login notes what failed; StepUp, Bind and MergeStart only return the error.
Refuse(p) == IF req[p].login THEN Goto(p, "note", None) ELSE Finish(p)

Stored == [st : {"none", "live", "gone"}, kind : Kind]

Live(v) == value[v].st = "live"

\* Mutant: as though the key had never been used.
DropForgets(v) == value' = [value EXCEPT ![v] = [st |-> "none", kind |-> value[v].kind]]

Drop(v) == value' = [value EXCEPT ![v] = [st |-> "gone", kind |-> value[v].kind]]

Honour(v) == redeemed' = [redeemed EXCEPT ![v] = @ + 1]

\* The lock k goes, or is not there; the account of what it let through ends.
Lift(k) ==
  /\ locked' = [locked EXCEPT ![k] = FALSE]
  /\ lifted' = [lifted EXCEPT ![k] = @ \/ locked[k]]
  /\ late' = [late EXCEPT ![k] = 0] /\ unread' = [unread EXCEPT ![k] = 0]

-----------------------------------------------------------------------------
Init ==
  /\ fails = 0
  /\ risk = [k \in Key |-> 0] /\ locked = [k \in Key |-> FALSE]
  /\ value = [v \in Value |-> [st |-> "none", kind |-> "code"]]
  /\ req = [p \in Proc |-> Idle]
  /\ guesses = 0 /\ lost = 0
  /\ late = [k \in Key |-> 0] /\ unread = [k \in Key |-> 0] /\ lifted = [k \in Key |-> FALSE]
  /\ puts = [v \in Value |-> 0] /\ redeemed = [v \in Value |-> 0]
  /\ loose = {} /\ undeleted = [v \in Value |-> 0]

-----------------------------------------------------------------------------
\* Mutant: a lock is not looked for.
LoginUnlocked(p, k) ==
  /\ At(p, "idle") /\ Begin(p, TRUE, k)
  /\ UNCHANGED <<limits, values>>

\* assertNotLocked looks for the lock of the string it is given, and lets the login
\* go on, also when the lock cannot be read.  The string may be anything, a
\* user_id too.
Login(p, k) ==
  /\ At(p, "idle")
  /\ \/ ~locked[k] /\ UNCHANGED unread
     \/ locked[k] /\ unread[k] < MaxLost /\ unread' = [unread EXCEPT ![k] = @ + 1]
  /\ Begin(p, TRUE, k)
  /\ UNCHANGED <<fails, risk, locked, guesses, lost, late, lifted, values>>

\* StepUp, and likewise Bind and MergeStart: they do not look for a lock.
StepUp(p) ==
  /\ At(p, "idle")
  /\ Begin(p, FALSE, UserId)
  /\ UNCHANGED <<limits, values>>

\* A login by another method compares no password here.
OtherMethod(p) ==
  /\ At(p, "count") /\ req[p].login
  /\ Goto(p, "note", None) \/ Goto(p, "clear", None)
  /\ UNCHANGED <<limits, values>>

\* Any other string is refused by NormalizePhone or NormalizeEmail.
Normalises(p) == req[p].login => req[p].key \in Spelling

\* Mutant: off by one.
CheckOneMore(p) ==
  /\ At(p, "count")
  /\ (Normalises(p) /\ fails <= Limit /\ Goto(p, "compare", None)) \/ Refuse(p)
  /\ UNCHANGED <<limits, values>>

\* The counters in Redis, by identity and by address, are read, not raised.
Exhausted == fails >= Limit

\* PasswordAuth.Verify refuses when the counter has reached the limit or cannot
\* be read; a login counts the refusal as a failure.
failCountAtLeast(p) ==
  /\ At(p, "count")
  /\ (Normalises(p) /\ ~Exhausted /\ Goto(p, "compare", None)) \/ Refuse(p)
  /\ UNCHANGED <<limits, values>>

\* The password is compared although the lock the login looked for is there.
Late(p) ==
  late' = IF locked[req[p].key] /\ req[p].login THEN [late EXCEPT ![req[p].key] = @ + 1] ELSE late

\* No such identity, no password, or another one.
WrongPassword(p) ==
  /\ At(p, "compare")
  /\ guesses' = guesses + 1 /\ Late(p)
  /\ Goto(p, "fail", None)
  /\ UNCHANGED <<fails, risk, locked, lost, unread, lifted, values>>

\* The identity or its credentials cannot be read.
LookupFails(p) ==
  /\ At(p, "compare")
  /\ Refuse(p)
  /\ UNCHANGED <<limits, values>>

\* fail(): INCR, and an error is dropped.
Fail(p) ==
  /\ At(p, "fail")
  /\ \/ fails' = fails + 1 /\ UNCHANGED lost
     \/ lost < MaxLost /\ lost' = lost + 1 /\ UNCHANGED fails
  /\ Refuse(p)
  /\ UNCHANGED <<risk, locked, guesses, late, unread, lifted, values>>

Reset == fails' = 0 /\ guesses' = 0 /\ lost' = 0

\* The counter is deleted, or not (the error is dropped).  A login issues its
\* tokens next, or asks for a second factor; the others issue theirs, unless
\* the identity is not the one they ask for.
RightPassword(p) ==
  /\ At(p, "compare") /\ Late(p)
  /\ Reset \/ UNCHANGED <<fails, guesses, lost>>
  /\ Goto(p, IF req[p].login THEN "clear" ELSE "issue", None) \/ Finish(p)
  /\ UNCHANGED <<risk, locked, unread, lifted, values>>

Noted(p) == risk' = [risk EXCEPT ![req[p].key] = @ + 1]

\* Mutant: the lock comes one failure late.
NoteOneMore(p) ==
  /\ At(p, "note") /\ risk[req[p].key] < MaxRisk
  /\ Noted(p)
  /\ IF risk[req[p].key] > RiskLimit THEN Goto(p, "lock", None) ELSE Finish(p)
  /\ UNCHANGED <<fails, locked, guesses, lost, late, unread, lifted, values>>

\* INCR by Allow; above the limit the lock is to be set.  Login counts under the
\* string it was sent, MFAComplete and PasskeyLoginFinish under the user_id.
noteLoginFailure(p) ==
  /\ At(p, "note") /\ risk[req[p].key] < MaxRisk
  /\ Noted(p)
  /\ IF risk[req[p].key] >= RiskLimit THEN Goto(p, "lock", None) ELSE Finish(p)
  /\ UNCHANGED <<fails, locked, guesses, lost, late, unread, lifted, values>>

SetLock(p) ==
  /\ At(p, "lock")
  /\ locked' = [locked EXCEPT ![req[p].key] = TRUE]
  /\ lifted' = [lifted EXCEPT ![req[p].key] = FALSE]
  /\ Finish(p)
  /\ UNCHANGED <<fails, risk, guesses, lost, late, unread, values>>

\* The risk counter is left to expire.
clearLoginFailures(p) ==
  /\ At(p, "clear")
  /\ Lift(req[p].key)
  /\ Finish(p)
  /\ UNCHANGED <<fails, risk, guesses, lost, values>>

\* A lock expires, or AdminUnlock deletes it.
Unlock(k) ==
  /\ locked[k] /\ Lift(k)
  /\ UNCHANGED <<fails, risk, guesses, lost, values, req>>

FailWindowEnds ==
  /\ fails > 0 /\ Reset
  /\ UNCHANGED <<risk, locked, late, unread, lifted, values, req>>

RiskWindowEnds(k) ==
  /\ risk[k] > 0 /\ risk' = [risk EXCEPT ![k] = 0]
  /\ lifted' = [lifted EXCEPT ![k] = FALSE]
  /\ UNCHANGED <<fails, locked, guesses, lost, late, unread, values, req>>

\* A command fails, or the process dies: what was to be written is not.
Abort(p) ==
  /\ ~At(p, "idle")
  /\ At(p, "fail") => lost < MaxLost
  /\ lost' = IF At(p, "fail") THEN lost + 1 ELSE lost
  /\ lifted' = [lifted EXCEPT ![req[p].key] = @ \/ At(p, "lock")]
  /\ Finish(p)
  /\ UNCHANGED <<fails, risk, locked, guesses, late, unread, values>>

-----------------------------------------------------------------------------
SetJSON(v, kind) ==
  /\ puts[v] < MaxPuts
  /\ value' = [value EXCEPT ![v] = [st |-> "live", kind |-> kind]]
  /\ puts' = [puts EXCEPT ![v] = @ + 1]
  /\ UNCHANGED <<limits, redeemed, loose, undeleted>>

\* Under a new random key.
SetNew(v, kind) == value[v].st = "none" /\ SetJSON(v, kind)

\* The token of StepUp or MergeStart; Bind has none, and ends in Abort.
IssueToken(p, v) == At(p, "issue") /\ SetNew(v, "token") /\ Finish(p)

\* Once verifyMFACode has accepted the code.
stepUpTOTP(v) == SetNew(v, "token") /\ UNCHANGED req

\* For a login by any method, if the user has a second factor.
createMFAPending(v) == SetNew(v, "second") /\ UNCHANGED req

PasskeyRegisterBegin(v) == SetNew(v, "token") /\ UNCHANGED req

PasskeyLoginBegin(v) == SetNew(v, "second") /\ UNCHANGED req

IssueHostedCode(v) == SetNew(v, "code") /\ UNCHANGED req

\* The name of an OAuth state may be the client's choice, and then overwrites
\* one of that name.
Start(v) ==
  /\ value[v].st = "none" \/ value[v].kind = "state"
  /\ SetJSON(v, "state") /\ UNCHANGED req

\* A pending second factor has its code or its signature verified next.
Honoured(p, v) ==
  /\ Honour(v)
  /\ IF value[v].kind = "second" THEN Goto(p, "second", None) ELSE Finish(p)

\* Mutant: read with a plain GET, to be deleted when all has gone well.
GetOnly(p, v) ==
  /\ At(p, "idle") /\ Live(v) /\ value[v].kind # "code"
  /\ Honoured(p, v)
  /\ UNCHANGED <<limits, value, puts, loose, undeleted>>

\* consumeStepUp, MergeConfirm, MFAComplete, the passkeys' Finish and
\* ConsumeState: GETDEL.
\* A value that is not the caller's is spent all the same.
GetDelJSON(p, v) ==
  /\ At(p, "idle") /\ Live(v) /\ value[v].kind # "code"
  /\ Drop(v)
  /\ Honoured(p, v) \/ UNCHANGED <<redeemed, req>>
  /\ UNCHANGED <<limits, puts, loose, undeleted>>

\* Any error of GETDEL is taken for a server without it: GET, then DEL.
GetThenDel(p, v) ==
  /\ At(p, "idle") /\ Live(v) /\ value[v].kind # "code"
  /\ loose' = loose \cup {v}
  /\ Goto(p, "del", v) \/ Goto(p, "spoil", v)
  /\ UNCHANGED <<limits, value, puts, redeemed, undeleted>>

\* ExchangeToken reads the code, and deletes it only if all of client,
\* redirect_uri and verifier are right.
ExchangeToken(p, v) ==
  /\ At(p, "idle") /\ Live(v) /\ value[v].kind = "code"
  /\ loose' = loose \cup {v}
  /\ Goto(p, "del", v)
  /\ UNCHANGED <<limits, value, puts, redeemed, undeleted>>

\* Mutant: the code is left to expire.
DelNot(p, v) ==
  /\ At(p, "del") /\ req[p].v = v
  /\ Honoured(p, v)
  /\ UNCHANGED <<limits, value, puts, loose, undeleted>>

\* DEL, and an error is dropped; then the value is honoured.
Del(p, v) ==
  /\ At(p, "del") /\ req[p].v = v
  /\ \/ Drop(v) /\ UNCHANGED undeleted
     \/ undeleted[v] < MaxLost /\ undeleted' = [undeleted EXCEPT ![v] = @ + 1]
        /\ UNCHANGED value
  /\ Honoured(p, v)
  /\ UNCHANGED <<limits, puts, loose>>

\* DEL of a value that is not the caller's.
Spoil(p, v) ==
  /\ At(p, "spoil") /\ req[p].v = v
  /\ Drop(v)
  /\ Finish(p)
  /\ UNCHANGED <<limits, puts, redeemed, loose, undeleted>>

\* verifyMFACode, or the passkey's signature: MFAComplete and PasskeyLoginFinish
\* look for no lock, and go on under the user_id.
SecondFactor(p) ==
  /\ At(p, "second")
  /\ Goto(p, "clear", None) \/ Goto(p, "note", None)
  /\ UNCHANGED <<limits, values>>

Expire(v) ==
  /\ Live(v) /\ Drop(v)
  /\ UNCHANGED <<limits, puts, redeemed, loose, undeleted, req>>

-----------------------------------------------------------------------------
Next ==
  \/ \E p \in Proc :
       \/ \E k \in Key : Login(p, k)
       \/ StepUp(p) \/ OtherMethod(p) \/ failCountAtLeast(p) \/ WrongPassword(p)
       \/ LookupFails(p) \/ Fail(p)
       \/ RightPassword(p) \/ noteLoginFailure(p) \/ SetLock(p)
       \/ clearLoginFailures(p) \/ SecondFactor(p) \/ Abort(p)
       \/ \E v \in Value : \/ GetDelJSON(p, v) \/ GetThenDel(p, v)
                           \/ ExchangeToken(p, v) \/ Del(p, v) \/ Spoil(p, v)
                           \/ IssueToken(p, v)
  \/ FailWindowEnds \/ \E k \in Key : Unlock(k) \/ RiskWindowEnds(k)
  \/ \E v \in Value :
       \/ Expire(v) \/ stepUpTOTP(v) \/ createMFAPending(v) \/ PasskeyRegisterBegin(v)
       \/ PasskeyLoginBegin(v) \/ IssueHostedCode(v) \/ Start(v)

Spec == Init /\ [][Next]_vars

-----------------------------------------------------------------------------
\* Counters, values and requests have the shape the code gives them.
TypeOK ==
  /\ fails \in Nat /\ risk \in [Key -> Nat] /\ locked \in [Key -> BOOLEAN]
  /\ value \in [Value -> Stored] /\ \A v \in Value : value[v].st = "none" <=> puts[v] = 0
  /\ req \in [Proc -> Req]
  /\ guesses \in Nat /\ lost \in Nat
  /\ late \in [Key -> Nat] /\ unread \in [Key -> Nat] /\ lifted \in [Key -> BOOLEAN]
  /\ puts \in [Value -> Nat] /\ redeemed \in [Value -> Nat]
  /\ loose \subseteq Value /\ undeleted \in [Value -> Nat]

\* The count is read before and raised after the comparison: in one window no
\* more passwords are guessed than the limit, one more for every other
\* request, and those that could not be counted.  However the identity is spelled,
\* and locked or not (PasswordAuth.Verify).
GuessesBounded == guesses < Limit + Cardinality(Proc) + lost

\* Too many failures noted under one string leave the lock of that string, or a
\* request about to set it, unless it was lifted or could not be set in the same
\* window: by its expiry, the administrator, a login with that string that was under
\* way, or a failing command.  Failures spread over several spellings, or noted
\* under the user_id, do not add up (noteLoginFailure, clearLoginFailures).
LockFollows ==
  \A k \in Key : risk[k] > RiskLimit =>
    locked[k] \/ lifted[k] \/ \E p \in Proc : At(p, "lock") /\ req[p].key = k

\* While the lock of a string holds, no login that sends this string compares a
\* password but for those that had passed the lock, or could not read it.  It stops
\* neither a login that spells the identity otherwise nor a step-up, and the
\* lock of a user_id stops no password login (assertNotLocked).
LockStopsGuesses == \A k \in Key : locked[k] => late[k] <= Cardinality(Proc) + unread[k]

\* A step-up or merge token, pending factor, passkey session or state is honoured once
\* for each time it was written, as long as GETDEL works (GetDelJSON).
TakenOnce == \A v \in Value \ loose : redeemed[v] <= puts[v]

\* A value that is read and deleted in two commands, as the authorization code
\* always is, is honoured by no more than the requests that overlap, and once
\* more for every deletion that failed (ExchangeToken).
ExchangesBounded ==
  \A v \in Value : puts[v] = 1 => redeemed[v] <= Cardinality(Proc) + undeleted[v]
=============================================================================
