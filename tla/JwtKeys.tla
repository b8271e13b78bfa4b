------------------------------ MODULE JwtKeys ------------------------------
(***************************************************************************)
(* The RS256 signing keys of one server: the current and the previous key  *)
(* in memory (jwtutil.Manager), the four kinds of file they are kept in,   *)
(* and the administrator's rotation and retirement, which change memory    *)
(* first and then write file by file.  A key is a number, 0 for none; an   *)
(* unreadable file is one that holds none.  So is a kid: k stands for the  *)
(* name k % NameCount, 0 the empty one, with k \div NameCount blanks about *)
(* it, and -k for k with the suffix "-prev".                               *)
(***************************************************************************)
EXTENDS Integers

CONSTANTS
  Proc,      \* administrative requests served at a time
  NameCount, \* how many names a kid may have without the blanks
  ConfKid,   \* jwt.kid
  ConfPrev,  \* what jwt.previous_kid may be, 0 when it is not there
  MaxKey,    \* bound on the keys generated
  MaxKid,    \* bound on the kids an administrator asks for
  FailAgain  \* bound: files fail to be written, and kids have blanks about them, also
             \* when something has gone wrong

ASSUME NameCountAssumption == NameCount \in Nat \ {0}
ASSUME ConfKidAssumption == ConfKid \in Nat \ {0} /\ ConfPrev \subseteq Nat
ASSUME FailAgainAssumption == FailAgain \in BOOLEAN

VARIABLES
  up,        \* the server runs
  cur,       \* privateKey, publicKey and kid
  prev,      \* prevPrivate, prevPublic and prevKid
  files,     \* the key files and their .kid files
  previous,  \* jwt.previous_kid
  req,       \* the request each process is serving
  made,      \* how many keys were generated
  token,     \* history: what some access token was signed with, and none
             \* once its key is rotated out, retired or left behind by a crash
  taken,     \* history: the last rotation was to a kid that was still the previous
             \* key's in the files; until a retirement, a start or a crash outside it
  disturbed  \* history: since the start requests have overlapped, a file could
             \* not be written, or a kid had blanks about it

vars == <<up, cur, prev, files, previous, req, made, token, taken, disturbed>>

-----------------------------------------------------------------------------
Pair == [key : Nat, kid : Int]

NoPair == [key |-> 0, kid |-> 0]

File == {"priv", "privKid", "prev", "prevPub", "prevKid", "prevPubKid"}

PC == {"idle", "snapshot", "clear"} \cup File

Req == [pc : PC, cur : Pair, prev : Pair]

Idle == [pc |-> "idle", cur |-> NoPair, prev |-> NoPair]

At(p, pc) == req[p].pc = pc

Quiet == \A p \in Proc : At(p, "idle")

Put(p, r) == req' = [req EXCEPT ![p] = r]

\* The files in the order they are written in, a rotation from "priv" and a
\* retirement, which removes them, from "prev" on.
After(r) ==
  CASE r.pc = "priv"    -> "privKid"
    [] r.pc = "privKid" -> IF r.prev.key = 0 THEN "idle" ELSE "prev"
    [] r.pc = "prev"    -> "prevPub"
    [] r.pc = "prevPub" -> "prevKid"
    [] r.pc = "prevKid" -> "prevPubKid"
    [] OTHER            -> "idle"

Content(r) ==
  CASE r.pc = "priv"                -> r.cur.key
    [] r.pc = "privKid"             -> r.cur.kid
    [] r.pc \in {"prev", "prevPub"} -> r.prev.key
    [] OTHER                        -> r.prev.kid

Proceed(p) ==
  Put(p, [pc |-> After(req[p]), cur |-> req[p].cur, prev |-> req[p].prev])

-----------------------------------------------------------------------------
\* What keyFuncRSA finds for a kid.
keyFuncRSA(kid) ==
  IF kid = cur.kid THEN cur.key ELSE IF kid = prev.kid THEN prev.key ELSE 0

JWKS == {cur} \cup IF prev.key = 0 THEN {} ELSE {prev}

\* ReadKidFile trims what RotateRSA and WriteKidFile take as it is.
Trim(k) == IF k > 0 THEN k % NameCount ELSE k

\* What buildJWT makes of the files: the current kid, and the previous key
\* from its private or its public file, under the first name there is.
KidOf(f) == IF Trim(f["privKid"]) = 0 THEN ConfKid ELSE Trim(f["privKid"])

PrevKeyOf(f) == IF f["prev"] = 0 THEN f["prevPub"] ELSE f["prev"]

OldKid(f) ==
  IF Trim(f["prevKid"]) # 0 THEN Trim(f["prevKid"])
  ELSE IF Trim(f["prevPubKid"]) # 0 THEN Trim(f["prevPubKid"]) ELSE previous

\* Mutant: a previous key without a kid is taken as it is.
PrevKidOfNone(f) == OldKid(f)

PrevKidOf(f) == IF OldKid(f) # 0 THEN OldKid(f) ELSE 0 - KidOf(f)

LoadPrev(f) ==
  IF PrevKeyOf(f) = 0 THEN NoPair ELSE [key |-> PrevKeyOf(f), kid |-> PrevKidOf(f)]

-----------------------------------------------------------------------------
\* Before the first start: there is no key, but for the previous one the operator
\* may have provided, under a kid that is not the current one's.
Init ==
  /\ up = FALSE /\ made \in {0, 1} /\ disturbed = FALSE /\ taken = FALSE
  /\ previous \in ConfPrev
  /\ made = 1 => previous # ConfKid
  /\ cur = NoPair /\ prev = NoPair
  /\ files = [f \in File |-> IF f = "prevPub" THEN made ELSE 0]
  /\ req = [p \in Proc |-> Idle]
  /\ token = NoPair

\* A token to be followed is signed.
Sign ==
  /\ up /\ token = NoPair /\ token' = cur
  /\ UNCHANGED <<up, cur, prev, files, previous, req, made, taken, disturbed>>

\* Another request is under way.
Overlaps == ~Quiet

\* Mutant: the new kid may be that of the current key.
RotateSameKid(p, kid) ==
  /\ up /\ At(p, "idle") /\ made < MaxKey
  /\ made' = made + 1
  /\ prev' = cur /\ cur' = [key |-> made + 1, kid |-> kid]
  /\ token' = IF token = cur THEN token ELSE NoPair
  /\ taken' = (kid = OldKid(files))
  /\ disturbed' = (disturbed \/ Overlaps \/ kid # Trim(kid))
  /\ Put(p, [pc |-> "snapshot", cur |-> NoPair, prev |-> NoPair])
  /\ UNCHANGED <<up, files, previous>>

\* RotateRSA, first in RotateJWTKeys.  The kid may be any but the current one, with
\* blanks about it or without.
RotateRSA(p, kid) ==
  /\ up /\ At(p, "idle") /\ made < MaxKey
  /\ kid # cur.kid /\ (disturbed => FailAgain \/ kid = Trim(kid))
  /\ made' = made + 1
  /\ prev' = cur /\ cur' = [key |-> made + 1, kid |-> kid]
  /\ token' = IF token = cur THEN token ELSE NoPair
  /\ taken' = (kid = OldKid(files))
  /\ disturbed' = (disturbed \/ Overlaps \/ kid # Trim(kid))
  /\ Put(p, [pc |-> "snapshot", cur |-> NoPair, prev |-> NoPair])
  /\ UNCHANGED <<up, files, previous>>

\* Mutant: the previous key is written first.
SnapshotPrevFirst(p) ==
  /\ up /\ At(p, "snapshot")
  /\ Put(p, [pc |-> "prev", cur |-> cur, prev |-> prev])
  /\ UNCHANGED <<up, cur, prev, files, previous, made, token, taken, disturbed>>

SnapshotKeys(p) ==
  /\ up /\ At(p, "snapshot")
  /\ Put(p, [pc |-> "priv", cur |-> cur, prev |-> prev])
  /\ UNCHANGED <<up, cur, prev, files, previous, made, token, taken, disturbed>>

\* RetireJWTPrevious looks whether there is a previous key...
RetireJWTPrevious(p) ==
  /\ up /\ At(p, "idle") /\ prev.kid # 0
  /\ taken' = FALSE /\ disturbed' = (disturbed \/ Overlaps)
  /\ Put(p, [pc |-> "clear", cur |-> NoPair, prev |-> prev])
  /\ UNCHANGED <<up, cur, prev, files, previous, made, token>>

Retired(p) == token' = IF token = req[p].prev THEN NoPair ELSE token

\* Mutant: the files are left.
ClearOnly(p) ==
  /\ up /\ At(p, "clear")
  /\ prev' = NoPair /\ Retired(p)
  /\ Put(p, Idle)
  /\ UNCHANGED <<up, cur, files, previous, made, taken, disturbed>>

\* ... and takes away the one there is by then.
ClearPreviousRSA(p) ==
  /\ up /\ At(p, "clear")
  /\ prev' = NoPair /\ Retired(p)
  /\ Put(p, [pc |-> "prev", cur |-> NoPair, prev |-> NoPair])
  /\ UNCHANGED <<up, cur, files, previous, made, taken, disturbed>>

\* os.WriteFile, or os.Remove.
WriteFile(p) ==
  /\ up /\ req[p].pc \in File
  /\ files' = [files EXCEPT ![req[p].pc] = Content(req[p])]
  /\ Proceed(p)
  /\ UNCHANGED <<up, cur, prev, previous, made, token, taken, disturbed>>

\* A key that cannot be written, or not in full, ends a rotation; a kid that
\* cannot, or a file that cannot be removed, does not.
WriteFileFails(p) ==
  /\ up /\ req[p].pc \in File
  /\ disturbed => FailAgain
  /\ UNCHANGED files \/ files' = [files EXCEPT ![req[p].pc] = 0]
  /\ disturbed' = TRUE
  /\ IF req[p].pc \in {"priv", "prev", "prevPub"} /\ Content(req[p]) # 0
     THEN Put(p, Idle)
     ELSE Proceed(p)
  /\ UNCHANGED <<up, cur, prev, previous, made, token, taken>>

\* The process ends, and may leave the file it is writing empty.
Crash ==
  /\ up /\ up' = FALSE
  /\ cur' = NoPair /\ prev' = NoPair
  /\ req' = [p \in Proc |-> Idle]
  /\ \/ UNCHANGED <<files, disturbed>>
     \/ \E p \in Proc : /\ req[p].pc \in File
                        /\ files' = [files EXCEPT ![req[p].pc] = 0]
                        /\ disturbed' = TRUE
  /\ token' = IF Quiet /\ ~disturbed THEN token ELSE NoPair
  /\ taken' = (taken /\ ~Quiet)
  /\ UNCHANGED <<previous, made>>

\* A previous key under the current kid is refused.
SetPreviousRSA(c, q) == q.kid # c.kid

\* buildJWT: a key is generated where none can be read; a previous key that is
\* refused keeps the server from starting.
Start ==
  /\ ~up
  /\ files["priv"] = 0 => made < MaxKey
  /\ made' = IF files["priv"] = 0 THEN made + 1 ELSE made
  /\ files' = [f \in File |-> IF f = "privKid" THEN KidOf(files)
                              ELSE IF f = "priv" /\ files[f] = 0 THEN made + 1
                              ELSE files[f]]
  /\ cur' = [key |-> files'["priv"], kid |-> KidOf(files)]
  /\ prev' = LoadPrev(files)
  /\ SetPreviousRSA(cur', prev')
  /\ up' = TRUE /\ taken' = FALSE /\ disturbed' = (cur'.kid # Trim(cur'.kid))
  /\ UNCHANGED <<previous, req, token>>

Next ==
  \/ Sign \/ Crash \/ Start
  \/ \E p \in Proc :
       \/ \E kid \in 1..MaxKid : RotateRSA(p, kid)
       \/ SnapshotKeys(p) \/ RetireJWTPrevious(p) \/ ClearPreviousRSA(p)
       \/ WriteFile(p) \/ WriteFileFails(p)

Spec == Init /\ [][Next]_vars

-----------------------------------------------------------------------------
\* Keys, files and requests have the shape the code gives them; a previous key
\* always has a kid (SetPreviousRSA).
TypeOK ==
  /\ up \in BOOLEAN /\ taken \in BOOLEAN /\ disturbed \in BOOLEAN /\ made \in Nat
  /\ cur \in Pair /\ prev \in Pair /\ token \in Pair /\ previous \in Nat
  /\ prev.key = 0 <=> prev.kid = 0
  /\ IF up THEN cur.key > 0 ELSE cur = NoPair /\ prev = NoPair /\ Quiet
  /\ files \in [File -> Int] /\ \A f \in {"priv", "prev", "prevPub"} : files[f] \in Nat
  /\ req \in [Proc -> Req]

\* A token is verified until its key has been rotated out a second time or is
\* retired, also by a server that was restarted with no request under way.
\* Exceptions, from when it happens to the next start: requests that overlap, a file
\* that is not written, and a kid with blanks about it, which the files give back
\* without them (RotateRSA, ClearPreviousRSA, keyFuncRSA, buildJWT).
TokenStands ==
  (up /\ ~disturbed /\ token.key # 0) => keyFuncRSA(token.kid) = token.key

\* When the last file of a rotation or a retirement is written, the files hold
\* what memory holds: a restart brings it back.  The exceptions are those of
\* TokenStands (RotateJWTKeys, RetireJWTPrevious, buildJWT).
QuietFilesMatch ==
  (up /\ ~disturbed /\ Quiet) =>
    /\ files["priv"] = cur.key /\ KidOf(files) = cur.kid
    /\ LoadPrev(files) = prev

\* The files are at every moment ones the server starts from: wherever a crash cuts a
\* rotation or a retirement off, the current and the previous kid differ.
\* Exceptions: those of TokenStands; and, until its last file is written, a rotation
\* to the kid that a previous key's kid file or jwt.previous_kid still has, as
\* from A to B and back to A: when that is cut off after the current kid file the
\* server may refuse to start (RotateJWTKeys, RetireJWTPrevious, buildJWT, SetPreviousRSA).
StartsAgain ==
  ~disturbed /\ (taken => up /\ Quiet) =>
    (PrevKeyOf(files) = 0 \/ PrevKidOf(files) # KidOf(files))
=============================================================================
