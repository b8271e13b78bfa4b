------------------------ MODULE AdministrationProofs ------------------------
(***************************************************************************)
(* Proofs about what administrators change: the signing keys (JwtKeys),    *)
(* the providers and the SMS channel (Providers), tenants and applications *)
(* (Applications), and the webhooks (WebhookBus).  The four share no state *)
(* and no definition; each has its own section, invariant and theorems,    *)
(* for any number of administrators, rows, kids, endpoints and goroutines. *)
(***************************************************************************)
EXTENDS JwtKeys, Providers, Applications, WebhookBus, FiniteSetTheorems, TLAPS

-----------------------------------------------------------------------------
(* JwtKeys: keys and files *)

\* A request that is about to put the previous key into its files.
Rotating(p) == At(p, "snapshot") \/ (req[p].pc \in File /\ req[p].prev.key # 0)

\* What the files already hold when the request of p is the only one, and that
\* the kid they have for a previous key is not the new one, unless it was taken.
Along(p) ==
  /\ At(p, "snapshot") => prev.key # 0
  /\ req[p].pc \in {"priv", "privKid"} => (req[p].cur = cur /\ prev.key # 0)
  /\ req[p].pc \in File \cup {"clear"} => req[p].prev = prev
  /\ req[p].pc \notin {"snapshot", "priv"} => files["priv"] = cur.key
  /\ req[p].pc \notin {"snapshot", "priv", "privKid"} => KidOf(files) = cur.kid
  /\ req[p].pc \in {"prevPub", "prevKid", "prevPubKid"} => files["prev"] = prev.key
  /\ req[p].pc \in {"prevKid", "prevPubKid"} => files["prevPub"] = prev.key
  /\ At(p, "prevPubKid") => files["prevKid"] = prev.kid
  /\ Rotating(p) => (Trim(prev.kid) = prev.kid /\ (~taken => OldKid(files) # cur.kid))

Match == files["priv"] = cur.key /\ KidOf(files) = cur.kid /\ LoadPrev(files) = prev

Steps ==
  (up /\ ~disturbed) =>
    /\ Quiet => Match
    /\ \A p \in Proc : At(p, "idle") \/ (Along(p) /\ \A q \in Proc \ {p} : At(q, "idle"))

\* The two keys have different names, and that of the current one has no blanks
\* about it.
Names ==
  up => /\ cur.kid # 0 /\ prev.kid # cur.kid
        /\ ~disturbed => Trim(cur.kid) = cur.kid

\* A token that is followed has one of the two keys, or will have when the
\* server starts.
Followed ==
  token.key # 0 =>
    IF up THEN ~disturbed => token \in {cur, prev}
    ELSE /\ files["priv"] # 0
         /\ token \in {[key |-> files["priv"], kid |-> KidOf(files)], LoadPrev(files)}

\* The inductive invariant.
IInv == TypeOK /\ Names /\ Steps /\ Followed /\ StartsAgain

-----------------------------------------------------------------------------
\* The requests after one of them has moved.
LEMMA Moved ==
  ASSUME TypeOK, NEW p \in Proc, NEW pc \in PC, NEW c \in Pair, NEW v \in Pair,
         Put(p, [pc |-> pc, cur |-> c, prev |-> v])
  PROVE  /\ req' \in [Proc -> Req]
         /\ req'[p].pc = pc /\ req'[p].cur = c /\ req'[p].prev = v
         /\ \A q \in Proc \ {p} : req'[q] = req[q]
BY DEF TypeOK, Put, Req

\* Where a request stands after a file.
LEMMA Proceeded ==
  ASSUME TypeOK, NEW p \in Proc, req[p].pc \in File, Proceed(p)
  PROVE  /\ req' \in [Proc -> Req]
         /\ req'[p].pc = After(req[p]) /\ req'[p].cur = req[p].cur /\ req'[p].prev = req[p].prev
         /\ \A q \in Proc \ {p} : req'[q] = req[q]
<1>1. After(req[p]) \in PC /\ req[p].cur \in Pair /\ req[p].prev \in Pair
  BY DEF TypeOK, Req, PC, File, After
<1> QED
  BY <1>1, Moved DEF Proceed

\* A kid stays one without the blanks, and the empty one empty.
LEMMA Trims ==
  ASSUME NEW k \in Int
  PROVE  Trim(k) \in Int /\ (k = 0 => Trim(k) = 0)
BY NameCountAssumption DEF Trim

\* The pair that the files give has a name other than 0.
LEMMA Loads ==
  ASSUME previous \in Nat,
         NEW f \in [File -> Int], \A x \in {"priv", "prev", "prevPub"} : f[x] \in Nat
  PROVE  /\ KidOf(f) \in Int /\ KidOf(f) # 0
         /\ PrevKidOf(f) \in Int /\ PrevKidOf(f) # 0
         /\ PrevKeyOf(f) \in Nat
         /\ LoadPrev(f) \in Pair /\ (LoadPrev(f).key = 0 <=> LoadPrev(f).kid = 0)
<1>1. KidOf(f) \in Int /\ KidOf(f) # 0
  <2>1. Trim(f["privKid"]) \in Int
    BY Trims DEF File
  <2> QED
    BY <2>1, ConfKidAssumption DEF KidOf
<1>2. PrevKidOf(f) \in Int /\ PrevKidOf(f) # 0
  <2>1. Trim(f["prevKid"]) \in Int /\ Trim(f["prevPubKid"]) \in Int
    BY Trims DEF File
  <2>2. OldKid(f) \in Int
    BY <2>1 DEF OldKid
  <2> QED
    BY <1>1, <2>2 DEF PrevKidOf
<1>3. PrevKeyOf(f) \in Nat
  BY DEF PrevKeyOf
<1> QED
  BY <1>1, <1>2, <1>3 DEF LoadPrev, NoPair, Pair

\* The server first starts on files that hold a previous key at most.
LEMMA InitIInv == Init => IInv
<1> SUFFICES ASSUME Init PROVE IInv
  OBVIOUS
<1>1. /\ files \in [File -> Int] /\ files["priv"] = 0 /\ files["privKid"] = 0
      /\ files["prev"] = 0 /\ files["prevPub"] = made
      /\ files["prevKid"] = 0 /\ files["prevPubKid"] = 0
      /\ made \in Nat /\ previous \in Nat /\ ~up
  BY ConfKidAssumption DEF Init, File
<1>2. TypeOK
  <2>1. NoPair \in Pair /\ NoPair.key = 0 /\ NoPair.kid = 0
    BY DEF Pair, NoPair
  <2>2. req \in [Proc -> Req] /\ Quiet
    BY <2>1 DEF Init, Idle, Req, PC, Quiet, At
  <2>3. /\ cur = NoPair /\ prev = NoPair /\ token = NoPair
        /\ up \in BOOLEAN /\ disturbed \in BOOLEAN /\ taken \in BOOLEAN
    BY DEF Init
  <2> QED
    BY <1>1, <2>1, <2>2, <2>3 DEF TypeOK
<1>3. Names /\ Steps
  BY <1>1 DEF Names, Steps
<1>4. Followed
  BY DEF Init, Followed, NoPair
<1>5. StartsAgain
  <2>1. Trim(0) = 0
    BY Trims
  <2>2. KidOf(files) = ConfKid /\ OldKid(files) = previous
    BY <1>1, <2>1 DEF KidOf, OldKid
  <2>3. made = 1 => PrevKidOf(files) # KidOf(files)
    BY <1>1, <2>2, ConfKidAssumption DEF Init, PrevKidOf
  <2>4. made = 0 => PrevKeyOf(files) = 0
    BY <1>1 DEF PrevKeyOf
  <2> QED
    BY <2>3, <2>4 DEF Init, StartsAgain
<1> QED
  BY <1>2, <1>3, <1>4, <1>5 DEF IInv

\* Signing notes a token of the current key.
LEMMA SignStep ==
  ASSUME IInv, Sign
  PROVE  IInv'
<1>1. /\ UNCHANGED <<up, cur, prev, files, previous, req, made, taken, disturbed>>
      /\ token' = cur /\ up
  BY DEF Sign
<1>2. TypeOK'
  BY <1>1 DEF IInv, TypeOK, Quiet, At
<1>3. Names' /\ StartsAgain'
  BY <1>1 DEF IInv, Names, StartsAgain, Quiet, At, PrevKeyOf, PrevKidOf, OldKid, KidOf
<1>4. Steps'
  BY <1>1
  DEF IInv, Steps, Match, Along, Rotating, Quiet, At, LoadPrev, PrevKeyOf, PrevKidOf, OldKid,
      KidOf
<1>5. Followed'
  BY <1>1 DEF Followed
<1> QED
  BY <1>2, <1>3, <1>4, <1>5 DEF IInv

\* With no disturbance the request that moves is the only one.
LEMMA Alone ==
  ASSUME IInv, up, ~disturbed, NEW p \in Proc, ~At(p, "idle") \/ Quiet
  PROVE  /\ \A q \in Proc \ {p} : At(q, "idle")
         /\ At(p, "idle") \/ Along(p)
         /\ At(p, "idle") => Match
BY DEF IInv, Steps, Quiet

\* ... and what is left to show is how far it has come.
LEMMA StillAlone ==
  ASSUME NEW p \in Proc, \A q \in Proc \ {p} : At(q, "idle"),
         \A q \in Proc \ {p} : req'[q] = req[q],
         At(p, "idle")' => Match', At(p, "idle")' \/ Along(p)'
  PROVE  Steps'
<1>1. \A q \in Proc \ {p} : At(q, "idle")'
  BY DEF At
<1>2. Quiet' => Match'
  BY DEF Quiet
<1>3. ASSUME NEW q \in Proc
      PROVE  At(q, "idle")' \/ (Along(q)' /\ \A x \in Proc \ {q} : At(x, "idle")')
  BY <1>1
<1> QED
  BY <1>2, <1>3 DEF Steps

\* RotateRSA changes memory; the files follow from now on.
LEMMA RotateStep ==
  ASSUME IInv, NEW p \in Proc, NEW kid \in 1..MaxKid, RotateRSA(p, kid)
  PROVE  IInv'
<1>1. /\ up /\ up' = up /\ files' = files /\ At(p, "idle") /\ kid # cur.kid
      /\ made' = made + 1 /\ prev' = cur /\ cur' = [key |-> made + 1, kid |-> kid]
      /\ token' = IF token = cur THEN token ELSE NoPair
      /\ ~disturbed' => ~disturbed /\ Quiet /\ Trim(kid) = kid
      /\ taken' = (kid = OldKid(files)) /\ previous' = previous
      /\ disturbed' \in BOOLEAN
  BY DEF RotateRSA, Overlaps
<1>2. /\ made \in Nat /\ kid \in Int /\ kid > 0 /\ NoPair \in Pair /\ "snapshot" \in PC
      /\ cur'.key = made + 1 /\ cur'.kid = kid /\ cur' \in Pair
  BY <1>1 DEF IInv, TypeOK, Pair, NoPair, PC
<1>3. /\ req' \in [Proc -> Req] /\ req'[p].pc = "snapshot"
      /\ \A q \in Proc \ {p} : req'[q] = req[q]
  BY <1>2, Moved DEF IInv, RotateRSA
<1>4. cur \in Pair /\ cur.key > 0 /\ cur.kid # 0
  BY <1>1 DEF IInv, TypeOK, Names
<1>5. TypeOK'
  BY <1>1, <1>2, <1>3, <1>4 DEF IInv, TypeOK
<1>6. Names'
  BY <1>1, <1>2 DEF Names
<1>7. Followed'
  BY <1>1 DEF IInv, Followed, NoPair
<1>8. StartsAgain'
  <2>1. ~disturbed' => (PrevKeyOf(files) = 0 \/ PrevKidOf(files) # KidOf(files))
    BY <1>1 DEF IInv, StartsAgain
  <2> QED
    BY <1>1, <2>1 DEF StartsAgain, PrevKeyOf, PrevKidOf, OldKid, KidOf
<1>9. Steps'
  <2>1. CASE disturbed'
    BY <2>1 DEF Steps
  <2>2. CASE ~disturbed'
    <3>1. Along(p)' /\ ~At(p, "idle")'
      <4>1. Trim(cur.kid) = cur.kid
        BY <1>1, <2>2 DEF IInv, Names
      <4>2. ~taken' => OldKid(files)' # cur'.kid
        BY <1>1, <1>2 DEF OldKid
      <4> QED
        BY <1>1, <1>2, <1>3, <1>4, <2>2, <4>1, <4>2 DEF Along, Rotating, At, File
    <3>2. \A q \in Proc \ {p} : At(q, "idle")
      BY <1>1, <2>2 DEF Quiet
    <3> QED
      BY <1>3, <3>1, <3>2, StillAlone
  <2> QED
    BY <2>1, <2>2
<1> QED
  BY <1>5, <1>6, <1>7, <1>8, <1>9 DEF IInv

\* SnapshotKeys reads back what RotateRSA put in memory.
LEMMA SnapshotStep ==
  ASSUME IInv, NEW p \in Proc, SnapshotKeys(p)
  PROVE  IInv'
<1>1. /\ up /\ At(p, "snapshot")
      /\ UNCHANGED <<up, cur, prev, files, previous, made, token, taken, disturbed>>
  BY DEF SnapshotKeys
<1>2. /\ req' \in [Proc -> Req] /\ req'[p].pc = "priv" /\ req'[p].cur = cur
      /\ req'[p].prev = prev /\ \A q \in Proc \ {p} : req'[q] = req[q]
  <2>1. cur \in Pair /\ prev \in Pair /\ "priv" \in PC
    BY DEF IInv, TypeOK, PC, File
  <2> QED
    BY <2>1, Moved DEF IInv, SnapshotKeys
<1>3. TypeOK'
  BY <1>1, <1>2 DEF IInv, TypeOK
<1>4. Names' /\ Followed' /\ StartsAgain'
  <2>1. ~Quiet'
    BY <1>2 DEF Quiet, At
  <2> QED
    BY <1>1, <2>1
    DEF IInv, Names, Followed, StartsAgain, PrevKeyOf, PrevKidOf, OldKid, KidOf, LoadPrev
<1>5. Steps'
  <2>1. CASE disturbed
    BY <1>1, <2>1 DEF Steps
  <2>2. CASE ~disturbed
    <3>1. ~At(p, "idle") /\ ~At(p, "idle")'
      BY <1>1, <1>2 DEF At
    <3>2. Along(p) /\ \A q \in Proc \ {p} : At(q, "idle")
      BY <1>1, <2>2, <3>1, Alone
    <3>3. Along(p)'
      BY <1>1, <1>2, <3>2 DEF Along, Rotating, At, File, OldKid
    <3> QED
      BY <1>2, <3>1, <3>2, <3>3, StillAlone
  <2> QED
    BY <2>1, <2>2
<1> QED
  BY <1>3, <1>4, <1>5 DEF IInv

\* A retirement begins.
LEMMA RetireStep ==
  ASSUME IInv, NEW p \in Proc, RetireJWTPrevious(p)
  PROVE  IInv'
<1>1. /\ up /\ At(p, "idle") /\ UNCHANGED <<up, cur, prev, files, previous, made, token>>
      /\ taken' = FALSE
      /\ ~disturbed' => ~disturbed /\ Quiet
      /\ disturbed' \in BOOLEAN
  BY DEF RetireJWTPrevious, Overlaps
<1>2. /\ req' \in [Proc -> Req] /\ req'[p].pc = "clear"
      /\ req'[p].prev = prev /\ \A q \in Proc \ {p} : req'[q] = req[q]
  <2>1. NoPair \in Pair /\ prev \in Pair /\ "clear" \in PC
    BY DEF IInv, TypeOK, PC, NoPair, Pair
  <2> QED
    BY <2>1, Moved DEF IInv, RetireJWTPrevious
<1>3. TypeOK'
  BY <1>1, <1>2 DEF IInv, TypeOK
<1>4. Names'
  BY <1>1 DEF IInv, Names
<1>5. Followed'
  BY <1>1 DEF IInv, Followed
<1>6. StartsAgain'
  <2>1. ~disturbed' => (PrevKeyOf(files) = 0 \/ PrevKidOf(files) # KidOf(files))
    BY <1>1 DEF IInv, StartsAgain
  <2> QED
    BY <1>1, <2>1 DEF StartsAgain, PrevKeyOf, PrevKidOf, OldKid, KidOf
<1>7. Steps'
  <2>1. CASE disturbed'
    BY <2>1 DEF Steps
  <2>2. CASE ~disturbed'
    <3>1. \A q \in Proc \ {p} : At(q, "idle")
      BY <1>1, <2>2 DEF Quiet
    <3>2. Match
      BY <1>1, <2>2, Alone
    <3>3. Along(p)' /\ ~At(p, "idle")'
      BY <1>1, <1>2, <3>2 DEF Along, Match, Rotating, At, File, KidOf
    <3> QED
      BY <1>2, <3>1, <3>3, StillAlone
  <2> QED
    BY <2>1, <2>2
<1> QED
  BY <1>3, <1>4, <1>5, <1>6, <1>7 DEF IInv

\* ClearPreviousRSA drops the previous key, and with it its tokens.
LEMMA ClearStep ==
  ASSUME IInv, NEW p \in Proc, ClearPreviousRSA(p)
  PROVE  IInv'
<1>1. /\ up /\ At(p, "clear")
      /\ UNCHANGED <<up, cur, files, previous, made, taken, disturbed>>
      /\ prev' = NoPair /\ token' = IF token = req[p].prev THEN NoPair ELSE token
  BY DEF ClearPreviousRSA, Retired
<1>2. /\ req' \in [Proc -> Req] /\ req'[p].pc = "prev"
      /\ req'[p].prev = NoPair /\ \A q \in Proc \ {p} : req'[q] = req[q]
  <2>1. NoPair \in Pair /\ "prev" \in PC
    BY DEF PC, File, NoPair, Pair
  <2> QED
    BY <2>1, Moved DEF IInv, ClearPreviousRSA
<1>3. TypeOK'
  <2>1. prev' \in Pair /\ prev'.key = 0 /\ prev'.kid = 0 /\ token' \in Pair
    BY <1>1 DEF IInv, TypeOK, NoPair, Pair
  <2> QED
    BY <1>1, <1>2, <2>1 DEF IInv, TypeOK
<1>4. Names'
  BY <1>1 DEF IInv, Names, NoPair
<1>5. StartsAgain'
  <2>1. ~Quiet'
    BY <1>2 DEF Quiet, At
  <2> QED
    BY <1>1, <2>1 DEF IInv, StartsAgain, PrevKeyOf, PrevKidOf, OldKid, KidOf
<1>6. CASE disturbed
  <2>1. Followed' /\ Steps'
    BY <1>1, <1>6 DEF Followed, Steps
  <2> QED
    BY <1>3, <1>4, <1>5, <2>1 DEF IInv
<1>7. CASE ~disturbed
  <2>1. ~At(p, "idle") /\ ~At(p, "idle")'
    BY <1>1, <1>2 DEF At
  <2>2. Along(p) /\ \A q \in Proc \ {p} : At(q, "idle")
    BY <1>1, <1>7, <2>1, Alone
  <2>3. Followed'
    <3>1. req[p].prev = prev
      BY <1>1, <2>2 DEF Along, At
    <3> QED
      BY <1>1, <1>7, <3>1 DEF IInv, Followed, NoPair
  <2>4. Along(p)'
    BY <1>1, <1>2, <2>2 DEF Along, Rotating, At, File, NoPair, KidOf
  <2>5. Steps'
    BY <1>2, <2>1, <2>2, <2>4, StillAlone
  <2> QED
    BY <1>3, <1>4, <1>5, <2>3, <2>5 DEF IInv
<1> QED
  BY <1>6, <1>7

\* A file that cannot be written leaves the files disturbed.
LEMMA FailStep ==
  ASSUME IInv, NEW p \in Proc, WriteFileFails(p)
  PROVE  IInv'
<1>1. /\ up /\ req[p].pc \in File /\ UNCHANGED <<up, cur, prev, previous, made, token, taken>>
      /\ disturbed' = TRUE
      /\ files' = files \/ files' = [files EXCEPT ![req[p].pc] = 0]
      /\ Put(p, Idle) \/ Proceed(p)
  BY DEF WriteFileFails
<1>2. req' \in [Proc -> Req]
  <2>1. CASE Put(p, Idle)
    <3>1. NoPair \in Pair /\ "idle" \in PC
      BY DEF NoPair, Pair, PC
    <3> QED
      BY <2>1, <3>1, Moved DEF IInv, Idle
  <2>2. CASE Proceed(p)
    BY <1>1, <2>2, Proceeded DEF IInv
  <2> QED
    BY <1>1, <2>1, <2>2
<1>3. files' \in [File -> Int] /\ \A f \in {"priv", "prev", "prevPub"} : files'[f] \in Nat
  BY <1>1 DEF IInv, TypeOK, File
<1>4. TypeOK'
  BY <1>1, <1>2, <1>3 DEF IInv, TypeOK
<1>5. Names'
  BY <1>1 DEF IInv, Names
<1>6. Steps' /\ Followed' /\ StartsAgain'
  BY <1>1 DEF Steps, Followed, StartsAgain
<1> QED
  BY <1>4, <1>5, <1>6 DEF IInv

-----------------------------------------------------------------------------
\* The file that is written, and where the request goes next.
LEMMA Written ==
  ASSUME IInv, NEW p \in Proc, WriteFile(p)
  PROVE  /\ up /\ req[p].pc \in File
         /\ UNCHANGED <<up, cur, prev, previous, made, token, taken, disturbed>>
         /\ files' \in [File -> Int]
         /\ files'[req[p].pc] = Content(req[p])
         /\ \A f \in File : f # req[p].pc => files'[f] = files[f]
         /\ req' \in [Proc -> Req]
         /\ req'[p].pc = After(req[p])
         /\ req'[p].cur = req[p].cur /\ req'[p].prev = req[p].prev
         /\ \A q \in Proc \ {p} : req'[q] = req[q]
<1>1. /\ up /\ req[p].pc \in File
      /\ UNCHANGED <<up, cur, prev, previous, made, token, taken, disturbed>>
      /\ files' = [files EXCEPT ![req[p].pc] = Content(req[p])] /\ Proceed(p)
  BY DEF WriteFile
<1>2. Content(req[p]) \in Int
  BY DEF IInv, TypeOK, Req, Pair, Content
<1> QED
  BY <1>1, <1>2, Proceeded DEF IInv, TypeOK

\* Writing a file keeps the types.
LEMMA WriteType ==
  ASSUME IInv, NEW p \in Proc, WriteFile(p)
  PROVE  TypeOK'
<1>1. req[p].pc \in {"priv", "prev", "prevPub"} => Content(req[p]) \in Nat
  BY DEF IInv, TypeOK, Req, Pair, Content
<1>2. \A f \in {"priv", "prev", "prevPub"} : files'[f] \in Nat
  BY <1>1, Written DEF IInv, TypeOK, File
<1> QED
  BY <1>2, Written DEF IInv, TypeOK

\* The files of the current key.
LEMMA WriteCurrent ==
  ASSUME IInv, NEW p \in Proc, WriteFile(p), ~disturbed, req[p].pc \in {"priv", "privKid"},
         Along(p)
  PROVE  Along(p)' /\ ~At(p, "idle")' /\ StartsAgain'
<1>1. /\ req[p].cur = cur /\ req[p].prev = prev /\ prev.key # 0
      /\ Trim(prev.kid) = prev.kid /\ (~taken => OldKid(files) # cur.kid)
      /\ cur.kid # 0 /\ prev.kid # cur.kid /\ cur.kid \in Int /\ up
      /\ Trim(cur.kid) = cur.kid
  BY Written DEF Along, Rotating, File, IInv, Names, TypeOK, Pair
<1>2. /\ files'["prev"] = files["prev"] /\ files'["prevPub"] = files["prevPub"]
      /\ files'["prevKid"] = files["prevKid"] /\ files'["prevPubKid"] = files["prevPubKid"]
      /\ UNCHANGED <<up, cur, prev, previous, taken, disturbed>>
      /\ req'[p].pc = After(req[p])
      /\ req'[p].cur = cur /\ req'[p].prev = prev
  BY <1>1, Written DEF File
<1>3. OldKid(files)' = OldKid(files) /\ PrevKeyOf(files)' = PrevKeyOf(files)
  BY <1>2 DEF OldKid, PrevKeyOf
<1>4. ~Quiet
  BY DEF Quiet, At
<1>5. CASE At(p, "priv")
  <2>1. files'["priv"] = cur.key /\ files'["privKid"] = files["privKid"] /\ req'[p].pc = "privKid"
    BY <1>1, <1>2, <1>5, Written DEF At, File, Content, After
  <2>2. Along(p)'
    BY <1>1, <1>2, <1>3, <2>1 DEF Along, Rotating, At, File
  <2>3. KidOf(files)' = KidOf(files) /\ ~Quiet'
    BY <2>1 DEF KidOf, Quiet, At
  <2>4. PrevKidOf(files)' = PrevKidOf(files)
    BY <1>3, <2>3 DEF PrevKidOf
  <2>5. StartsAgain'
    BY <1>2, <1>3, <2>3, <2>4 DEF IInv, StartsAgain
  <2> QED
    BY <2>1, <2>2, <2>5 DEF At
<1>6. CASE At(p, "privKid")
  <2>1. files'["priv"] = cur.key /\ files'["privKid"] = cur.kid /\ req'[p].pc = "prev"
    BY <1>1, <1>2, <1>6, Written DEF At, File, Content, After, Along
  <2>2. KidOf(files)' = cur.kid /\ ~Quiet'
    BY <1>1, <2>1 DEF KidOf, Quiet, At
  <2>3. Along(p)'
    BY <1>1, <1>2, <1>3, <2>1, <2>2 DEF Along, Rotating, At, File
  <2>4. ~taken => PrevKidOf(files)' # cur.kid
    BY <1>1, <1>3, <2>2 DEF PrevKidOf
  <2>5. StartsAgain'
    BY <1>2, <2>2, <2>4 DEF StartsAgain
  <2> QED
    BY <2>1, <2>3, <2>5 DEF At
<1> QED
  BY <1>5, <1>6 DEF At

\* Those of the previous one, which a retirement removes.
LEMMA WritePrevious ==
  ASSUME IInv, NEW p \in Proc, WriteFile(p), ~disturbed,
         req[p].pc \in {"prev", "prevPub", "prevKid", "prevPubKid"}, Along(p)
  PROVE  /\ At(p, "idle")' => Match'
         /\ At(p, "idle")' \/ Along(p)'
         /\ StartsAgain'
<1>1. /\ req[p].prev = prev /\ files["priv"] = cur.key /\ KidOf(files) = cur.kid
      /\ prev.key # 0 => (Trim(prev.kid) = prev.kid /\ (~taken => OldKid(files) # cur.kid))
      /\ cur.kid # 0 /\ prev.kid # cur.kid /\ cur.kid \in Int /\ prev.kid \in Int
      /\ prev.key = 0 <=> prev.kid = 0
      /\ prev = [key |-> prev.key, kid |-> prev.kid]
  BY Written DEF Along, Rotating, File, IInv, Names, TypeOK, Pair
<1>2. /\ files'["priv"] = cur.key /\ files'["privKid"] = files["privKid"]
      /\ UNCHANGED <<up, cur, prev, previous, taken, disturbed>>
      /\ req'[p].pc = After(req[p]) /\ req'[p].prev = prev
  BY <1>1, Written DEF File
<1>3. KidOf(files)' = cur.kid
  BY <1>1, <1>2 DEF KidOf
<1>4. CASE At(p, "prev")
  <2>1. /\ files'["prev"] = prev.key /\ files'["prevPub"] = files["prevPub"]
        /\ files'["prevKid"] = files["prevKid"] /\ files'["prevPubKid"] = files["prevPubKid"]
        /\ req'[p].pc = "prevPub"
    BY <1>1, <1>2, <1>4, Written DEF At, File, Content, After
  <2>2. OldKid(files)' = OldKid(files) /\ ~Quiet /\ ~Quiet'
    BY <1>2, <1>4, <2>1 DEF OldKid, Quiet, At
  <2>3. Along(p)'
    BY <1>1, <1>2, <1>3, <2>1, <2>2 DEF Along, Rotating, At, File
  <2>4. StartsAgain'
    <3>1. CASE prev.key # 0
      <4>1. ~taken => PrevKidOf(files)' # cur.kid
        BY <1>1, <1>3, <2>2, <3>1 DEF PrevKidOf
      <4> QED
        BY <1>2, <1>3, <2>2, <4>1 DEF StartsAgain
    <3>2. CASE prev.key = 0
      <4>1. PrevKeyOf(files)' = 0 \/ PrevKeyOf(files) # 0
        BY <2>1, <3>2 DEF PrevKeyOf, IInv, TypeOK, File
      <4>2. PrevKidOf(files)' = PrevKidOf(files)
        BY <1>1, <1>3, <2>2 DEF PrevKidOf
      <4> QED
        BY <1>1, <1>2, <1>3, <2>2, <4>1, <4>2 DEF IInv, StartsAgain
    <3> QED
      BY <3>1, <3>2
  <2> QED
    BY <2>1, <2>3, <2>4 DEF At
<1>5. ASSUME files'["prev"] = prev.key,
             prev.key # 0 => (taken /\ ~Quiet') \/ OldKid(files)' # cur.kid,
             prev.key = 0 => files'["prevPub"] = 0
      PROVE  StartsAgain'
  <2>1. CASE prev.key = 0
    BY <1>5, <2>1 DEF StartsAgain, PrevKeyOf
  <2>2. CASE prev.key # 0
    <3>1. (taken /\ ~Quiet') \/ PrevKidOf(files)' # cur.kid
      BY <1>1, <1>3, <1>5, <2>2 DEF PrevKidOf
    <3> QED
      BY <1>2, <1>3, <3>1 DEF StartsAgain
  <2> QED
    BY <2>1, <2>2
<1>6. CASE At(p, "prevPub")
  <2>1. /\ files'["prev"] = prev.key /\ files'["prevPub"] = prev.key
        /\ files'["prevKid"] = files["prevKid"] /\ files'["prevPubKid"] = files["prevPubKid"]
        /\ req'[p].pc = "prevKid"
    BY <1>1, <1>2, <1>6, Written DEF At, File, Content, After, Along
  <2>2. OldKid(files)' = OldKid(files) /\ ~Quiet'
    BY <1>2, <2>1 DEF OldKid, Quiet, At
  <2>3. Along(p)'
    BY <1>1, <1>2, <1>3, <2>1, <2>2 DEF Along, Rotating, At, File
  <2>4. StartsAgain'
    BY <1>1, <1>5, <2>1, <2>2
  <2> QED
    BY <2>1, <2>3, <2>4 DEF At
<1>7. CASE At(p, "prevKid")
  <2>1. /\ files'["prev"] = prev.key /\ files'["prevPub"] = prev.key
        /\ files'["prevKid"] = prev.kid /\ files'["prevPubKid"] = files["prevPubKid"]
        /\ req'[p].pc = "prevPubKid"
    BY <1>1, <1>2, <1>7, Written DEF At, File, Content, After, Along
  <2>2. prev.key # 0 => OldKid(files)' = prev.kid
    BY <1>1, <2>1 DEF OldKid
  <2>3. Along(p)'
    BY <1>1, <1>2, <1>3, <2>1, <2>2 DEF Along, Rotating, At, File
  <2>4. StartsAgain'
    BY <1>1, <1>5, <2>1, <2>2
  <2> QED
    BY <2>1, <2>3, <2>4 DEF At
<1>8. CASE At(p, "prevPubKid")
  <2>1. /\ files'["prev"] = prev.key /\ files'["prevPub"] = prev.key
        /\ files'["prevKid"] = prev.kid /\ files'["prevPubKid"] = prev.kid
        /\ req'[p].pc = "idle"
    BY <1>1, <1>2, <1>8, Written DEF At, File, Content, After, Along
  <2>2. prev.key # 0 => OldKid(files)' = prev.kid
    BY <1>1, <2>1 DEF OldKid
  <2>3. LoadPrev(files)' = prev
    <3>1. CASE prev.key = 0
      <4>1. PrevKeyOf(files)' = 0
        BY <2>1, <3>1 DEF PrevKeyOf
      <4> QED
        BY <1>1, <3>1, <4>1 DEF LoadPrev, NoPair
    <3>2. CASE prev.key # 0
      <4>1. PrevKeyOf(files)' = prev.key /\ PrevKidOf(files)' = prev.kid
        BY <1>1, <2>1, <2>2, <3>2 DEF PrevKeyOf, PrevKidOf
      <4> QED
        BY <1>1, <3>2, <4>1 DEF LoadPrev
    <3> QED
      BY <3>1, <3>2
  <2>4. Match'
    BY <1>2, <1>3, <2>3 DEF Match
  <2>5. StartsAgain'
    BY <1>1, <1>5, <2>1, <2>2
  <2> QED
    BY <2>1, <2>4, <2>5 DEF At
<1> QED
  BY <1>4, <1>6, <1>7, <1>8 DEF At

\* Writing the next file, whichever it is.
LEMMA WriteStep ==
  ASSUME IInv, NEW p \in Proc, WriteFile(p)
  PROVE  IInv'
<1>1. TypeOK'
  BY WriteType
<1>2. Names'
  BY Written DEF IInv, Names
<1>3. Followed'
  BY Written DEF IInv, Followed
<1>4. CASE disturbed
  BY <1>1, <1>2, <1>3, <1>4, Written DEF IInv, Steps, StartsAgain
<1>5. CASE ~disturbed
  <2>1. up /\ ~At(p, "idle")
    BY Written DEF At, File
  <2>2. Along(p) /\ \A q \in Proc \ {p} : At(q, "idle")
    BY <1>5, <2>1, Alone
  <2>3. /\ At(p, "idle")' => Match'
        /\ At(p, "idle")' \/ Along(p)'
        /\ StartsAgain'
    <3>1. req[p].pc \in {"priv", "privKid"} \/ req[p].pc \in {"prev", "prevPub", "prevKid", "prevPubKid"}
      BY Written DEF File
    <3> QED
      BY <1>5, <2>2, <3>1, WriteCurrent, WritePrevious
  <2>4. \A q \in Proc \ {p} : req'[q] = req[q]
    BY Written
  <2>5. Steps'
    BY <2>2, <2>3, <2>4, StillAlone
  <2> QED
    BY <1>1, <1>2, <1>3, <2>3, <2>5 DEF IInv
<1> QED
  BY <1>4, <1>5

-----------------------------------------------------------------------------
\* A crash ends the request between two files.
LEMMA CrashStep ==
  ASSUME IInv, Crash
  PROVE  IInv'
<1>1. /\ up /\ up' = FALSE /\ cur' = NoPair /\ prev' = NoPair /\ made' = made
      /\ req' = [p \in Proc |-> Idle] /\ previous' = previous
      /\ taken' = (taken /\ ~Quiet)
      /\ token' = IF Quiet /\ ~disturbed THEN token ELSE NoPair
  BY DEF Crash
<1>2. /\ \/ files' = files /\ disturbed' = disturbed
         \/ \E p \in Proc : /\ req[p].pc \in File
                             /\ files' = [files EXCEPT ![req[p].pc] = 0]
                             /\ disturbed' = TRUE
  BY DEF Crash
<1>3. /\ NoPair \in Pair /\ Idle \in Req /\ NoPair.key = 0 /\ NoPair.kid = 0
      /\ Idle.pc = "idle"
  BY DEF NoPair, Pair, Idle, Req, PC
<1>4. files' \in [File -> Int] /\ \A f \in {"priv", "prev", "prevPub"} : files'[f] \in Nat
  BY <1>2 DEF IInv, TypeOK, File
<1>5. TypeOK'
  <2>1. disturbed' \in BOOLEAN
    BY <1>2 DEF IInv, TypeOK
  <2>2. req' \in [Proc -> Req] /\ Quiet'
    BY <1>1, <1>3 DEF Quiet, At
  <2>3. token' \in Pair
    BY <1>1, <1>3 DEF IInv, TypeOK
  <2> QED
    BY <1>1, <1>3, <1>4, <2>1, <2>2, <2>3 DEF IInv, TypeOK
<1>6. Names' /\ Steps'
  BY <1>1 DEF Names, Steps
<1>7. StartsAgain'
  <2>1. CASE files' = files /\ disturbed' = disturbed
    BY <1>1, <2>1 DEF IInv, TypeOK, StartsAgain, PrevKeyOf, PrevKidOf, OldKid, KidOf
  <2>2. CASE disturbed' = TRUE
    BY <2>2 DEF StartsAgain
  <2> QED
    BY <1>2, <2>1, <2>2
<1>8. Followed'
  <2>1. CASE Quiet /\ ~disturbed
    <3>1. Match /\ files' = files /\ token' = token
      BY <1>1, <1>2, <2>1 DEF IInv, Steps, Quiet, At, File
    <3>2. /\ token.key # 0 => token \in {cur, prev}
          /\ cur = [key |-> files["priv"], kid |-> KidOf(files)] /\ files["priv"] # 0
          /\ prev = LoadPrev(files)
      <4>1. cur = [key |-> cur.key, kid |-> cur.kid] /\ cur.key > 0
        BY <1>1 DEF IInv, TypeOK, Pair
      <4>2. token.key # 0 => token \in {cur, prev}
        BY <1>1, <2>1 DEF IInv, Followed
      <4>3. files["priv"] = cur.key /\ KidOf(files) = cur.kid /\ LoadPrev(files) = prev
        BY <3>1 DEF Match
      <4>4. files["priv"] # 0
        BY <4>1, <4>3
      <4> QED
        BY <4>1, <4>2, <4>3, <4>4
    <3> QED
      BY <1>1, <3>1, <3>2 DEF Followed, LoadPrev, PrevKeyOf, PrevKidOf, OldKid, KidOf
  <2>2. CASE ~(Quiet /\ ~disturbed)
    BY <1>1, <1>3, <2>2 DEF Followed
  <2> QED
    BY <2>1, <2>2
<1> QED
  BY <1>5, <1>6, <1>7, <1>8 DEF IInv

\* A start loads the files, whichever were written.
LEMMA StartStep ==
  ASSUME IInv, Start
  PROVE  IInv'
<1>1. /\ ~up /\ up' = TRUE /\ UNCHANGED <<previous, req, token>>
      /\ taken' = FALSE /\ disturbed' = (cur'.kid # Trim(cur'.kid))
      /\ made' = (IF files["priv"] = 0 THEN made + 1 ELSE made)
      /\ files' = [f \in File |-> IF f = "privKid" THEN KidOf(files)
                                   ELSE IF f = "priv" /\ files[f] = 0 THEN made + 1
                                   ELSE files[f]]
      /\ cur' = [key |-> files'["priv"], kid |-> KidOf(files)]
      /\ prev' = LoadPrev(files) /\ prev'.kid # cur'.kid
  BY DEF Start, SetPreviousRSA
<1>2. /\ files \in [File -> Int] /\ \A f \in {"priv", "prev", "prevPub"} : files[f] \in Nat
      /\ made \in Nat /\ previous \in Nat /\ Quiet
  BY <1>1 DEF IInv, TypeOK
<1>3. /\ KidOf(files) \in Int /\ KidOf(files) # 0
      /\ LoadPrev(files) \in Pair /\ (LoadPrev(files).key = 0 <=> LoadPrev(files).kid = 0)
  BY <1>2, Loads
<1>4. /\ files'["priv"] = (IF files["priv"] = 0 THEN made + 1 ELSE files["priv"])
      /\ files'["privKid"] = KidOf(files)
      /\ files'["prev"] = files["prev"] /\ files'["prevPub"] = files["prevPub"]
      /\ files'["prevKid"] = files["prevKid"] /\ files'["prevPubKid"] = files["prevPubKid"]
      /\ files' \in [File -> Int]
  BY <1>1, <1>2, <1>3 DEF File
<1>5. OldKid(files)' = OldKid(files) /\ PrevKeyOf(files)' = PrevKeyOf(files)
  BY <1>1, <1>4 DEF OldKid, PrevKeyOf
<1>6. ~disturbed' => KidOf(files)' = KidOf(files)
  BY <1>1, <1>3, <1>4 DEF KidOf
<1>7. ~disturbed' => PrevKidOf(files)' = PrevKidOf(files) /\ LoadPrev(files)' = LoadPrev(files)
  BY <1>5, <1>6 DEF PrevKidOf, LoadPrev
<1>8. files'["priv"] \in Nat /\ files'["priv"] > 0
  BY <1>2, <1>4
<1>9. cur' \in Pair /\ cur'.key = files'["priv"] /\ cur'.kid = KidOf(files)
  BY <1>1, <1>3, <1>8 DEF Pair
<1>10. TypeOK'
  <2>1. made' \in Nat
    BY <1>1, <1>2
  <2>2. \A f \in {"priv", "prev", "prevPub"} : files'[f] \in Nat
    BY <1>2, <1>4, <1>8
  <2> QED
    BY <1>1, <1>2, <1>3, <1>4, <1>8, <1>9, <2>1, <2>2 DEF IInv, TypeOK
<1>11. Names'
  BY <1>1, <1>3, <1>9 DEF Names
<1>12. Steps'
  <2>1. ~disturbed' => Match'
    BY <1>1, <1>6, <1>7, <1>9 DEF Match
  <2>2. \A p \in Proc : At(p, "idle")'
    BY <1>1, <1>2 DEF Quiet, At
  <2> QED
    BY <2>1, <2>2 DEF Steps
<1>13. Followed'
  <2>1. token.key # 0 => token \in {[key |-> files["priv"], kid |-> KidOf(files)], LoadPrev(files)}
                         /\ files["priv"] # 0
    BY <1>1 DEF IInv, Followed
  <2>2. token.key # 0 => token \in {cur', prev'}
    BY <1>1, <1>4, <2>1
  <2> QED
    BY <1>1, <2>2 DEF Followed
<1>14. StartsAgain'
  <2>1. ~disturbed' => (PrevKeyOf(files)' = 0 \/ PrevKidOf(files)' # KidOf(files)')
    BY <1>1, <1>5, <1>6, <1>7, <1>9 DEF LoadPrev
  <2> QED
    BY <2>1 DEF StartsAgain
<1> QED
  BY <1>10, <1>11, <1>12, <1>13, <1>14 DEF IInv

\* The inductive invariant of JwtKeys holds throughout.
THEOREM Invariant == Spec => []IInv
<1>1. ASSUME IInv, Next PROVE IInv'
  BY <1>1, SignStep, CrashStep, StartStep, RotateStep, SnapshotStep, RetireStep, ClearStep,
     WriteStep, FailStep DEF Next
<1>2. ASSUME IInv, UNCHANGED vars PROVE IInv'
  <2>1. UNCHANGED <<up, cur, prev, files, previous, req, made, token, taken, disturbed>>
    BY <1>2 DEF vars
  <2>2. TypeOK'
    BY <1>2, <2>1 DEF IInv, TypeOK, Quiet, At
  <2>3. Names' /\ StartsAgain'
    BY <1>2, <2>1
    DEF IInv, Names, StartsAgain, PrevKeyOf, PrevKidOf, OldKid, KidOf, Quiet, At
  <2>4. Steps'
    BY <1>2, <2>1
    DEF IInv, Steps, Match, Along, Rotating, Quiet, At, LoadPrev, PrevKeyOf, PrevKidOf, OldKid,
        KidOf
  <2>5. Followed'
    BY <1>2, <2>1 DEF IInv, Followed, LoadPrev, PrevKeyOf, PrevKidOf, OldKid, KidOf
  <2> QED
    BY <2>2, <2>3, <2>4, <2>5 DEF IInv
<1>3. IInv /\ [Next]_vars => IInv'
  BY <1>1, <1>2
<1> QED
  BY <1>3, InitIInv, PTL DEF Spec

-----------------------------------------------------------------------------
\* Keys, files and requests keep their types (jwtutil.Manager).
THEOREM TypeCorrect == Spec => []TypeOK
<1>1. IInv => TypeOK
  BY DEF IInv
<1> QED
  BY <1>1, Invariant, PTL

\* RotateRSA and ClearPreviousRSA: a token stands until its key is retired or
\* rotated out, across restarts; not after requests that overlapped, a file that was
\* not written or a kid with blanks about it, until the next start.
THEOREM TokensStand == Spec => []TokenStands
<1>1. IInv => TokenStands
  <2> SUFFICES ASSUME IInv, up, ~disturbed, token.key # 0
               PROVE  keyFuncRSA(token.kid) = token.key
    BY DEF TokenStands
  <2>1. token \in {cur, prev} /\ prev.kid # cur.kid
    BY DEF IInv, Followed, Names
  <2> QED
    BY <2>1 DEF keyFuncRSA
<1> QED
  BY <1>1, Invariant, PTL

\* RotateJWTKeys and RetireJWTPrevious leave the files as memory is, with the
\* exceptions of TokensStand.
THEOREM FilesMatch == Spec => []QuietFilesMatch
<1>1. IInv => QuietFilesMatch
  BY DEF IInv, Steps, Match, QuietFilesMatch
<1> QED
  BY <1>1, Invariant, PTL

\* buildJWT: the files of a rotation or retirement that was cut off are ones
\* the server starts from, with the exceptions of TokensStand, and but for a rotation
\* to the kid that the files or jwt.previous_kid still have for a previous key.
THEOREM CanStart == Spec => []StartsAgain
<1>1. IInv => StartsAgain
  BY DEF IInv
<1> QED
  BY <1>1, Invariant, PTL

-----------------------------------------------------------------------------
(* Providers: the registry and the SMS channel *)

Config == [st : {"none", "on", "off"}, ver : Nat]
Sms == {"mock", "mq"}

ProviderTypeOK ==
  /\ provider \in Config /\ version \in Nat
  /\ conf \in Conf
  /\ setting \in Sms \cup {"none"}
  /\ call \in [Operator -> [pc : {"idle", "create", "save", "upsert"} \cup Sms, copy : Config]]
  /\ serving \in BOOLEAN /\ loaded \in BOOLEAN /\ edited \in BOOLEAN /\ overlapped \in BOOLEAN
  /\ restored \in BOOLEAN /\ chosen \in BOOLEAN

Upserting(p) == call[p].pc = "upsert"

\* Unless writes overlapped, at most one version is on its way to the registry,
\* and it is that of the row.
LastWritten ==
  serving /\ ~overlapped => \A p \in Operator : Upserting(p) =>
    /\ edited /\ call[p].copy = provider
    /\ \A q \in Operator : Upserting(q) => q = p

\* Requests end with the process; a channel is saved once it sends.
Swapped == \A p \in Operator :
  /\ ~serving => call[p].pc = "idle"
  /\ call[p].pc \in Sms => call[p].pc = sender

ProviderInv == ProviderTypeOK /\ LastWritten /\ Swapped /\ RegistryFollows /\ SmsAgrees

USE DEF ProviderTypeOK, Config, Sms, Conf, Ready

\* Before the first start nothing is loaded or under way, whatever the file declares.
LEMMA ProviderStarts == ProviderInit => ProviderInv
<1> SUFFICES ASSUME ProviderInit PROVE ProviderInv
  OBVIOUS
<1> USE DEF ProviderInit
<1>1. ProviderTypeOK
  OBVIOUS
<1>2. LastWritten /\ RegistryFollows /\ SmsAgrees
  BY DEF LastWritten, RegistryFollows, SmsAgrees
<1>3. Swapped
  BY DEF Swapped
<1> QED
  BY <1>1, <1>2, <1>3 DEF ProviderInv

\* A start fills the registry and restores the sender.
LEMMA StartKeeps == ProviderInv /\ StartServer => ProviderInv'
<1> SUFFICES ASSUME ProviderInv, StartServer PROVE ProviderInv'
  OBVIOUS
<1> USE DEF ProviderInv, StartServer
<1>1. ProviderTypeOK'
  OBVIOUS
<1>2. LastWritten' /\ Swapped'
  BY DEF Swapped, LastWritten, Upserting
<1>3. RegistryFollows'
  BY DEF RegistryFollows, loadOAuthProvidersFromDB, InForce
<1>4. SmsAgrees'
  BY DEF SmsAgrees, RestoredSender, NewHot, currentSMSProvider
<1> QED
  BY <1>1, <1>2, <1>3, <1>4

\* The process ends, and the requests with it; the file may be edited then.
LEMMA StopKeeps == ProviderInv /\ (StopServer \/ Configure) => ProviderInv'
<1> SUFFICES ASSUME ProviderInv, StopServer \/ Configure PROVE ProviderInv'
  OBVIOUS
<1> USE DEF ProviderInv, StopServer, Configure, oauthVars, smsVars
<1>1. ProviderTypeOK' /\ ~serving'
  <2>1. CASE StopServer
    <3> USE <2>1
    <3>1. provider' \in Config /\ version' \in Nat /\ conf' \in Conf
      OBVIOUS
    <3>2. setting' \in Sms \cup {"none"}
      OBVIOUS
    <3>3. call' \in [Operator -> [pc : {"idle", "create", "save", "upsert"} \cup Sms, copy : Config]]
      OBVIOUS
    <3>4. /\ serving' = FALSE /\ loaded' \in BOOLEAN /\ edited' \in BOOLEAN
          /\ overlapped' \in BOOLEAN /\ restored' \in BOOLEAN /\ chosen' \in BOOLEAN
      OBVIOUS
    <3> QED
      BY <3>1, <3>2, <3>3, <3>4
  <2>2. CASE Configure
    BY <2>2
  <2> QED
    BY <2>1, <2>2
<1>2. LastWritten' /\ RegistryFollows' /\ SmsAgrees'
  BY <1>1 DEF LastWritten, RegistryFollows, SmsAgrees
<1>3. Swapped'
  BY DEF Swapped
<1> QED
  BY <1>1, <1>2, <1>3

\* A step of the SMS channel's handlers leaves the provider's part alone.
LEMMA SmsKeeps ==
  ASSUME NEW p \in Operator, ProviderInv,
         \/ UpdateSMSChannel(p) \/ SwapPanics(p) \/ SaveSetting(p) \/ SaveSettingFails(p)
  PROVE  ProviderInv'
<1> USE DEF ProviderInv, UpdateSMSChannel, SwapPanics, SaveSetting, SaveSettingFails, oauthVars, smsVars
<1>1. ProviderTypeOK'
  <2>1. CASE UpdateSMSChannel(p)
    BY <2>1
  <2>2. CASE SwapPanics(p)
    BY <2>2
  <2>3. CASE SaveSetting(p)
    BY <2>3
  <2>4. CASE SaveSettingFails(p)
    BY <2>4
  <2> QED
    BY <2>1, <2>2, <2>3, <2>4
<1>2. \A q \in Operator : Upserting(q)' <=> Upserting(q)
  BY DEF Upserting
<1>3. \A q \in Operator : Upserting(q) => call'[q] = call[q]
  BY DEF Upserting
<1>4. LastWritten'
  BY <1>2, <1>3 DEF LastWritten
<1>5. Swapped'
  BY DEF Swapped
<1>6. RegistryFollows'
  BY <1>2 DEF RegistryFollows, Upserting, InForce
<1>7. SmsAgrees'
  BY DEF SmsAgrees, currentSMSProvider, Swapped
<1> QED
  BY <1>1, <1>4, <1>5, <1>6, <1>7

\* Reading the row, and failing to write it.
LEMMA AskKeeps ==
  ASSUME NEW p \in Operator, ProviderInv, UpsertOAuthProvider(p) \/ WriteProviderFails(p)
  PROVE  ProviderInv'
<1> USE DEF ProviderInv, UpsertOAuthProvider, WriteProviderFails, oauthVars, smsVars
<1>1. ProviderTypeOK'
  OBVIOUS
<1>2. \A q \in Operator : Upserting(q)' <=> Upserting(q)
  BY DEF Upserting
<1>3. \A q \in Operator : Upserting(q) => call'[q] = call[q]
  BY DEF Upserting
<1>4. LastWritten'
  BY <1>2, <1>3 DEF LastWritten
<1>5. Swapped'
  BY DEF Swapped
<1>6. RegistryFollows'
  BY <1>2 DEF RegistryFollows, Upserting, InForce
<1>7. SmsAgrees'
  BY DEF SmsAgrees, currentSMSProvider
<1> QED
  BY <1>1, <1>4, <1>5, <1>6, <1>7

\* The row is written: the version on its way is that of the row, unless another
\* one is on its way as well.
LEMMA WriteKeeps ==
  ASSUME NEW p \in Operator, ProviderInv, WriteProvider(p)
  PROVE  ProviderInv'
<1> USE DEF ProviderInv, WriteProvider, smsVars
<1>1. ProviderTypeOK'
  OBVIOUS
<1>2. Upserting(p)' /\ \A q \in Operator \ {p} : call'[q] = call[q]
  BY DEF Upserting
<1>3. LastWritten'
  BY <1>2 DEF LastWritten, Upserting
<1>4. Swapped'
  BY DEF Swapped
<1>5. RegistryFollows'
  BY <1>2 DEF RegistryFollows, Upserting
<1>6. SmsAgrees'
  BY DEF SmsAgrees, currentSMSProvider
<1> QED
  BY <1>1, <1>3, <1>4, <1>5, <1>6

\* The registry takes the version: it is that of the row.
LEMMA UpsertKeeps ==
  ASSUME NEW p \in Operator, ProviderInv, UpsertOrRemove(p)
  PROVE  ProviderInv'
<1> USE DEF ProviderInv, UpsertOrRemove, smsVars
<1>1. ProviderTypeOK'
  OBVIOUS
<1>2. ~Upserting(p)' /\ \A q \in Operator \ {p} : call'[q] = call[q]
  BY DEF Upserting
<1>3. LastWritten'
  BY <1>2 DEF LastWritten, Upserting
<1>4. Swapped'
  BY DEF Swapped
<1>5. RegistryFollows'
  BY <1>2 DEF RegistryFollows, LastWritten, Upserting, InForce
<1>6. SmsAgrees'
  BY DEF SmsAgrees, currentSMSProvider
<1> QED
  BY <1>1, <1>3, <1>4, <1>5, <1>6

\* The inductive invariant of Providers holds throughout.
THEOREM ProviderInvariant == ProviderSpec => []ProviderInv
<1>1. ProviderInv /\ [ProviderNext]_providerVars => ProviderInv'
  <2> SUFFICES ASSUME ProviderInv, [ProviderNext]_providerVars PROVE ProviderInv'
    OBVIOUS
  <2>1. CASE UNCHANGED providerVars
    BY <2>1 DEF providerVars, oauthVars, smsVars, ProviderInv, LastWritten, Swapped, Upserting,
                RegistryFollows, InForce, SmsAgrees, currentSMSProvider
  <2>2. CASE ProviderNext
    BY <2>2, StartKeeps, StopKeeps, SmsKeeps, AskKeeps, WriteKeeps, UpsertKeeps DEF ProviderNext
  <2> QED
    BY <2>1, <2>2
<1> QED
  BY <1>1, ProviderStarts, PTL DEF ProviderSpec

\* The registry has the provider of the row, however often the row is edited,
\* disabled and read again at a start, unless writes overlapped or the table
\* could not be read.
THEOREM RegistryFollowsRow == ProviderSpec => []RegistryFollows
<1>1. ProviderInv => RegistryFollows
  BY DEF ProviderInv
<1> QED
  BY <1>1, ProviderInvariant, PTL

\* The SMS channel reported is the one that sends, unless the setting could not be
\* read at start and none was saved since, or MQ has been switched off since.
THEOREM SmsChannelAgrees == ProviderSpec => []SmsAgrees
<1>1. ProviderInv => SmsAgrees
  BY DEF ProviderInv
<1> QED
  BY <1>1, ProviderInvariant, PTL

HIDE DEF ProviderTypeOK, Config, Sms, Conf, Ready

-----------------------------------------------------------------------------
(* Applications: answers and quotas *)

Named == App \cup {Tenant}

Columns == [st : {"none", "active", "disabled"}, val : Nat]

Asked == [pc : {"idle", "save", "count", "create"}, of : Named \cup {NoRow}, copy : Columns,
          sets : SUBSET Field, fresh : BOOLEAN]

AppTypeOK ==
  /\ implicit \in BOOLEAN
  /\ row \in [Named -> Columns] /\ told \in [Named -> Columns]
  /\ edit \in [Admin -> Asked]
  /\ asked \in Nat /\ peak \in Nat /\ after \in Nat
  /\ crossed \subseteq Named

\* A copy no other save has overtaken differs from its row only where its
\* request asked for it.
Copied(p) ==
  /\ edit[p].of \in Named /\ Exists(edit[p].of) /\ edit[p].copy.st # "none"
  /\ edit[p].fresh =>
       /\ "st" \in edit[p].sets \/ edit[p].copy.st = row[edit[p].of].st
       /\ "val" \in edit[p].sets \/ edit[p].copy.val = row[edit[p].of].val

Copies == \A p \in Admin : On(p, "save") => Copied(p)

\* Requests past the look at the tenant, and past the count.
Passing == {p \in Admin : On(p, "count") \/ On(p, "create")}
Passed == {p \in Admin : On(p, "create")}

\* A count is compared with a limit that was in force; what passed it counts as
\* if it were inserted; nothing passes the look at a stopped tenant.
Limits ==
  /\ Quota(row[Tenant]) <= peak
  /\ \A p \in Admin : On(p, "count") => edit[p].copy.val <= peak
Counted == Cardinality(Apps) + Cardinality(Passed) <= peak + Cardinality(Admin) - 1
Stops == IF Stopped THEN after + Cardinality(Passing) <= Cardinality(Admin) - 1 ELSE after = 0

AppInv == AppTypeOK /\ Copies /\ AnswersStand /\ Limits /\ Counted /\ Stops

-----------------------------------------------------------------------------
\* Counting administrators and applications.
LEMMA AdminNumbers ==
  /\ IsFiniteSet(Apps) /\ Cardinality(Apps) \in Nat /\ Cardinality(Apps) <= Cardinality(App)
  /\ Cardinality(App) \in Nat
  /\ Cardinality(Admin) \in Nat \ {0}
  /\ Unlimited \in Nat \ {0}
<1>1. IsFiniteSet(Apps) /\ Cardinality(Apps) <= Cardinality(App)
  BY FS_Subset, FiniteAssumption DEF Apps
<1>2. Cardinality(App) \in Nat /\ Cardinality(Apps) \in Nat /\ Cardinality(Admin) \in Nat
  BY <1>1, FS_CardinalityType, FiniteAssumption
<1>3. Cardinality(Admin) # 0
  BY FS_EmptySet, FiniteAssumption
<1> QED
  BY <1>1, <1>2, <1>3, LimitAssumption DEF Unlimited

\* How many of the requests are somewhere: never more than there are, and
\* fewer if one is elsewhere.
LEMMA Requests ==
  ASSUME NEW S \in SUBSET Admin
  PROVE  /\ IsFiniteSet(S) /\ Cardinality(S) \in Nat
         /\ Cardinality(S) <= Cardinality(Admin)
         /\ \A p \in Admin \ S : Cardinality(S) <= Cardinality(Admin) - 1
         /\ \A T \in SUBSET S : Cardinality(T) <= Cardinality(S)
         /\ \A p \in S : Cardinality(S \ {p}) = Cardinality(S) - 1
<1>1. IsFiniteSet(S) /\ Cardinality(S) <= Cardinality(Admin) /\ Cardinality(S) \in Nat
  BY FS_Subset, FS_CardinalityType, FiniteAssumption
<1>2. ASSUME NEW p \in Admin \ S PROVE Cardinality(S) <= Cardinality(Admin) - 1
  <2>1. Cardinality(Admin \ {p}) = Cardinality(Admin) - 1 /\ IsFiniteSet(Admin \ {p})
    BY FS_RemoveElement, FiniteAssumption
  <2>2. Cardinality(S) <= Cardinality(Admin \ {p})
    BY <2>1, FS_Subset
  <2> QED
    BY <2>1, <2>2
<1>3. \A T \in SUBSET S : Cardinality(T) <= Cardinality(S)
  BY <1>1, FS_Subset
<1>4. \A p \in S : Cardinality(S \ {p}) = Cardinality(S) - 1
  BY <1>1, FS_RemoveElement
<1> QED
  BY <1>1, <1>2, <1>3, <1>4

\* The quota of a row is a number.
LEMMA QuotaType ==
  ASSUME NEW t \in Columns, implicit \in BOOLEAN
  PROVE  /\ Quota(t) \in Nat
         /\ Quota(t) = 0 \/ Quota(t) = Unlimited \/ Quota(t) = t.val
         /\ Quota(t) > 0 => t.st # "disabled"
BY AdminNumbers DEF Quota, Columns

\* The tenant of a behaviour is the tenant.
LEMMA TenantNamed == Tenant \in Named /\ App \subseteq Named /\ Tenant \notin App /\ NoRow \notin Named
BY RowAssumption DEF Named

\* There is no tenant and no application at first.
LEMMA AppStarts == AppInit => AppInv
<1> SUFFICES ASSUME AppInit PROVE AppInv
  OBVIOUS
<1> USE DEF AppInit
<1>1. Absent \in Columns /\ row[Tenant] = Absent
  BY TenantNamed DEF Absent, Columns, Named
<1>2. AppTypeOK
  BY <1>1, QuotaType DEF AppTypeOK, Asked, Waiting, Field, Named
<1>3. Copies /\ AnswersStand
  BY DEF Copies, On, Waiting, AnswersStand
<1>4. Limits
  BY <1>1, QuotaType DEF Limits, On, Waiting
<1>5. Apps = {} /\ Passed = {} /\ ~Stopped
  BY <1>1, TenantNamed DEF Apps, Exists, Passed, On, Waiting, Stopped, Absent, Named
<1>6. Cardinality(Apps) = 0 /\ Cardinality(Passed) = 0
  BY <1>5, FS_EmptySet
<1>7. peak \in Nat
  BY <1>2 DEF AppTypeOK
<1>8. Counted
  BY <1>6, <1>7, AdminNumbers DEF Counted
<1>9. Stops
  BY <1>5 DEF Stops
<1> QED
  BY <1>2, <1>3, <1>4, <1>8, <1>9 DEF AppInv

-----------------------------------------------------------------------------
\* The tenant's row is written by CreateTenant or EnsureDefaultTenant.
LEMMA TenantKeeps ==
  ASSUME AppInv, EnsureDefaultTenant \/ \E p \in Admin : CreateTenant(p)
  PROVE  AppInv'
<1>1. PICK n \in 1..MaxLimit : Insert(Tenant, Active(n)) /\ TenantWritten
                                /\ UNCHANGED <<implicit, edit, asked, crossed>>
  BY LimitAssumption DEF EnsureDefaultTenant, CreateTenant
<1> USE <1>1 DEF Insert, AppInv
<1>2. Active(n) \in Columns /\ n \in Nat
  BY LimitAssumption DEF Active, Columns
<1>3. row' = [row EXCEPT ![Tenant] = Active(n)] /\ told' = [told EXCEPT ![Tenant] = Active(n)]
  OBVIOUS
<1>4. row' \in [Named -> Columns] /\ told' \in [Named -> Columns] /\ row'[Tenant] = Active(n)
  BY <1>2, <1>3, TenantNamed DEF AppTypeOK
<1>5. Quota(row'[Tenant]) \in Nat /\ Quota(row[Tenant])' = Quota(row'[Tenant])
  <2>1. implicit \in BOOLEAN /\ implicit' = implicit
    BY DEF AppTypeOK
  <2>2. Quota(row'[Tenant]) \in Nat
    BY <2>1, <1>2, <1>4, QuotaType
  <2> QED
    BY ONLY <2>1, <2>2 DEF Quota
<1>6. ~Stopped' /\ ~Stopped
  BY <1>4, TenantNamed DEF Stopped, Active, Exists
<1>7. AppTypeOK'
  BY <1>4, <1>5, <1>6 DEF AppTypeOK, TenantWritten
<1>8. Copies'
  BY <1>3, TenantNamed DEF Copies, Copied, On, Exists, AppTypeOK, Named
<1>9. AnswersStand'
  BY <1>3, <1>4 DEF AnswersStand, AppTypeOK, Named
<1>10. peak' >= peak /\ Quota(row[Tenant])' <= peak' /\ peak \in Nat /\ peak' \in Nat
  BY <1>5, <1>7 DEF TenantWritten, AppTypeOK
<1>11. Limits'
  <2>1. ASSUME NEW p \in Admin, On(p, "count")' PROVE (edit[p].copy.val <= peak)'
    <3>1. edit[p].copy.val \in Nat
      BY DEF AppTypeOK, Asked, Columns
    <3> QED
      BY <2>1, <3>1, <1>10 DEF Limits, On
  <2> QED
    BY <2>1, <1>10 DEF Limits
<1>12. Apps' = Apps /\ Passed' = Passed /\ Passing' = Passing
  BY <1>3, TenantNamed DEF Apps, Exists, Passed, Passing, On, AppTypeOK, Named
<1>13. Counted'
  <2>1. Cardinality(Passed) \in Nat
    BY Requests DEF Passed
  <2> QED
    BY <1>10, <1>12, <2>1, AdminNumbers DEF Counted
<1>14. Stops'
  BY <1>6 DEF Stops, TenantWritten
<1> QED
  BY <1>7, <1>8, <1>9, <1>11, <1>13, <1>14

\* A step that leaves the rows and the histories alone, and does not take a
\* request to the count or past it.
LEMMA RequestKeeps ==
  ASSUME AppInv, NEW p \in Admin, NEW r \in Asked, edit' = [edit EXCEPT ![p] = r],
         r.pc \in {"idle", "save"}, r.pc = "save" => Copied(p)',
         asked' \in Nat, UNCHANGED <<implicit, row, told, crossed, peak, after>>
  PROVE  AppInv'
<1> USE DEF AppInv
<1>1. AppTypeOK'
  BY DEF AppTypeOK
<1>2. edit'[p] = r /\ \A q \in Admin \ {p} : edit'[q] = edit[q]
  BY DEF AppTypeOK
<1>3. \A q \in Admin \ {p} : On(q, "save")' => Copied(q)'
  BY <1>2 DEF Copies, On, Copied, Exists
<1>4. Copies'
  BY <1>2, <1>3 DEF Copies, On
<1>5. AnswersStand'
  BY DEF AnswersStand
<1>6. Apps' = Apps /\ Stopped' = Stopped /\ Quota(row[Tenant])' = Quota(row[Tenant])
  BY DEF Apps, Exists, Stopped, Quota
<1>7. Limits'
  BY <1>2, <1>6 DEF Limits, On
<1>8. Passed' \subseteq Passed /\ Passing' \subseteq Passing
  BY <1>2 DEF Passed, Passing, On
<1>9. /\ Cardinality(Passed') <= Cardinality(Passed) /\ Cardinality(Passed') \in Nat
      /\ Cardinality(Passing') <= Cardinality(Passing) /\ Cardinality(Passing') \in Nat
      /\ Cardinality(Passed) \in Nat /\ Cardinality(Passing) \in Nat
  BY <1>8, Requests DEF Passed, Passing
<1>10. peak \in Nat /\ after \in Nat
  BY DEF AppTypeOK
<1>11. Counted'
  BY <1>6, <1>9, <1>10, AdminNumbers DEF Counted
<1>12. Stops'
  BY <1>6, <1>9, <1>10, AdminNumbers DEF Stops
<1> QED
  BY <1>1, <1>4, <1>5, <1>7, <1>11, <1>12

\* A request that holds no copy.
LEMMA WaitingAsked == Waiting \in Asked /\ Waiting.pc = "idle"
BY DEF Waiting, Asked, Absent, Columns, Field

\* A request reads a row and changes columns of the copy.
LEMMA CopyKeeps ==
  ASSUME AppInv, NEW p \in Admin, NEW i \in Named, NEW new \in Columns, NEW sets \in SUBSET Field,
         Edit(p, i, new, sets), asked' \in Nat, new.st # "none",
         "st" \in sets \/ new.st = row[i].st,
         "val" \in sets \/ new.val = row[i].val
  PROVE  AppInv'
<1> DEFINE r == [pc |-> "save", of |-> i, copy |-> new, sets |-> sets, fresh |-> TRUE]
<1>1. r \in Asked /\ r.pc = "save"
  BY DEF Asked
<1>2. edit' = [edit EXCEPT ![p] = r] /\ UNCHANGED <<implicit, row, told, crossed, peak, after>>
      /\ Exists(i)
  BY DEF Edit
<1>3. edit'[p] = r
  BY <1>2 DEF AppInv, AppTypeOK
<1>4. Copied(p)'
  BY <1>2, <1>3 DEF Copied, Exists
<1> HIDE DEF r
<1> QED
  BY <1>1, <1>2, <1>4, RequestKeeps

\* Reading a row to change some of its columns.
LEMMA EditKeeps ==
  ASSUME AppInv, NEW p \in Admin,
         \/ UpdateTenant(p) \/ UpsertEnterpriseIdP(p)
         \/ \E a \in App : UpdateApp(p, a) \/ RotateSecret(p, a)
  PROVE  AppInv'
<1>1. asked \in Nat /\ \A i \in Named : row[i] \in Columns
  BY DEF AppInv, AppTypeOK
<1>2. asked' = asked \/ asked' = asked + 1
  BY DEF UpdateTenant, UpsertEnterpriseIdP, UpdateApp, RotateSecret
<1>3. \A i \in Named, new \in Columns, sets \in SUBSET Field :
        /\ Edit(p, i, new, sets) /\ new.st # "none"
        /\ "st" \in sets \/ new.st = row[i].st
        /\ "val" \in sets \/ new.val = row[i].val
        => AppInv'
  BY <1>1, <1>2, CopyKeeps
<1>4. ASSUME NEW i \in Named, NEW s \in {"active", "disabled"},
             Edit(p, i, [row[i] EXCEPT !.st = s], {"st"})
      PROVE  AppInv'
  <2> DEFINE new == [row[i] EXCEPT !.st = s]
  <2>1. new \in Columns /\ new.st = s /\ new.val = row[i].val
    BY <1>1 DEF Columns
  <2>2. Edit(p, i, new, {"st"})
    BY <1>4
  <2> HIDE DEF new
  <2> QED
    BY <1>3, <2>1, <2>2 DEF Field
<1>5. ASSUME NEW i \in Named, NEW n \in Nat, Edit(p, i, [row[i] EXCEPT !.val = n], {"val"})
      PROVE  AppInv'
  <2> DEFINE new == [row[i] EXCEPT !.val = n]
  <2>1. new \in Columns /\ new.st = row[i].st
    BY <1>1 DEF Columns
  <2>2. Edit(p, i, new, {"val"})
    BY <1>5
  <2>3. row[i].st # "none"
    BY <1>5 DEF Edit, Exists
  <2> HIDE DEF new
  <2> QED
    BY <1>3, <2>1, <2>2, <2>3 DEF Field
<1>6. ASSUME NEW i \in Named, Edit(p, i, row[i], {}) PROVE AppInv'
  <2>1. {} \in SUBSET Field /\ row[i].st # "none"
    BY <1>6 DEF Edit, Exists
  <2> QED
    BY <1>1, <1>3, <1>6, <2>1
<1>7. CASE UpdateTenant(p)
  <2>1. 0..MaxLimit \subseteq Nat
    BY LimitAssumption
  <2> QED
    BY <1>4, <1>5, <1>7, <2>1, TenantNamed DEF UpdateTenant
<1>8. CASE UpsertEnterpriseIdP(p)
  BY <1>6, <1>8, TenantNamed DEF UpsertEnterpriseIdP
<1>9. ASSUME NEW a \in App, UpdateApp(p, a) PROVE AppInv'
  BY <1>4, <1>6, <1>9, TenantNamed DEF UpdateApp
<1>10. ASSUME NEW a \in App, RotateSecret(p, a) PROVE AppInv'
  BY <1>1, <1>2, <1>5, <1>10, TenantNamed DEF RotateSecret
<1> QED
  BY <1>7, <1>8, <1>9, <1>10

\* A request ends without a write.
LEMMA ReturnKeeps ==
  ASSUME AppInv, NEW p \in Admin, SaveError(p) \/ CreateAppRefused(p)
  PROVE  AppInv'
<1>1. edit' = [edit EXCEPT ![p] = Waiting] /\ UNCHANGED <<implicit, row, asked, told, crossed, peak, after>>
  BY DEF SaveError, CreateAppRefused, Return
<1>2. asked' \in Nat
  BY <1>1 DEF AppInv, AppTypeOK
<1> QED
  BY <1>1, <1>2, WaitingAsked, RequestKeeps

\* The copy is saved: the row keeps existing, copies of it that still wait are
\* outdated, and a tenant stopped by it has one request fewer that passes.
LEMMA SaveKeeps ==
  ASSUME AppInv, NEW p \in Admin, Save(p)
  PROVE  AppInv'
<1> DEFINE e == edit[p]  i == edit[p].of
<1> USE DEF AppInv
<1>1. e \in Asked /\ Copied(p) /\ i \in Named /\ e.copy \in Columns /\ e.copy.st # "none"
  BY DEF Save, AppTypeOK, Asked, Copies, On, Copied
<1>2. /\ row' = [row EXCEPT ![i] = e.copy]
      /\ told' = [told EXCEPT ![i] = Reported(e)]
      /\ crossed' = IF e.fresh THEN crossed ELSE crossed \cup {i}
      /\ TenantWritten /\ UNCHANGED <<implicit, asked>>
  BY DEF Save
<1>3. edit' = [q \in Admin |-> IF q = p THEN Waiting
                               ELSE [edit[q] EXCEPT !.fresh = @ /\ edit[q].of # i]]
  BY DEF Save
<1>4. edit'[p] = Waiting
  BY <1>3
<1>5. \A q \in Admin \ {p} :
        /\ edit'[q] \in Asked
        /\ edit'[q].pc = edit[q].pc /\ edit'[q].of = edit[q].of /\ edit'[q].copy = edit[q].copy
        /\ edit'[q].sets = edit[q].sets /\ (edit'[q].fresh => edit[q].fresh /\ edit[q].of # i)
  BY <1>3 DEF AppTypeOK, Asked
<1>6. Reported(e) \in Columns
  BY <1>1 DEF Reported, Columns, AppTypeOK
<1>7. /\ row' \in [Named -> Columns] /\ told' \in [Named -> Columns] /\ row'[i] = e.copy
      /\ \A j \in Named \ {i} : row'[j] = row[j] /\ told'[j] = told[j]
      /\ told'[i] = Reported(e)
  BY <1>1, <1>2, <1>6 DEF AppTypeOK
<1>8. edit' \in [Admin -> Asked]
  BY <1>3, <1>4, <1>5, WaitingAsked
<1>9. Quota(row'[Tenant]) \in Nat /\ Quota(row[Tenant])' = Quota(row'[Tenant])
  <2>1. implicit \in BOOLEAN /\ implicit' = implicit
    BY <1>2 DEF AppTypeOK
  <2>2. Quota(row'[Tenant]) \in Nat
    BY <2>1, <1>7, TenantNamed, QuotaType
  <2> QED
    BY <2>1, <2>2 DEF Quota
<1>10. AppTypeOK'
  BY <1>1, <1>2, <1>7, <1>8, <1>9 DEF AppTypeOK, TenantWritten
<1>11. Copies'
  <2>1. ASSUME NEW q \in Admin \ {p}, On(q, "save") PROVE Copied(q)'
    <3>1. Copied(q)
      BY <2>1 DEF Copies
    <3>2. Exists(edit[q].of)'
      BY <1>1, <1>7, <1>5, <3>1 DEF Copied, Exists
    <3>3. edit'[q].fresh => edit[q].fresh /\ row'[edit[q].of] = row[edit[q].of]
      BY <1>5, <1>7, <3>1 DEF Copied
    <3> QED
      BY <1>5, <3>1, <3>2, <3>3 DEF Copied
  <2> QED
    BY <1>4, <1>5, <2>1, WaitingAsked DEF Copies, On
<1>12. AnswersStand'
  <2>1. ASSUME i \notin crossed' PROVE row'[i] = told'[i]
    <3>1. row[i] = told[i] /\ e.fresh
      BY <1>1, <1>2, <2>1 DEF AnswersStand, Named
    <3>2. e.copy.st = Reported(e).st /\ e.copy.val = Reported(e).val
      BY <1>1, <3>1 DEF Copied, Reported
    <3> QED
      BY <1>1, <1>6, <1>7, <3>2 DEF Columns
  <2> QED
    BY <1>1, <1>2, <1>7, <2>1 DEF AnswersStand, Named
<1>13. peak' >= peak /\ Quota(row[Tenant])' <= peak' /\ peak \in Nat /\ peak' \in Nat
  BY <1>2, <1>9 DEF TenantWritten, AppTypeOK
<1>14. Limits'
  <2>1. ASSUME NEW q \in Admin, On(q, "count")' PROVE (edit[q].copy.val <= peak)'
    <3>1. q # p /\ On(q, "count") /\ edit'[q].copy = edit[q].copy
      BY <1>4, <1>5, <2>1, WaitingAsked DEF On
    <3>2. edit[q].copy.val \in Nat
      BY DEF AppTypeOK, Asked, Columns
    <3> QED
      BY <3>1, <3>2, <1>13 DEF Limits
  <2> QED
    BY <2>1, <1>13 DEF Limits
<1>15. Apps' = Apps
  BY <1>1, <1>7, TenantNamed DEF Apps, Exists, Copied
<1>16. Passed' = Passed /\ Passing' = Passing /\ p \in Admin \ Passing
  BY <1>4, <1>5, WaitingAsked DEF Passed, Passing, On, Save
<1>17. Counted'
  <2>1. Cardinality(Passed) \in Nat
    BY Requests DEF Passed
  <2> QED
    BY <1>13, <1>15, <1>16, <2>1, AdminNumbers DEF Counted
<1>18. Stops'
  <2>1. Cardinality(Passing) <= Cardinality(Admin) - 1 /\ Cardinality(Passing) \in Nat
    BY <1>16, Requests DEF Passing
  <2>2. CASE Stopped /\ Stopped'
    BY <1>2, <1>16, <2>2 DEF Stops, TenantWritten
  <2>3. CASE ~(Stopped /\ Stopped')
    BY <1>2, <1>16, <2>1, <2>3, AdminNumbers DEF Stops, TenantWritten
  <2> QED
    BY <2>2, <2>3
<1> QED
  BY <1>10, <1>11, <1>12, <1>14, <1>17, <1>18

\* A request looks at the tenant: it is not stopped, and a limit it takes along
\* is in force.
LEMMA LookKeeps ==
  ASSUME AppInv, NEW p \in Admin, assertTenantAppQuota(p)
  PROVE  AppInv'
<1> USE DEF AppInv
<1> DEFINE t == row[Tenant]
           r == [Waiting EXCEPT !.pc = IF Quota(t) = Unlimited THEN "create" ELSE "count", !.copy = t]
<1>1. t \in Columns /\ implicit \in BOOLEAN /\ peak \in Nat /\ Quota(t) > 0
  BY TenantNamed DEF assertTenantAppQuota, AppTypeOK
<1>2. r \in Asked /\ r.copy = t /\ r.pc = IF Quota(t) = Unlimited THEN "create" ELSE "count"
  BY <1>1, WaitingAsked DEF Asked, Waiting
<1>3. edit' = [edit EXCEPT ![p] = r] /\ UNCHANGED <<implicit, row, asked, told, crossed, peak, after>>
  BY DEF assertTenantAppQuota
<1>4. edit'[p] = r /\ \A q \in Admin \ {p} : edit'[q] = edit[q]
  BY <1>3 DEF AppTypeOK
<1> HIDE DEF r
<1>5. AppTypeOK'
  BY <1>2, <1>3 DEF AppTypeOK
<1>6. Copies'
  BY <1>2, <1>3, <1>4 DEF Copies, On, Copied, Exists
<1>7. AnswersStand'
  BY <1>3 DEF AnswersStand
<1>8. Quota(t) \in Nat /\ (Quota(t) = Unlimited \/ Quota(t) = t.val) /\ t.st # "disabled"
  BY <1>1, QuotaType
<1>9. Limits'
  <2>1. Quota(row[Tenant])' <= peak'
    BY <1>3 DEF Limits, Quota
  <2>2. On(p, "count")' => edit'[p].copy.val <= peak'
    BY <1>2, <1>3, <1>4, <1>8 DEF Limits, On
  <2> QED
    BY <1>3, <1>4, <2>1, <2>2 DEF Limits, On
<1>10. Apps' = Apps /\ ~Stopped /\ ~Stopped'
  BY <1>3, <1>8 DEF Apps, Exists, Stopped
<1>11. Counted'
  <2>1. Cardinality(Passed') \in Nat /\ Cardinality(Passed') <= Cardinality(Admin)
        /\ Cardinality(Passed) \in Nat
    BY Requests DEF Passed
  <2>2. CASE Quota(t) = Unlimited
    <3>1. Cardinality(App) + 1 <= peak
      BY <1>1, <1>8, <2>2, AdminNumbers, LimitAssumption DEF Limits, Unlimited
    <3> QED
      BY <1>1, <1>3, <1>10, <2>1, <3>1, AdminNumbers DEF Counted
  <2>3. CASE Quota(t) # Unlimited
    <3>1. Passed' = Passed \/ Passed' = Passed \ {p}
      BY <1>2, <1>4, <2>3 DEF Passed, On
    <3>2. Cardinality(Passed') <= Cardinality(Passed)
      BY <3>1, Requests DEF Passed
    <3> QED
      BY <1>1, <1>3, <1>10, <2>1, <3>2, AdminNumbers DEF Counted
  <2> QED
    BY <2>2, <2>3
<1>12. Stops'
  BY <1>3, <1>10 DEF Stops
<1> QED
  BY <1>5, <1>6, <1>7, <1>9, <1>11, <1>12

\* The count is compared with the limit: a request that gets past it has seen
\* fewer applications than the limit.
LEMMA CountKeeps ==
  ASSUME AppInv, NEW p \in Admin, CountAppsByTenant(p)
  PROVE  AppInv'
<1> USE DEF AppInv
<1>1. CASE Cardinality(Apps) >= edit[p].copy.val
  <2>1. edit' = [edit EXCEPT ![p] = Waiting] /\ UNCHANGED <<implicit, row, asked, told, crossed, peak, after>>
    BY <1>1 DEF CountAppsByTenant
  <2>2. asked' \in Nat
    BY <2>1 DEF AppTypeOK
  <2> QED
    BY <2>1, <2>2, WaitingAsked, RequestKeeps
<1>2. CASE ~(Cardinality(Apps) >= edit[p].copy.val)
  <2> DEFINE r == [Waiting EXCEPT !.pc = "create"]
  <2>1. edit' = [edit EXCEPT ![p] = r] /\ UNCHANGED <<implicit, row, asked, told, crossed, peak, after>>
        /\ On(p, "count")
    BY <1>2 DEF CountAppsByTenant
  <2>2. r \in Asked /\ r.pc = "create"
    BY WaitingAsked DEF Asked, Waiting
  <2>3. edit'[p] = r /\ \A q \in Admin \ {p} : edit'[q] = edit[q]
    BY <2>1 DEF AppTypeOK
  <2> HIDE DEF r
  <2>4. AppTypeOK'
    BY <2>1, <2>2 DEF AppTypeOK
  <2>5. Copies'
    BY <2>1, <2>2, <2>3 DEF Copies, On, Copied, Exists
  <2>6. AnswersStand'
    BY <2>1 DEF AnswersStand
  <2>7. Limits'
    BY <2>1, <2>2, <2>3 DEF Limits, On, Quota
  <2>8. Apps' = Apps /\ Stopped' = Stopped /\ Passing' = Passing
    BY <2>1, <2>2, <2>3 DEF Apps, Exists, Stopped, Passing, On
  <2>9. Counted'
    <3>1. Cardinality(Passed') \in Nat /\ Cardinality(Passed') <= Cardinality(Admin)
      BY Requests DEF Passed
    <3>2. edit[p].copy.val \in Nat /\ peak \in Nat
      BY DEF AppTypeOK, Asked, Columns
    <3>3. Cardinality(Apps) + 1 <= peak
      BY <1>2, <2>1, <3>2, AdminNumbers DEF Limits
    <3> QED
      BY <2>1, <2>8, <3>1, <3>2, <3>3, AdminNumbers DEF Counted
  <2>10. Stops'
    BY <2>1, <2>8 DEF Stops
  <2> QED
    BY <2>4, <2>5, <2>6, <2>7, <2>9, <2>10
<1> QED
  BY <1>1, <1>2

\* A new application: its request was counted already.
LEMMA CreateKeeps ==
  ASSUME AppInv, NEW p \in Admin, NEW a \in App, CreateApp(p, a)
  PROVE  AppInv'
<1> USE DEF AppInv
<1>1. /\ row' = [row EXCEPT ![a] = Active(0)] /\ told' = [told EXCEPT ![a] = Active(0)]
      /\ edit' = [edit EXCEPT ![p] = Waiting]
      /\ after' = IF Stopped THEN after + 1 ELSE after
      /\ UNCHANGED <<implicit, asked, crossed, peak>>
      /\ ~Exists(a) /\ On(p, "create")
  BY DEF CreateApp, Insert, Return
<1>2. Active(0) \in Columns /\ Active(0).st # "none"
  BY DEF Active, Columns
<1>3. /\ row' \in [Named -> Columns] /\ told' \in [Named -> Columns]
      /\ row'[a] = Active(0) /\ told'[a] = Active(0)
      /\ \A j \in Named \ {a} : row'[j] = row[j] /\ told'[j] = told[j]
  BY <1>1, <1>2, TenantNamed DEF AppTypeOK
<1>4. edit'[p] = Waiting /\ \A q \in Admin \ {p} : edit'[q] = edit[q]
  BY <1>1 DEF AppTypeOK
<1>5. AppTypeOK'
  BY <1>1, <1>3, WaitingAsked DEF AppTypeOK
<1>6. Copies'
  BY <1>1, <1>3, <1>4, WaitingAsked DEF Copies, On, Copied, Exists
<1>7. AnswersStand'
  BY <1>1, <1>3 DEF AnswersStand, Named
<1>8. row'[Tenant] = row[Tenant] /\ Stopped' = Stopped
  BY <1>3, TenantNamed DEF Stopped
<1>9. Limits'
  BY <1>1, <1>4, <1>8, WaitingAsked DEF Limits, On, Quota
<1>10. Apps' = Apps \cup {a} /\ a \notin Apps
  BY <1>1, <1>2, <1>3, TenantNamed DEF Apps, Exists
<1>11. Cardinality(Apps') = Cardinality(Apps) + 1
  BY <1>10, AdminNumbers, FS_AddElement
<1>12. Passed' = Passed \ {p} /\ p \in Passed /\ Passing' = Passing \ {p} /\ p \in Passing
  BY <1>1, <1>4, WaitingAsked DEF Passed, Passing, On
<1>13. /\ Cardinality(Passed') = Cardinality(Passed) - 1 /\ Cardinality(Passed) \in Nat
       /\ Cardinality(Passing') = Cardinality(Passing) - 1 /\ Cardinality(Passing) \in Nat
  BY <1>12, Requests DEF Passed, Passing
<1>14. peak \in Nat /\ after \in Nat
  BY DEF AppTypeOK
<1>15. Counted'
  BY <1>1, <1>11, <1>13, <1>14, AdminNumbers DEF Counted
<1>16. Stops'
  BY <1>1, <1>8, <1>13, <1>14, AdminNumbers DEF Stops
<1> QED
  BY <1>5, <1>6, <1>7, <1>9, <1>15, <1>16

-----------------------------------------------------------------------------
\* The inductive invariant of Applications holds throughout.
THEOREM AppInvariant == AppSpec => []AppInv
<1>1. AppInv /\ [AppNext]_appVars => AppInv'
  <2> SUFFICES ASSUME AppInv, [AppNext]_appVars PROVE AppInv'
    OBVIOUS
  <2>1. CASE UNCHANGED appVars
    BY <2>1 DEF appVars, AppInv, AppTypeOK, Copies, Copied, On, Exists, AnswersStand, Limits, Quota,
                Counted, Apps, Passed, Stops, Stopped, Passing
  <2>2. CASE AppNext
    BY <2>2, TenantKeeps, EditKeeps, ReturnKeeps, SaveKeeps, LookKeeps, CountKeeps, CreateKeeps
       DEF AppNext
  <2> QED
    BY <2>1, <2>2
<1> QED
  BY <1>1, AppStarts, PTL DEF AppSpec

\* What the answers reported is what the rows hold, but for rows that were
\* saved from an outdated copy, for any number of requests at a time.
THEOREM AnswersHold == AppSpec => []AnswersStand
<1>1. AppInv => AnswersStand
  BY DEF AppInv
<1> QED
  BY <1>1, AppInvariant, PTL

\* Applications beyond the highest limit, and those created after the tenant was
\* stopped, are fewer than the requests served at a time.
THEOREM QuotaBoundedHolds == AppSpec => []QuotaBounded
<1>1. AppInv => QuotaBounded
  <2> SUFFICES ASSUME AppInv PROVE QuotaBounded
    OBVIOUS
  <2>1. Cardinality(Passed) \in Nat /\ Cardinality(Passing) \in Nat
    BY Requests DEF Passed, Passing
  <2>2. peak \in Nat /\ after \in Nat
    BY DEF AppInv, AppTypeOK
  <2> QED
    BY <2>1, <2>2, AdminNumbers DEF AppInv, Counted, Stops, QuotaBounded
<1> QED
  BY <1>1, AppInvariant, PTL

-----------------------------------------------------------------------------
(* WebhookBus: attempts that do not overlap *)

LimitOf(d) == MaxAttempts[delivery[d].endpoint]

\* Ids are handed out in order.
Numbered == Rows = 1 .. Cardinality(Rows)

\* What holds of a goroutine's row while no other goroutine has it: the POSTs
\* made, those recorded, and whether the receiver has accepted it.
Attempt(w, d) ==
  LET recorded == delivery[d].attempts IN
  /\ recorded < LimitOf(d) /\ delivery[d].status \in {"pending", "retry"}
  /\ CASE worker[w].pc = "post"  -> posts[d] = recorded /\ d \notin acked
       [] worker[w].pc = "ok"    -> posts[d] = recorded + 1
       [] worker[w].pc = "fail"  -> posts[d] = recorded + 1 /\ d \notin acked
       [] worker[w].pc = "write" -> posts[d] = recorded + 1 /\ d \notin acked
                                    /\ worker[w].n = recorded + 1
       [] OTHER -> FALSE

\* ... and of a row between two attempts: one to be retried has some left, and
\* was not accepted.
Resting(d) ==
  /\ delivery[d].status # "pending"
  /\ posts[d] = delivery[d].attempts /\ posts[d] <= LimitOf(d)
  /\ d \in acked => delivery[d].status = "success"
  /\ delivery[d].status = "retry" => posts[d] < LimitOf(d)

OnlyOne(w, d) == \A v \in Worker : worker[v].row = d => v = w

Serial(d) ==
  /\ Busy(d) = {} => Resting(d)
  /\ \A w \in Worker : worker[w].row = d => Attempt(w, d) /\ OnlyOne(w, d)

BusInv ==
  /\ BusTypeOK /\ Numbered
  /\ \A w \in Worker : worker[w].pc = "free" => worker[w] = Free
  /\ \A d \in Id \ Rows : posts[d] = 0
  /\ \A d \in Rows \ muddled : Serial(d)

-----------------------------------------------------------------------------
\* Ids are numbers, and none of them is None.
LEMMA IdNat == Id \subseteq Nat /\ None \notin Id
BY NoneAssumption, BoundsAssumption DEF Id

\* The numbers of a row, and its limit, which the count of POSTs can reach.
LEMMA LimitType ==
  ASSUME BusTypeOK, NEW d \in Rows
  PROVE  /\ delivery[d] \in Row /\ LimitOf(d) \in Nat \ {0} /\ LimitOf(d) < MaxPosts
         /\ delivery[d].attempts \in Nat /\ d \in Id /\ posts[d] \in Nat
BY AttemptsAssumption, PostsAssumption, BoundsAssumption DEF BusTypeOK, LimitOf, Row

\* Where goroutines are: a busy one has a row, a free one has none.
LEMMA WorkerRow ==
  ASSUME BusInv, NEW w \in Worker
  PROVE  /\ worker[w] \in Goroutine
         /\ worker[w].pc # "free" => worker[w].row \in Rows
         /\ worker[w].row \in Id => worker[w].pc # "free"
BY IdNat DEF BusInv, BusTypeOK, Free

\* There is no delivery at first.
LEMMA BusStarts == BusInit => BusInv
<1> SUFFICES ASSUME BusInit PROVE BusInv
  OBVIOUS
<1> USE DEF BusInit
<1>1. Rows = {}
  BY DEF Rows
<1>2. Cardinality(Rows) = 0
  BY <1>1, FS_EmptySet
<1>3. BusTypeOK
  BY <1>1 DEF BusTypeOK, EndpointState, Goroutine, Free
<1>4. Numbered
  BY <1>1, <1>2 DEF Numbered
<1> QED
  BY <1>1, <1>3, <1>4 DEF BusInv

\* The next id is new.
LEMMA Fresh ==
  ASSUME BusInv
  PROVE  /\ Cardinality(Rows) \in Nat
         /\ Cardinality(Rows) + 1 \notin Rows
         /\ \A S : S = Rows \cup {Cardinality(Rows) + 1} => S = 1 .. Cardinality(S)
<1>1. Rows \subseteq 1..MaxRows /\ MaxRows \in Nat
  BY BoundsAssumption DEF BusInv, BusTypeOK, Id
<1>2. IsFiniteSet(Rows) /\ Cardinality(Rows) \in Nat
  <2>1. IsFiniteSet(1..MaxRows)
    BY <1>1, FS_Interval
  <2>2. IsFiniteSet(Rows)
    BY <1>1, <2>1, FS_Subset
  <2> QED
    BY <2>2, FS_CardinalityType
<1>3. Cardinality(Rows) + 1 \notin Rows
  BY <1>2 DEF BusInv, Numbered
<1>4. Cardinality(Rows \cup {Cardinality(Rows) + 1}) = Cardinality(Rows) + 1
  BY <1>2, <1>3, FS_AddElement
<1>5. Rows \cup {Cardinality(Rows) + 1} = 1 .. (Cardinality(Rows) + 1)
  BY <1>2 DEF BusInv, Numbered
<1> QED
  BY <1>2, <1>3, <1>4, <1>5

-----------------------------------------------------------------------------
\* A step keeps the rows, and every row it does not muddle.
LEMMA RowsKeep ==
  ASSUME BusInv, BusTypeOK', Rows' = Rows,
         \A w \in Worker : worker'[w].pc = "free" => worker'[w] = Free,
         \A d \in Id \ Rows : posts'[d] = posts[d],
         muddled \subseteq muddled',
         \A d \in Rows \ muddled' : Serial(d)'
  PROVE  BusInv'
BY DEF BusInv, Numbered

\* What Serial says of a row does not change with the other rows.
LEMMA Untouched ==
  ASSUME NEW d \in Rows, Serial(d), d \in Rows',
         delivery'[d].endpoint = delivery[d].endpoint,
         delivery'[d].attempts = delivery[d].attempts,
         delivery'[d].status = delivery[d].status,
         posts'[d] = posts[d], d \in acked' <=> d \in acked,
         \A w \in Worker : worker'[w].row = d \/ worker[w].row = d => worker'[w] = worker[w]
  PROVE  Serial(d)'
<1>1. LimitOf(d)' = LimitOf(d)
  BY DEF LimitOf
<1>2. Busy(d)' = Busy(d)
  BY DEF Busy
<1>3. Resting(d) => Resting(d)'
  BY <1>1 DEF Resting
<1>4. ASSUME NEW w \in Worker, worker'[w].row = d PROVE Attempt(w, d)' /\ OnlyOne(w, d)'
  <2>1. worker'[w] = worker[w] /\ Attempt(w, d) /\ OnlyOne(w, d)
    BY <1>4 DEF Serial
  <2> QED
    BY <1>1, <2>1 DEF Attempt, OnlyOne
<1> QED
  BY <1>2, <1>3, <1>4 DEF Serial

\* The console changes endpoints, and no delivery.
LEMMA EndpointKeeps ==
  ASSUME BusInv, NEW e \in Endpoint, CreateWebhook(e) \/ UpdateWebhook(e) \/ DeleteWebhook(e)
  PROVE  BusInv'
<1>1. PICK s \in EndpointState : SetEndpoint(e, s)
  BY DEF CreateWebhook, UpdateWebhook, DeleteWebhook, EndpointState
<1>2. endpoint' = [endpoint EXCEPT ![e] = s]
      /\ UNCHANGED <<delivery, worker, due, faults, posts, acked, muddled>>
  BY <1>1 DEF SetEndpoint
<1>3. BusTypeOK' /\ Rows' = Rows
  BY <1>2 DEF BusInv, BusTypeOK, Rows
<1>4. \A d \in Rows \ muddled' : Serial(d)'
  BY <1>2, <1>3, Untouched DEF BusInv
<1> QED
  BY <1>2, <1>3, <1>4, RowsKeep DEF BusInv

\* A new row and its goroutine.
LEMMA EnqueueKeeps ==
  ASSUME BusInv, NEW w \in Worker, NEW e \in Endpoint, Enqueue(w, e)
  PROVE  BusInv'
<1>0. PICK d \in Id : d = Cardinality(Rows) + 1
  BY Fresh, BoundsAssumption DEF Enqueue, Id
<1> DEFINE new == [endpoint |-> e, status |-> "pending", attempts |-> 0, next |-> FALSE, ripe |-> FALSE]
<1>1. /\ d \in Id \ Rows /\ posts[d] = 0 /\ d \notin acked
      /\ delivery' = [k \in Rows \cup {d} |-> IF k = d THEN new ELSE delivery[k]]
      /\ worker[w] = Free
      /\ worker' = [worker EXCEPT ![w] = [pc |-> "post", row |-> d, n |-> 0]]
      /\ UNCHANGED <<endpoint, due, faults, posts, acked, muddled>>
  BY <1>0, Fresh DEF Enqueue, Go, BusInv, BusTypeOK
<1>2. new \in Row /\ new.attempts = 0 /\ new.endpoint = e
  BY DEF Row, Status
<1>3. \A v \in Worker : worker[v].row # d
  BY <1>1, WorkerRow
<1> HIDE DEF new
<1>4. Rows' = Rows \cup {d} /\ delivery'[d] = new /\ \A k \in Rows : delivery'[k] = delivery[k]
  BY <1>1 DEF Rows
<1>5. worker' \in [Worker -> Goroutine] /\ worker'[w] = [pc |-> "post", row |-> d, n |-> 0]
      /\ \A v \in Worker \ {w} : worker'[v] = worker[v]
  BY <1>1 DEF BusInv, BusTypeOK, Goroutine
<1>6. BusTypeOK'
  <2>1. \A k \in Rows' : delivery'[k] \in Row
    BY <1>2, <1>4 DEF BusInv, BusTypeOK
  <2>2. \A v \in Worker : worker'[v].pc # "free" => worker'[v].row \in Rows'
    BY <1>4, <1>5 DEF BusInv, BusTypeOK
  <2> QED
    BY <1>1, <1>4, <1>5, <2>1, <2>2 DEF BusInv, BusTypeOK
<1>7. Numbered'
  BY <1>0, <1>4, Fresh DEF Numbered
<1>8. \A v \in Worker : worker'[v].pc = "free" => worker'[v] = Free
  BY <1>5 DEF BusInv
<1>9. \A k \in Id \ Rows' : posts'[k] = 0
  BY <1>1, <1>4 DEF BusInv
<1>10. Serial(d)'
  <2>1. LimitOf(d)' = MaxAttempts[e] /\ MaxAttempts[e] \in Nat \ {0}
    BY <1>2, <1>4, AttemptsAssumption DEF LimitOf
  <2>2. \A v \in Worker : worker'[v].row = d => v = w
    BY <1>3, <1>5
  <2>3. w \in Busy(d)'
    BY <1>5 DEF Busy
  <2>4. Attempt(w, d)'
    <3>1. delivery'[d].status = "pending"
      BY <1>4 DEF new
    <3> QED
      BY <1>1, <1>2, <1>4, <1>5, <2>1, <3>1 DEF Attempt
  <2> QED
    BY <2>2, <2>3, <2>4 DEF Serial, OnlyOne
<1>11. ASSUME NEW k \in Rows \ muddled PROVE Serial(k)'
  <2>1. k # d /\ Serial(k)
    BY <1>1 DEF BusInv
  <2>2. worker[w].row # k
    BY <1>1, IdNat DEF Free, BusInv, BusTypeOK
  <2>3. \A v \in Worker : worker'[v].row = k \/ worker[v].row = k => worker'[v] = worker[v]
    BY <1>5, <2>1, <2>2
  <2> QED
    BY <1>1, <1>4, <2>1, <2>3, Untouched
<1> QED
  BY <1>1, <1>4, <1>6, <1>7, <1>8, <1>9, <1>10, <1>11 DEF BusInv

\* An event, a trial and a replay each add a row with a goroutine.
LEMMA EmitKeeps ==
  ASSUME BusInv, NEW w \in Worker,
         \/ \E e \in Endpoint : Emit(w, e) \/ TestEndpoint(w, e)
         \/ \E d \in Id : ReplayDelivery(w, d)
  PROVE  BusInv'
<1>1. \A d \in Rows : delivery[d].endpoint \in Endpoint
  BY DEF BusInv, BusTypeOK, Row
<1> QED
  BY <1>1, EnqueueKeeps DEF Emit, TestEndpoint, ReplayDelivery

\* A step of a goroutine at its own row: only what it says of that row is left
\* to show.
LEMMA OwnRow ==
  ASSUME BusInv, NEW w \in Worker, NEW d \in Rows, worker[w].row = d,
         NEW g \in Goroutine, worker' = [worker EXCEPT ![w] = g],
         g = Free \/ (g.pc # "free" /\ g.row = d),
         Rows' = Rows, delivery'[d] \in Row, delivery'[d].endpoint = delivery[d].endpoint,
         \A k \in Rows \ {d} : delivery'[k] = delivery[k],
         posts' \in [Id -> Nat], \A k \in Id \ {d} : posts'[k] = posts[k],
         acked' \subseteq Rows, \A k \in Id \ {d} : k \in acked' <=> k \in acked,
         muddled' = muddled, faults' \in Nat, UNCHANGED <<endpoint, due>>,
         d \notin muddled =>
           \/ g = Free /\ Resting(d)'
           \/ g # Free /\ Attempt(w, d)'
  PROVE  BusInv'
<1> USE DEF BusInv
<1>1. Rows' = Rows /\ Rows \subseteq Id /\ d \in Id
  BY DEF BusTypeOK
<1>2. worker' \in [Worker -> Goroutine] /\ worker'[w] = g
      /\ \A v \in Worker \ {w} : worker'[v] = worker[v]
  BY DEF BusTypeOK
<1>3. \A k \in Rows' : delivery'[k] \in Row
  BY <1>1 DEF BusTypeOK
<1>4. Free.pc = "free" /\ Free.row \notin Rows
  BY <1>1, IdNat DEF Free
<1>5. \A v \in Worker : /\ worker'[v].pc # "free" => worker'[v].row \in Rows'
                        /\ worker'[v].pc = "free" => worker'[v] = Free
  BY <1>1, <1>2, <1>4 DEF BusTypeOK
<1>6. BusTypeOK'
  BY <1>1, <1>2, <1>3, <1>5 DEF BusTypeOK
<1>7. \A k \in Id \ Rows : posts'[k] = posts[k]
  BY <1>1
<1>8. ASSUME NEW k \in Rows \ muddled, k # d PROVE Serial(k)'
  <2>1. Serial(k) /\ k \in Rows'
    BY <1>1, <1>8
  <2>2. \A v \in Worker : worker'[v].row = k \/ worker[v].row = k => worker'[v] = worker[v]
    BY <1>2, <1>4, <1>8
  <2> QED
    BY <1>1, <1>8, <2>1, <2>2, Untouched
<1>9. ASSUME d \notin muddled PROVE Serial(d)'
  <2>1. \A v \in Worker : worker'[v].row = d => v = w
    BY <1>2, <1>9 DEF Serial, OnlyOne
  <2>2. CASE g = Free
    <3>1. Resting(d)' /\ \A v \in Worker : worker'[v].row # d
      BY <1>2, <1>4, <1>9, <2>1, <2>2
    <3> QED
      BY <3>1 DEF Serial
  <2>3. CASE g # Free
    <3>1. Attempt(w, d)' /\ w \in Busy(d)'
      BY <1>2, <1>9, <2>3 DEF Busy
    <3> QED
      BY <2>1, <3>1 DEF Serial, OnlyOne
  <2> QED
    BY <2>2, <2>3
<1>10. \A k \in Rows \ muddled' : Serial(k)'
  BY <1>8, <1>9
<1> QED
  BY <1>1, <1>5, <1>6, <1>7, <1>10, RowsKeep

\* What is known of a goroutine before its step.
LEMMA AtRow ==
  ASSUME BusInv, NEW w \in Worker, worker[w].pc # "free"
  PROVE  /\ worker[w].row \in Rows /\ worker[w].row \in Id
         /\ worker[w] \in Goroutine
         /\ worker[w].row \notin muddled => Attempt(w, worker[w].row)
BY DEF BusInv, BusTypeOK, Serial

\* A goroutine that is done.
LEMMA FreeGoroutine == Free \in Goroutine /\ Free.pc = "free"
BY DEF Free, Goroutine

\* A POST is counted before it is recorded.
LEMMA PostKeeps ==
  ASSUME BusInv, NEW w \in Worker, PostOK(w) \/ PostFails(w)
  PROVE  BusInv'
<1>1. PICK outcome \in {"ok", "fail"} :
        /\ Post(w, outcome)
        /\ acked' = IF outcome = "ok" THEN acked \cup {worker[w].row} ELSE acked
        /\ UNCHANGED <<endpoint, delivery, due, faults, muddled>>
  BY DEF PostOK, PostFails
<1> DEFINE g == [pc |-> outcome, row |-> worker[w].row, n |-> worker[w].n]
<1>2. worker[w].pc = "post" /\ worker[w] \in Goroutine
      /\ posts' = [posts EXCEPT ![worker[w].row] = IF @ < MaxPosts THEN @ + 1 ELSE @]
      /\ worker' = [worker EXCEPT ![w].pc = outcome]
  BY <1>1, AtRow DEF Post
<1>3. PICK d \in Rows : worker[w].row = d /\ d \in Id /\ (d \notin muddled => Attempt(w, d))
  BY <1>2, AtRow
<1>4. g \in Goroutine /\ g.pc # "free" /\ g.row = d
  BY <1>2, <1>3 DEF Goroutine
<1>5. worker' = [worker EXCEPT ![w] = g]
  <2>1. [worker[w] EXCEPT !.pc = outcome] = g
    BY <1>2 DEF Goroutine
  <2> QED
    BY <1>2, <2>1
<1>6. posts' \in [Id -> Nat] /\ \A k \in Id \ {d} : posts'[k] = posts[k]
  BY <1>2, <1>3 DEF BusInv, BusTypeOK
<1>7. delivery' = delivery /\ Rows' = Rows /\ delivery[d] \in Row
  BY <1>1, <1>3 DEF Rows, BusInv, BusTypeOK
<1>8. acked' \subseteq Rows /\ \A k \in Id \ {d} : k \in acked' <=> k \in acked
  BY <1>1, <1>3 DEF BusInv, BusTypeOK
<1>9. faults' \in Nat
  BY <1>1 DEF BusInv, BusTypeOK
<1>10. ASSUME d \notin muddled PROVE Attempt(w, d)'
  <2>1. /\ posts[d] = delivery[d].attempts /\ d \notin acked /\ posts[d] < LimitOf(d)
        /\ posts[d] \in Nat /\ LimitOf(d) \in Nat /\ LimitOf(d) < MaxPosts
        /\ delivery[d].status \in {"pending", "retry"}
    BY <1>2, <1>3, <1>10, LimitType DEF Attempt, BusInv
  <2>2. posts'[d] = posts[d] + 1
    BY <1>2, <1>3, <2>1, BoundsAssumption DEF BusInv, BusTypeOK
  <2>3. worker'[w].pc = outcome /\ (outcome = "fail" => d \notin acked')
    BY <1>1, <1>5, <2>1 DEF BusInv, BusTypeOK
  <2>4. LimitOf(d)' = LimitOf(d) /\ delivery' = delivery
    BY <1>1 DEF LimitOf
  <2> QED
    BY <2>1, <2>2, <2>3, <2>4 DEF Attempt
<1>11. g # Free
  BY <1>4, FreeGoroutine
<1> HIDE DEF g
<1> QED
  BY <1>1, <1>3, <1>4, <1>5, <1>6, <1>7, <1>8, <1>9, <1>10, <1>11, OwnRow

\* markFail adds one to the attempts it reads.
LEMMA markFailReadKeeps ==
  ASSUME BusInv, NEW w \in Worker, markFailRead(w)
  PROVE  BusInv'
<1>1. worker[w].pc = "fail" /\ worker[w] \in Goroutine
      /\ UNCHANGED <<endpoint, delivery, due, faults, posts, acked, muddled>>
  BY AtRow DEF markFailRead
<1>2. PICK d \in Rows : worker[w].row = d /\ d \in Id /\ (d \notin muddled => Attempt(w, d))
  BY <1>1, AtRow
<1> DEFINE g == [pc |-> "write", row |-> d, n |-> delivery[d].attempts + 1]
<1>3. delivery' = delivery /\ Rows' = Rows /\ delivery[d] \in Row /\ delivery[d].attempts \in Nat
  BY <1>1, <1>2, LimitType DEF Rows, BusInv
<1>4. g \in Goroutine /\ g.pc # "free" /\ g.row = d
  BY <1>2, <1>3 DEF Goroutine
<1>5. worker' = [worker EXCEPT ![w] = g]
  BY <1>2 DEF markFailRead
<1>6. posts' \in [Id -> Nat] /\ acked' \subseteq Rows /\ faults' \in Nat
  BY <1>1 DEF BusInv, BusTypeOK
<1>7. ASSUME d \notin muddled PROVE Attempt(w, d)'
  <2>1. worker'[w] = g
    BY <1>5 DEF BusInv, BusTypeOK
  <2>2. LimitOf(d)' = LimitOf(d)
    BY <1>1 DEF LimitOf
  <2> QED
    BY <1>1, <1>2, <1>7, <2>1, <2>2 DEF Attempt
<1>8. g # Free
  BY <1>4, FreeGoroutine
<1> HIDE DEF g
<1> QED
  BY <1>1, <1>2, <1>3, <1>4, <1>5, <1>6, <1>7, <1>8, OwnRow

\* The row is written: what is recorded is what was POSTed, and what is left to
\* be retried has attempts left.
LEMMA MarkKeeps ==
  ASSUME BusInv, NEW w \in Worker, MarkSuccess(w) \/ markFailWrite(w)
  PROVE  BusInv'
<1>1. worker[w].pc \in {"ok", "write"} /\ worker[w] \in Goroutine
      /\ worker' = [worker EXCEPT ![w] = Free]
      /\ UNCHANGED <<endpoint, due, faults, posts, acked, muddled>>
  BY AtRow DEF MarkSuccess, markFailWrite, Write, Done
<1>2. PICK d \in Rows : worker[w].row = d /\ d \in Id /\ (d \notin muddled => Attempt(w, d))
  BY <1>1, AtRow
<1>3. /\ delivery[d] \in Row /\ LimitOf(d) \in Nat /\ delivery[d].attempts \in Nat
      /\ worker[w].n \in Nat
  BY <1>1, <1>2, LimitType DEF BusInv, Goroutine
<1>4. PICK r \in Row :
        /\ delivery' = [delivery EXCEPT ![d] = r]
        /\ r.endpoint = delivery[d].endpoint
        /\ \/ worker[w].pc = "ok" /\ r.status = "success" /\ r.attempts = delivery[d].attempts + 1
           \/ worker[w].pc = "write" /\ r.attempts = worker[w].n /\ r.status # "pending"
              /\ (r.status = "retry" => worker[w].n < LimitOf(d))
  <2>1. CASE MarkSuccess(w)
    <3> DEFINE r == [endpoint |-> delivery[d].endpoint, status |-> "success",
                     attempts |-> delivery[d].attempts + 1,
                     next |-> delivery[d].next, ripe |-> delivery[d].ripe]
    <3>1. r \in Row
      BY <1>3 DEF Row, Status
    <3>2. delivery' = [delivery EXCEPT ![d] = r] /\ worker[w].pc = "ok"
      BY <1>2, <2>1 DEF MarkSuccess
    <3> QED
      BY <3>1, <3>2
  <2>2. CASE markFailWrite(w)
    <3>1. PICK status \in {"dead", "retry"}, next \in BOOLEAN :
            Write(w, status, next) /\ (status = "retry" => ~(worker[w].n >= LimitOf(d)))
      BY <1>2, <2>2 DEF markFailWrite, LimitOf
    <3> DEFINE r == [endpoint |-> delivery[d].endpoint, status |-> status, attempts |-> worker[w].n,
                     next |-> next, ripe |-> FALSE]
    <3>2. r \in Row
      BY <1>3, <3>1 DEF Row, Status
    <3>3. delivery' = [delivery EXCEPT ![d] = r] /\ worker[w].pc = "write"
      BY <1>2, <2>2, <3>1 DEF Write, markFailWrite
    <3>4. status = "retry" => worker[w].n < LimitOf(d)
      BY <1>3, <3>1
    <3> QED
      BY <3>2, <3>3, <3>4
  <2> QED
    BY <2>1, <2>2
<1>5. posts' \in [Id -> Nat] /\ acked' \subseteq Rows /\ faults' \in Nat
  BY <1>1 DEF BusInv, BusTypeOK
<1>6. Rows' = Rows /\ delivery'[d] = r /\ \A k \in Rows \ {d} : delivery'[k] = delivery[k]
  BY <1>2, <1>4 DEF Rows
<1>7. ASSUME d \notin muddled PROVE Resting(d)'
  <2>1. delivery'[d] = r
    BY <1>6
  <2>2. LimitOf(d)' = LimitOf(d)
    BY <1>4, <2>1 DEF LimitOf
  <2>3. delivery[d].attempts < LimitOf(d) /\ posts[d] = delivery[d].attempts + 1
        /\ r.attempts = posts[d]
    BY <1>1, <1>2, <1>4, <1>7 DEF Attempt
  <2>4. worker[w].pc = "write" => d \notin acked
    BY <1>2, <1>7 DEF Attempt
  <2>5. r.status = "retry" => posts[d] < LimitOf(d)
    BY <1>4, <2>3
  <2> QED
    BY <1>1, <1>3, <1>4, <2>1, <2>2, <2>3, <2>4, <2>5 DEF Resting
<1> QED
  BY <1>1, <1>2, <1>4, <1>5, <1>6, <1>7, FreeGoroutine, OwnRow

-----------------------------------------------------------------------------
\* Goroutines end with their rows given up as muddled: a dropped write, a
\* restart.
LEMMA LostKeeps ==
  ASSUME BusInv, (\E w \in Worker : Dropped(w)) \/ Restart
  PROVE  BusInv'
<1> DEFINE Lost(v) == worker'[v] = Free /\ (worker[v].row \in Rows => worker[v].row \in muddled')
<1>1. /\ UNCHANGED <<endpoint, delivery, posts, acked>> /\ faults' \in Nat /\ due' \subseteq due
      /\ muddled \subseteq muddled' /\ muddled' \subseteq Rows
      /\ worker' \in [Worker -> Goroutine]
      /\ \A v \in Worker : worker'[v] = worker[v] \/ Lost(v)
  <2>1. CASE Restart
    BY <2>1, FreeGoroutine DEF Restart, BusInv, BusTypeOK, Busy
  <2>2. CASE \E w \in Worker : Dropped(w)
    <3>1. PICK w \in Worker : Dropped(w)
      BY <2>2
    <3>2. worker[w].row \in Rows
      BY <3>1, AtRow DEF Dropped
    <3>3. worker' = [worker EXCEPT ![w] = Free] /\ muddled' = muddled \cup {worker[w].row}
      BY <3>1 DEF Dropped, Done
    <3> QED
      BY <3>1, <3>2, <3>3, FreeGoroutine DEF Dropped, BusInv, BusTypeOK
  <2> QED
    BY <2>1, <2>2
<1>2. Rows' = Rows
  BY <1>1 DEF Rows
<1>3. BusTypeOK' /\ \A v \in Worker : worker'[v].pc = "free" => worker'[v] = Free
  BY <1>1, <1>2, FreeGoroutine DEF BusInv, BusTypeOK
<1>4. Free.row \notin Rows
  BY IdNat DEF Free, BusInv, BusTypeOK
<1>5. ASSUME NEW d \in Rows \ muddled' PROVE Serial(d)'
  <2>1. Serial(d)
    BY <1>1 DEF BusInv
  <2>2. \A v \in Worker : worker'[v].row = d \/ worker[v].row = d => worker'[v] = worker[v]
    BY <1>1, <1>4
  <2> QED
    BY <1>1, <1>2, <2>1, <2>2, Untouched
<1> QED
  BY <1>1, <1>2, <1>3, <1>5, RowsKeep

-----------------------------------------------------------------------------
\* The clock and the reads of the ticker.
LEMMA TickKeeps ==
  ASSUME BusInv, (\E d \in Id : BackoffEnds(d)) \/ flushRetries
  PROVE  BusInv'
<1>1. UNCHANGED <<endpoint, worker, faults, posts, acked, muddled>>
  BY DEF BackoffEnds, flushRetries
<1>2. Rows' = Rows /\ due' \subseteq Rows
      /\ \A k \in Rows : /\ delivery'[k] \in Row /\ delivery'[k].endpoint = delivery[k].endpoint
                         /\ delivery'[k].attempts = delivery[k].attempts
                         /\ delivery'[k].status = delivery[k].status
  <2>1. CASE flushRetries
    BY <2>1 DEF flushRetries, First, DueRows, Rows, BusInv, BusTypeOK
  <2>2. CASE \E d \in Id : BackoffEnds(d)
    <3>1. PICK d \in Rows : delivery' = [delivery EXCEPT ![d].ripe = TRUE] /\ due' = due
      BY <2>2 DEF BackoffEnds
    <3>2. Rows' = Rows /\ (\A k \in Rows \ {d} : delivery'[k] = delivery[k])
          /\ delivery'[d] = [delivery[d] EXCEPT !.ripe = TRUE]
      BY <3>1 DEF Rows
    <3>3. \A k \in Rows : delivery[k] \in Row
      BY DEF BusInv, BusTypeOK
    <3>4. /\ delivery'[d] \in Row /\ delivery'[d].endpoint = delivery[d].endpoint
          /\ delivery'[d].attempts = delivery[d].attempts /\ delivery'[d].status = delivery[d].status
      BY <3>2, <3>3 DEF Row
    <3> QED
      BY <3>1, <3>2, <3>3, <3>4 DEF BusInv, BusTypeOK
  <2> QED
    BY <2>1, <2>2
<1>3. BusTypeOK'
  BY <1>1, <1>2 DEF BusInv, BusTypeOK
<1>4. \A k \in Rows \ muddled' : Serial(k)'
  BY <1>1, <1>2, Untouched DEF BusInv
<1> QED
  BY <1>1, <1>2, <1>3, <1>4, RowsKeep DEF BusInv

\* A row the tick acts on, unless that muddles it, rests and is still due.
LEMMA DueRests ==
  ASSUME BusInv, NEW d \in Rows, d \notin Muddle(d)
  PROVE  /\ Busy(d) = {} /\ Resting(d) /\ d \notin muddled
         /\ delivery[d].status = "retry" /\ d \notin acked /\ posts[d] < LimitOf(d)
<1>1. d \in DueRows /\ Busy(d) = {} /\ d \notin muddled
  BY DEF Muddle
<1>2. delivery[d].status = "retry"
  BY <1>1 DEF DueRows
<1> QED
  BY <1>1, <1>2 DEF BusInv, Serial, Resting

\* The tick muddles rows that there are, and clears none.
LEMMA MuddleType ==
  ASSUME BusInv, NEW d \in Rows
  PROVE  muddled \subseteq Muddle(d) /\ Muddle(d) \subseteq Rows
BY DEF Muddle, BusInv, BusTypeOK

\* The tick starts a goroutine for a row that is due.
LEMMA RelaunchKeeps ==
  ASSUME BusInv, NEW w \in Worker, NEW d \in Id, Relaunch(w, d)
  PROVE  BusInv'
<1>1. d \in Rows /\ worker[w] = Free
      /\ worker' = [worker EXCEPT ![w] = [pc |-> "post", row |-> d, n |-> 0]]
      /\ due' = due \ {d} /\ muddled' = Muddle(d)
      /\ UNCHANGED <<endpoint, delivery, faults, posts, acked>>
  BY DEF Relaunch, Go, First, BusInv, BusTypeOK
<1>2. worker' \in [Worker -> Goroutine] /\ worker'[w] = [pc |-> "post", row |-> d, n |-> 0]
      /\ \A v \in Worker \ {w} : worker'[v] = worker[v]
  BY <1>1 DEF BusInv, BusTypeOK, Goroutine
<1>3. Rows' = Rows
  BY <1>1 DEF Rows
<1>4. BusTypeOK'
  <2>1. \A v \in Worker : worker'[v].pc # "free" => worker'[v].row \in Rows'
    BY <1>1, <1>2, <1>3 DEF BusInv, BusTypeOK
  <2> QED
    BY <1>1, <1>2, <1>3, <2>1, MuddleType DEF BusInv, BusTypeOK
<1>5. \A v \in Worker : worker'[v].pc = "free" => worker'[v] = Free
  BY <1>2 DEF BusInv
<1>6. ASSUME d \notin muddled' PROVE Serial(d)'
  <2>1. /\ Busy(d) = {} /\ Resting(d) /\ d \notin acked /\ posts[d] < LimitOf(d)
        /\ delivery[d].status = "retry"
    BY <1>1, <1>6, DueRests
  <2>2. \A v \in Worker : worker'[v].row = d => v = w
    BY <1>2, <2>1 DEF Busy
  <2>3. LimitOf(d)' = LimitOf(d)
    BY <1>1 DEF LimitOf
  <2>4. Attempt(w, d)' /\ w \in Busy(d)'
    BY <1>1, <1>2, <2>1, <2>3 DEF Attempt, Resting, Busy
  <2> QED
    BY <2>2, <2>4 DEF Serial, OnlyOne
<1>7. ASSUME NEW k \in Rows \ muddled', k # d PROVE Serial(k)'
  <2>1. Serial(k)
    BY <1>1, <1>7, MuddleType DEF BusInv
  <2>2. worker[w].row # k
    BY <1>1, IdNat DEF Free, BusInv, BusTypeOK
  <2>3. \A v \in Worker : worker'[v].row = k \/ worker[v].row = k => worker'[v] = worker[v]
    BY <1>2, <1>7, <2>2
  <2> QED
    BY <1>1, <1>3, <2>1, <2>3, Untouched
<1> QED
  BY <1>1, <1>3, <1>4, <1>5, <1>6, <1>7, MuddleType, RowsKeep

\* The tick gives up a row whose endpoint is gone.
LEMMA GiveUpKeeps ==
  ASSUME BusInv, NEW d \in Id, GiveUp(d)
  PROVE  BusInv'
<1>1. d \in Rows /\ delivery' = [delivery EXCEPT ![d].status = "dead"]
      /\ due' = due \ {d} /\ muddled' = Muddle(d)
      /\ UNCHANGED <<endpoint, worker, posts, acked>>
  BY DEF GiveUp, First, BusInv, BusTypeOK
<1>2. faults' \in Nat
  BY DEF GiveUp, Unreachable, BusInv, BusTypeOK
<1>3. Rows' = Rows /\ (\A k \in Rows \ {d} : delivery'[k] = delivery[k])
      /\ delivery'[d] = [delivery[d] EXCEPT !.status = "dead"]
  BY <1>1 DEF Rows
<1>4. delivery[d] \in Row
  BY <1>1 DEF BusInv, BusTypeOK
<1>5. delivery'[d] \in Row /\ delivery'[d].endpoint = delivery[d].endpoint
      /\ delivery'[d].attempts = delivery[d].attempts /\ delivery'[d].status = "dead"
  BY <1>3, <1>4 DEF Row, Status
<1>6. BusTypeOK'
  BY <1>1, <1>2, <1>3, <1>5, MuddleType DEF BusInv, BusTypeOK
<1>7. ASSUME d \notin muddled' PROVE Serial(d)'
  <2>1. Busy(d) = {} /\ Resting(d) /\ d \notin acked
    BY <1>1, <1>7, DueRests
  <2>2. LimitOf(d)' = LimitOf(d)
    BY <1>5 DEF LimitOf
  <2>3. Resting(d)'
    BY <1>1, <1>5, <2>1, <2>2 DEF Resting
  <2> QED
    BY <1>1, <2>1, <2>3 DEF Serial, Busy
<1>8. ASSUME NEW k \in Rows \ muddled', k # d PROVE Serial(k)'
  <2>1. Serial(k)
    BY <1>1, <1>8, MuddleType DEF BusInv
  <2> QED
    BY <1>1, <1>3, <1>8, <2>1, Untouched
<1> QED
  BY <1>1, <1>3, <1>6, <1>7, <1>8, MuddleType, RowsKeep DEF BusInv

-----------------------------------------------------------------------------
\* Every step preserves the invariant.
LEMMA BusStep ==
  ASSUME BusInv, [BusNext]_busVars
  PROVE  BusInv'
<1>1. CASE UNCHANGED busVars
  <2>1. Rows' = Rows /\ BusTypeOK'
    BY <1>1 DEF busVars, Rows, BusInv, BusTypeOK
  <2>2. \A k \in Rows \ muddled' : Serial(k)'
    BY <1>1, <2>1, Untouched DEF busVars, BusInv
  <2> QED
    BY <1>1, <2>1, <2>2, RowsKeep DEF busVars, BusInv
<1>2. CASE BusNext
  BY <1>2, EndpointKeeps, EmitKeeps, PostKeeps, MarkKeeps, markFailReadKeeps, LostKeeps, TickKeeps,
     RelaunchKeeps, GiveUpKeeps DEF BusNext, Deliver
<1> QED
  BY <1>1, <1>2

\* The inductive invariant of WebhookBus holds throughout.
THEOREM BusInvariant == BusSpec => []BusInv
<1>1. BusInv /\ [BusNext]_busVars => BusInv'
  BY BusStep
<1> QED
  BY <1>1, BusStarts, PTL DEF BusSpec

\* Endpoints, rows and goroutines keep their types: a goroutine has a row.
THEOREM BusTypeCorrect == BusSpec => []BusTypeOK
<1>1. BusInv => BusTypeOK
  BY DEF BusInv
<1> QED
  BY <1>1, BusInvariant, PTL

\* deliver and markFail: a row whose attempts did not overlap is POSTed within
\* its limit, counted exactly and settled as the receiver answered.
THEOREM SerialDeliveries == BusSpec => []SerialDeliveriesExact
<1>1. BusInv => SerialDeliveriesExact
  <2> SUFFICES ASSUME BusInv, NEW d \in Rows \ muddled
               PROVE  /\ posts[d] <= MaxAttempts[delivery[d].endpoint]
                      /\ Busy(d) = {} => /\ delivery[d].attempts = posts[d]
                                        /\ delivery[d].status # "pending"
                                        /\ (d \in acked => delivery[d].status = "success")
    BY DEF SerialDeliveriesExact
  <2>1. Serial(d) /\ posts[d] \in Nat /\ LimitOf(d) \in Nat /\ delivery[d].attempts \in Nat
    BY LimitType DEF BusInv
  <2>2. CASE Busy(d) = {}
    BY <2>1, <2>2 DEF Serial, Resting, LimitOf
  <2>3. CASE Busy(d) # {}
    <3>1. PICK w \in Worker : worker[w].row = d
      BY <2>3 DEF Busy
    <3>2. delivery[d].attempts < LimitOf(d)
          /\ (posts[d] = delivery[d].attempts \/ posts[d] = delivery[d].attempts + 1)
      BY <2>1, <3>1 DEF Serial, Attempt
    <3> QED
      BY <2>1, <2>3, <3>2 DEF LimitOf
  <2> QED
    BY <2>2, <2>3
<1> QED
  BY <1>1, BusInvariant, PTL

\* A row once muddled stays so.
LEMMA MuddleGrows ==
  ASSUME BusInv, [BusNext]_busVars
  PROVE  muddled \subseteq muddled'
BY DEF BusNext, busVars, CreateWebhook, UpdateWebhook, DeleteWebhook, SetEndpoint, Emit,
   TestEndpoint, ReplayDelivery, Enqueue, Relaunch, Deliver, PostOK, PostFails, MarkSuccess,
   markFailRead, markFailWrite, Write, Dropped, flushRetries, BackoffEnds, GiveUp, Restart, Muddle

\* What is POSTed, and what a row is recorded as, changes by an attempt or by
\* the tick.
LEMMA WhoPosts ==
  ASSUME BusInv, [BusNext]_busVars, NEW d \in Rows, posts'[d] # posts[d]
  PROVE  \E w \in Worker : worker[w].pc = "post" /\ worker[w].row = d
<1>1. \E w \in Worker, outcome \in {"ok", "fail"} : Post(w, outcome)
  BY DEF BusNext, busVars, CreateWebhook, UpdateWebhook, DeleteWebhook, SetEndpoint, Emit,
     TestEndpoint, ReplayDelivery, Enqueue, Relaunch, Deliver, PostOK, PostFails, MarkSuccess,
     markFailRead, markFailWrite, Write, Dropped, flushRetries, BackoffEnds, GiveUp, Restart
<1> QED
  BY <1>1 DEF Post, BusInv, BusTypeOK

\* The status of a row changes by the end of an attempt, or by being given up.
LEMMA WhoRecords ==
  ASSUME BusInv, [BusNext]_busVars, NEW d \in Rows, delivery'[d].status # delivery[d].status
  PROVE  \/ \E w \in Worker : worker[w].pc \in {"ok", "write"} /\ worker[w].row = d
         \/ GiveUp(d)
<1>1. ASSUME NEW w \in Worker, NEW e \in Endpoint, Enqueue(w, e) PROVE delivery'[d] = delivery[d]
  BY <1>1, Fresh DEF Enqueue
<1>2. ASSUME NEW w \in Worker, MarkSuccess(w) \/ markFailWrite(w), worker[w].row # d
      PROVE  delivery'[d] = delivery[d]
  BY <1>2 DEF MarkSuccess, markFailWrite, Write, Rows
<1>3. ASSUME NEW k \in Id, BackoffEnds(k) PROVE delivery'[d].status = delivery[d].status
  BY <1>3 DEF BackoffEnds, Rows, BusInv, BusTypeOK, Row
<1>4. ASSUME NEW k \in Id, GiveUp(k), k # d PROVE delivery'[d] = delivery[d]
  BY <1>4 DEF GiveUp, Rows
<1>5. ASSUME delivery' = delivery PROVE FALSE
  BY <1>5
<1>6. \A w \in Worker : MarkSuccess(w) \/ markFailWrite(w) => worker[w].pc \in {"ok", "write"}
  BY DEF MarkSuccess, markFailWrite
<1>7. \A k \in Rows : delivery[k].endpoint \in Endpoint
  BY DEF BusInv, BusTypeOK, Row
<1> QED
  BY <1>1, <1>2, <1>3, <1>4, <1>5, <1>6, <1>7 DEF BusNext, busVars, CreateWebhook, UpdateWebhook,
     DeleteWebhook, SetEndpoint, Emit, TestEndpoint, ReplayDelivery, Relaunch, Deliver, PostOK,
     PostFails, markFailRead, Dropped, flushRetries, Restart

\* deliver, markFail and flushRetries: what is over stays over, for any number
\* of rows, goroutines and restarts.
THEOREM SettledRestsHolds == BusSpec => SettledRests
<1> DEFINE Rests ==
      \A d \in Rows \ muddled' :
        LET settled == delivery[d].status \in {"success", "dead"} IN
        /\ settled \/ d \in acked => posts'[d] = posts[d]
        /\ settled => delivery'[d].status = delivery[d].status
<1>1. BusInv /\ [BusNext]_busVars => Rests
  <2> SUFFICES ASSUME BusInv, [BusNext]_busVars, NEW d \in Rows, d \notin muddled'
               PROVE  LET settled == delivery[d].status \in {"success", "dead"} IN
                      /\ settled \/ d \in acked => posts'[d] = posts[d]
                      /\ settled => delivery'[d].status = delivery[d].status
    OBVIOUS
  <2>1. muddled \subseteq muddled'
    BY MuddleGrows
  <2>2. Serial(d)
    BY <2>1 DEF BusInv
  <2>3. ASSUME posts'[d] # posts[d]
        PROVE  d \notin acked /\ delivery[d].status \in {"pending", "retry"}
    <3>1. PICK w \in Worker : worker[w].pc = "post" /\ worker[w].row = d
      BY <2>3, WhoPosts
    <3> QED
      BY <2>2, <3>1 DEF Serial, Attempt
  <2>4. ASSUME delivery'[d].status # delivery[d].status
        PROVE  delivery[d].status \in {"pending", "retry"}
    <3>1. CASE \E w \in Worker : worker[w].pc \in {"ok", "write"} /\ worker[w].row = d
      BY <2>2, <3>1 DEF Serial, Attempt
    <3>2. CASE GiveUp(d)
      BY <3>2, DueRests DEF GiveUp
    <3> QED
      BY <2>4, <3>1, <3>2, WhoRecords
  <2> QED
    BY <2>3, <2>4
<1> QED
  BY BusInvariant, <1>1, PTL DEF BusSpec, SettledRests
=============================================================================
