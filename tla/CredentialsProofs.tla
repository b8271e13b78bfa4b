------------------------- MODULE CredentialsProofs -------------------------
(***************************************************************************)
(* Proofs about Credentials, for any secrets, codes and number of          *)
(* concurrent requests, and any number of lost and failed saves.           *)
(***************************************************************************)
EXTENDS Credentials, TLAPS

CodesOf(r) == IF r = None THEN {} ELSE r.codes

Lost == stale + unsaved

\* What EnabledIsProven says, of a copy of the row as well.
Good(r) ==
  /\ r.on => r.secret \in proven
  /\ \A c \in r.codes : r.on /\ issuedFor[c] = r.secret

Saving == {p \in Proc : At(p, "save")}

Copies == \A p \in Saving : Good(req[p].next)

\* A code is known only once it was issued, and a copy that is about to be
\* saved gives up the code it was accepted for.
Known ==
  /\ CodesOf(row) \subseteq Issued
  /\ \A c \in Code : accepted[c] > 0 => c \in Issued
  /\ \A p \in Saving :
       /\ CodesOf(req[p].seen) \subseteq Issued /\ req[p].next.codes \subseteq Issued
       /\ req[p].code \in CodesOf(req[p].seen) \cup {None}
       /\ req[p].code \notin req[p].next.codes

\* A code that a copy adds to the row it was made from is in that copy alone,
\* and was never accepted.
Fresh ==
  \A p \in Saving : \A c \in req[p].next.codes \ CodesOf(req[p].seen) :
    /\ accepted[c] = 0 /\ c \notin CodesOf(row)
    /\ \A q \in Saving \ {p} : c \notin CodesOf(req[q].seen) \cup req[q].next.codes

\* A code that is still in the row was accepted once less than CodesBounded
\* allows.
Counted ==
  \A c \in Code :
    /\ accepted[c] <= 1 + Lost
    /\ c \in CodesOf(row) => accepted[c] <= Lost

Answers ==
  stale = 0 => \A p \in Saving : req[p].answer = Tell(req[p].next.pwd, req[p].next.on)

Deletions == deleted /\ ~raced => ~passkey /\ \A p \in Proc : ~At(p, "update")

\* The inductive invariant.
IInv ==
  /\ TypeOK /\ EnabledIsProven /\ Copies /\ Known /\ Fresh /\ Counted
  /\ ToldStands /\ Answers /\ Deletions

\* What the handlers that read the row have in common: p is left with the
\* copy r.next of it, and codes that r.next adds are fresh.
SaveReq == [pc : {"save"}, seen : Row \cup {None}, next : Row,
            code : Code \cup {None}, answer : Told]

Reads(p, r) ==
  /\ At(p, "idle") /\ req' = [req EXCEPT ![p] = r] /\ r \in SaveReq
  /\ (row' = row \/ (row = None /\ row' = EmptyRow))
  /\ CodesOf(r.seen) = CodesOf(row) /\ (r.next.codes \ CodesOf(row)) \cap Issued = {}
  /\ proven \subseteq proven' /\ proven' \subseteq Secret
  /\ issuedFor' \in [Code -> Secret \cup {None}]
  /\ \A c \in Issued : issuedFor'[c] = issuedFor[c]
  /\ Good(r.next)' /\ r.next.codes \subseteq Issued'
  /\ r.code \in CodesOf(row) \cup {None} /\ r.code \notin r.next.codes
  /\ stale = 0 => r.answer = Tell(r.next.pwd, r.next.on)
  /\ UNCHANGED <<passkey, accepted, stale, unsaved, told, deleted, raced>>

-----------------------------------------------------------------------------
LEMMA Rows ==
  /\ EmptyRow \in Row /\ EmptyRow # None /\ None \notin Row
  /\ EmptyRow.codes = {} /\ ~EmptyRow.on /\ EmptyRow.pwd = None
  /\ None \notin Code /\ None \notin Secret
<1>1. None \notin Row /\ None \notin Code /\ None \notin Secret
  BY NoneAssumption
<1>2. EmptyRow \in Row
  BY DEF EmptyRow, Credential, Row
<1>3. EmptyRow.codes = {} /\ EmptyRow.on = FALSE /\ EmptyRow.pwd = None
  BY DEF EmptyRow, Credential
<1> QED
  BY <1>1, <1>2, <1>3

\* What a row is made of.
LEMMA RowFields ==
  ASSUME NEW r \in Row
  PROVE  /\ r.pwd \in Pwd \cup {None} /\ r.secret \in Secret \cup {None}
         /\ r.on \in BOOLEAN /\ r.codes \in SUBSET Code /\ r # None
         /\ r.on => r.secret # None
BY Rows DEF Row

\* The row as a handler sees it, once it has read it.
LEMMA Seen ==
  ASSUME TypeOK, EnabledIsProven, Known
  PROVE  /\ RowOrEmpty \in Row /\ Good(RowOrEmpty) /\ RowOrEmpty.codes = CodesOf(row)
         /\ RowOrEmpty.codes \subseteq Issued
         /\ row # None => RowOrEmpty = row
         /\ (ToldStands /\ stale = 0) => told = Tell(RowOrEmpty.pwd, RowOrEmpty.on)
<1>1. CASE row = None
  BY <1>1, Rows DEF RowOrEmpty, Good, CodesOf, ToldStands, EmptyRow, Credential
<1>2. CASE row # None
  BY <1>2 DEF RowOrEmpty, Good, CodesOf, TypeOK, EnabledIsProven, ToldStands, Known
<1> QED
  BY <1>1, <1>2

LEMMA ToldParts ==
  ASSUME TypeOK
  PROVE  told.pwd \in Pwd \cup {None} /\ told.on \in BOOLEAN /\ told = Tell(told.pwd, told.on)
BY DEF TypeOK, Told, Tell

LEMMA ReadTypes ==
  ASSUME IInv
  PROVE  /\ row \in Row \cup {None} /\ told \in Told
         /\ told.pwd \in Pwd \cup {None} /\ told.on \in BOOLEAN
         /\ proven \subseteq Secret /\ issuedFor \in [Code -> Secret \cup {None}]
BY ToldParts DEF IInv, TypeOK

LEMMA TellEqual ==
  ASSUME NEW w, NEW on, told = Tell(w, on)
  PROVE  told.pwd = w /\ told.on = on
BY DEF Tell

-----------------------------------------------------------------------------
LEMMA UpsertReads ==
  ASSUME IInv, NEW p \in Proc, NEW w \in Pwd, UpsertPassword(p, w)
  PROVE  \E r : Reads(p, r)
<1> PICK s, n, r : /\ s = RowOrEmpty /\ n = Credential(w, s.secret, s.on, s.codes)
                   /\ r = Save(row, n, None, Tell(w, told.on))
  OBVIOUS
<1>1. s \in Row /\ Good(s) /\ s.codes = CodesOf(row) /\ s.codes \subseteq Issued
  BY Seen DEF IInv
<1>2. n \in Row /\ n.pwd = w /\ n.secret = s.secret /\ n.on = s.on /\ n.codes = s.codes
  BY <1>1, RowFields DEF Credential, Row
<1>3. r \in SaveReq /\ r.seen = row /\ r.next = n /\ r.code = None /\ r.answer = Tell(w, told.on)
  BY <1>2, ReadTypes DEF Save, SaveReq, Tell, Told
<1>4. stale = 0 => told.on = s.on
  BY Seen, TellEqual DEF IInv
<1>5. Good(r.next)'
  BY <1>3, <1>1, <1>2 DEF UpsertPassword, Good
<1>6. None \notin n.codes
  BY <1>1, <1>2, Rows DEF Row
<1>7. At(p, "idle") /\ req' = [req EXCEPT ![p] = r]
  BY DEF UpsertPassword, Start
<1>8. UNCHANGED <<row, proven, issuedFor, passkey, accepted, stale, unsaved, told, deleted, raced>>
  BY DEF UpsertPassword
<1>9. Reads(p, r)
  BY <1>1, <1>2, <1>3, <1>4, <1>5, <1>6, <1>7, <1>8 DEF Reads, IInv, TypeOK, Issued
<1> QED
  BY <1>9

LEMMA SetupReads ==
  ASSUME IInv, NEW p \in Proc, NEW x \in Secret, MFASetup(p, x)
  PROVE  \E r : Reads(p, r)
<1> PICK s, n, r : /\ s = RowOrEmpty /\ n = Credential(s.pwd, x, FALSE, s.codes)
                   /\ r = Save(s, n, None, told)
  OBVIOUS
<1>1. s \in Row /\ Good(s) /\ s.codes = CodesOf(row) /\ s.codes \subseteq Issued /\ ~s.on
  BY Seen DEF IInv, MFASetup
<1>2. n \in Row /\ n.pwd = s.pwd /\ n.on = FALSE /\ n.codes = s.codes /\ s.codes = {}
  BY <1>1, RowFields DEF Credential, Row, Good
<1>3. r \in SaveReq /\ r.seen = s /\ r.next = n /\ r.code = None /\ r.answer = told
  BY <1>1, <1>2, ReadTypes DEF Save, SaveReq, Tell, Told
<1>4. stale = 0 => told = Tell(s.pwd, FALSE)
  BY <1>1, Seen DEF IInv, Row
<1>5. Good(r.next)'
  BY <1>3, <1>2 DEF Good
<1>6. (row' = row \/ (row = None /\ row' = EmptyRow)) /\ CodesOf(s) = CodesOf(row)
  BY <1>1, RowFields DEF MFASetup, RowOrEmpty, CodesOf
<1>7. At(p, "idle") /\ req' = [req EXCEPT ![p] = r]
  BY DEF MFASetup, Start
<1>8. UNCHANGED <<proven, issuedFor, passkey, accepted, stale, unsaved, told, deleted, raced>>
  BY DEF MFASetup
<1>9. Reads(p, r)
  BY <1>1, <1>2, <1>3, <1>4, <1>5, <1>6, <1>7, <1>8 DEF Reads, IInv, TypeOK, Issued
<1> QED
  BY <1>9

LEMMA EnableReads ==
  ASSUME IInv, NEW p \in Proc, NEW codes \in SUBSET Code, MFAEnable(p, codes)
  PROVE  \E r : Reads(p, r)
<1> PICK n, r : /\ n = Credential(row.pwd, row.secret, TRUE, codes)
                /\ r = Save(row, n, None, Tell(told.pwd, TRUE))
  OBVIOUS
<1>1. /\ row \in Row /\ row # None /\ row.secret \in Secret /\ row.secret # None
      /\ codes \cap Issued = {}
  BY RowFields DEF IInv, TypeOK, MFAEnable
<1>2. n \in Row /\ n.pwd = row.pwd /\ n.secret = row.secret /\ n.on = TRUE /\ n.codes = codes
  BY <1>1, RowFields DEF Credential, Row
<1>3. r \in SaveReq /\ r.seen = row /\ r.next = n /\ r.code = None
      /\ r.answer = Tell(told.pwd, TRUE)
  BY <1>1, <1>2, ReadTypes DEF Save, SaveReq, Tell, Told
<1>4. stale = 0 => told.pwd = row.pwd
  BY <1>1, TellEqual DEF IInv, ToldStands
<1>5. proven' = proven \cup {row.secret}
      /\ issuedFor' = [c \in Code |-> IF c \in codes THEN row.secret ELSE issuedFor[c]]
  BY DEF MFAEnable
<1>6. Good(r.next)' /\ codes \subseteq Issued'
  BY <1>3, <1>1, <1>2, <1>5, Rows DEF Good, Issued
<1>7. At(p, "idle") /\ req' = [req EXCEPT ![p] = r]
      /\ UNCHANGED <<row, passkey, accepted, stale, unsaved, told, deleted, raced>>
  BY DEF MFAEnable, Hold, Start
<1>8. /\ issuedFor' \in [Code -> Secret \cup {None}]
      /\ \A c \in Issued : issuedFor'[c] = issuedFor[c]
      /\ proven \subseteq proven' /\ proven' \subseteq Secret
  BY <1>1, <1>5 DEF IInv, TypeOK, Issued
<1>9. Reads(p, r)
  BY <1>1, <1>2, <1>3, <1>4, <1>6, <1>7, <1>8, Rows DEF Reads
<1> QED
  BY <1>9

LEMMA DisableReads ==
  ASSUME IInv, NEW p \in Proc, MFADisable(p)
  PROVE  \E r : Reads(p, r)
<1> PICK n, r : /\ n = Credential(row.pwd, None, FALSE, {})
                /\ r = Save(row, n, None, Tell(told.pwd, FALSE))
  OBVIOUS
<1>1. row \in Row /\ row # None
  BY DEF IInv, TypeOK, MFADisable
<1>2. n \in Row /\ n.pwd = row.pwd /\ n.on = FALSE /\ n.codes = {}
  BY <1>1, RowFields DEF Credential, Row
<1>3. r \in SaveReq /\ r.seen = row /\ r.next = n /\ r.code = None
      /\ r.answer = Tell(told.pwd, FALSE)
  BY <1>1, <1>2, ReadTypes DEF Save, SaveReq, Tell, Told
<1>4. stale = 0 => told.pwd = row.pwd
  BY <1>1, TellEqual DEF IInv, ToldStands
<1>5. Good(r.next)'
  BY <1>3, <1>2 DEF Good
<1>6. At(p, "idle") /\ req' = [req EXCEPT ![p] = r]
      /\ UNCHANGED <<row, proven, issuedFor, passkey, accepted, stale, unsaved, told, deleted, raced>>
  BY DEF MFADisable, Hold, Start
<1>7. Reads(p, r)
  BY <1>1, <1>2, <1>3, <1>4, <1>5, <1>6 DEF Reads, IInv, TypeOK
<1> QED
  BY <1>7

LEMMA VerifyReads ==
  ASSUME IInv, NEW p \in Proc, NEW c \in Code, verifyMFACode(p, c)
  PROVE  \E r : Reads(p, r)
<1> PICK n, r : /\ n = Credential(row.pwd, row.secret, row.on, row.codes \ {c})
                /\ r = Save(row, n, c, told)
  OBVIOUS
<1>1. row \in Row /\ row # None /\ c \in row.codes /\ Good(row) /\ CodesOf(row) = row.codes
      /\ row.codes \subseteq Issued
  BY DEF IInv, TypeOK, verifyMFACode, EnabledIsProven, Good, CodesOf, Known
<1>2. n \in Row /\ n.pwd = row.pwd /\ n.secret = row.secret /\ n.on = row.on
      /\ n.codes = row.codes \ {c}
  BY <1>1, RowFields DEF Credential, Row
<1>3. r \in SaveReq /\ r.seen = row /\ r.next = n /\ r.code = c /\ r.answer = told
  BY <1>1, <1>2, ReadTypes DEF Save, SaveReq, Tell, Told
<1>4. stale = 0 => told = Tell(n.pwd, n.on)
  BY <1>1, <1>2 DEF IInv, ToldStands
<1>5. At(p, "idle") /\ req' = [req EXCEPT ![p] = r]
      /\ UNCHANGED <<row, proven, issuedFor, passkey, accepted, stale, unsaved, told, deleted, raced>>
  BY DEF verifyMFACode, Hold, Start
<1>6. Good(r.next)'
  BY <1>3, <1>1, <1>2, <1>5 DEF Good
<1>7. /\ r.code \in CodesOf(row) \cup {None} /\ r.code \notin r.next.codes
      /\ r.next.codes \subseteq Issued' /\ (r.next.codes \ CodesOf(row)) \cap Issued = {}
      /\ CodesOf(r.seen) = CodesOf(row)
  BY <1>1, <1>2, <1>3, <1>5 DEF Issued
<1>8. stale = 0 => r.answer = Tell(r.next.pwd, r.next.on)
  BY <1>3, <1>4
<1>9. Reads(p, r)
  BY <1>3, <1>5, <1>6, <1>7, <1>8, ReadTypes DEF Reads
<1> QED
  BY <1>9

LEMMA InheritReads ==
  ASSUME IInv, NEW p \in Proc, NEW o \in Row, MergeInherit(p, o)
  PROVE  \E r : Reads(p, r)
<1> PICK n, r : /\ n = IF row = None THEN o
                       ELSE Credential(o.pwd, row.secret, row.on, row.codes)
                /\ r = Save(row, n, None, Tell(n.pwd, n.on))
  OBVIOUS
<1>1. At(p, "idle") /\ req' = [req EXCEPT ![p] = r]
      /\ UNCHANGED <<row, passkey, accepted, stale, unsaved, told, deleted, raced>>
  BY DEF MergeInherit, Start
<1>2. n \in Row
  BY RowFields DEF Credential, Row, IInv, TypeOK
<1>3. r \in SaveReq /\ r.seen = row /\ r.next = n /\ r.code = None
      /\ r.answer = Tell(n.pwd, n.on) /\ None \notin n.codes
  BY <1>2, ReadTypes, RowFields, Rows DEF Save, SaveReq, Tell, Told
<1>4. CASE row # None
  <2>1. row \in Row /\ Good(row) /\ CodesOf(row) = row.codes /\ row.codes \subseteq Issued
    BY <1>4 DEF IInv, TypeOK, EnabledIsProven, Good, CodesOf, Known
  <2>2. n.secret = row.secret /\ n.on = row.on /\ n.codes = row.codes
    BY <1>4, <2>1, RowFields DEF Credential, Row
  <2>3. UNCHANGED <<proven, issuedFor>>
    BY <1>4 DEF MergeInherit
  <2>4. r.next.secret = row.secret /\ r.next.on = row.on /\ r.next.codes = row.codes
    BY <1>3, <2>2
  <2>5. Good(r.next)'
    BY <2>1, <2>3, <2>4 DEF Good
  <2>6. Reads(p, r)
    BY <1>1, <1>2, <1>3, <2>1, <2>2, <2>3, <2>5 DEF Reads, IInv, TypeOK, Issued
  <2> QED
    BY <2>6
<1>5. CASE row = None /\ ~o.on
  <2>1. n = o /\ n.codes = {} /\ CodesOf(row) = {} /\ UNCHANGED <<proven, issuedFor>>
    BY <1>5 DEF MergeInherit, CodesOf
  <2>2. Good(r.next)'
    BY <1>3, <1>5, <2>1 DEF Good
  <2>3. Reads(p, r)
    BY <1>1, <1>2, <1>3, <1>5, <2>1, <2>2 DEF Reads, IInv, TypeOK
  <2> QED
    BY <2>3
<1>6. CASE row = None /\ o.on
  <2>1. n = o /\ o.codes \cap Issued = {} /\ CodesOf(row) = {}
        /\ o.secret \in Secret /\ o.codes \in SUBSET Code
    BY <1>6, RowFields DEF MergeInherit, CodesOf
  <2>2. proven' = proven \cup {o.secret}
        /\ issuedFor' = [c \in Code |-> IF c \in o.codes THEN o.secret ELSE issuedFor[c]]
    BY <1>6 DEF MergeInherit
  <2>3. Good(r.next)' /\ n.codes \subseteq Issued'
    BY <1>3, <1>6, <2>1, <2>2, Rows DEF Good, Issued
  <2>4. /\ issuedFor' \in [Code -> Secret \cup {None}]
        /\ \A c \in Issued : issuedFor'[c] = issuedFor[c]
        /\ proven \subseteq proven' /\ proven' \subseteq Secret
    BY <2>1, <2>2 DEF IInv, TypeOK, Issued
  <2>5. Reads(p, r)
    BY <1>1, <1>2, <1>3, <2>1, <2>3, <2>4 DEF Reads
  <2> QED
    BY <2>5
<1> QED
  BY <1>4, <1>5, <1>6 DEF Row

-----------------------------------------------------------------------------
\* The requests that hold a copy, before and after p gets one or gives it up.
LEMMA Gained ==
  ASSUME TypeOK, NEW p \in Proc, NEW r \in SaveReq, At(p, "idle"), req' = [req EXCEPT ![p] = r]
  PROVE  /\ Saving' = Saving \cup {p} /\ p \notin Saving /\ req'[p] = r
         /\ \A q \in Proc \ {p} : req'[q] = req[q]
         /\ req' \in [Proc -> Req]
         /\ \A q \in Proc : At(q, "update")' => At(q, "update")
BY DEF TypeOK, Saving, At, SaveReq, Req

LEMMA Dropped ==
  ASSUME TypeOK, NEW p \in Proc, NEW r \in {Idle} \cup [pc : {"found", "update"}],
         req' = [req EXCEPT ![p] = r]
  PROVE  /\ Saving' = Saving \ {p}
         /\ \A q \in Proc \ {p} : req'[q] = req[q]
         /\ \A q \in Saving' : q \in Saving /\ req'[q] = req[q]
         /\ req' \in [Proc -> Req]
<1>1. r.pc # "save" /\ req'[p] = r /\ r \in Req
  BY DEF TypeOK, Idle, Req
<1>2. \A q \in Proc \ {p} : req'[q] = req[q]
  BY DEF TypeOK
<1>3. Saving' = Saving \ {p}
  BY <1>1, <1>2 DEF Saving, At
<1>4. req' \in [Proc -> Req]
  BY <1>1 DEF TypeOK
<1> QED
  BY <1>1, <1>2, <1>3, <1>4 DEF Saving

LEMMA SavingReq ==
  ASSUME TypeOK, NEW p \in Saving
  PROVE  p \in Proc /\ req[p] \in SaveReq /\ req[p].next \in Row
         /\ req[p].seen \in Row \cup {None}
         /\ req[p].code \in Code \cup {None} /\ req[p].answer \in Told
<1>1. p \in Proc /\ req[p] \in Req /\ req[p].pc = "save"
  BY DEF Saving, At, TypeOK
<1>2. req[p] \in SaveReq
  BY <1>1 DEF Req, Idle, SaveReq
<1> QED
  BY <1>1, <1>2 DEF SaveReq

LEMMA GoodStays ==
  ASSUME NEW x, Good(x), x.codes \subseteq Issued, proven \subseteq proven',
         \A c \in Issued : issuedFor'[c] = issuedFor[c]
  PROVE  Good(x)'
BY DEF Good

LEMMA ReadsStep ==
  ASSUME IInv, NEW p \in Proc, NEW r, Reads(p, r)
  PROVE  IInv'
<1>1. /\ Saving' = Saving \cup {p} /\ p \notin Saving /\ req'[p] = r
      /\ \A q \in Proc \ {p} : req'[q] = req[q]
      /\ req' \in [Proc -> Req]
      /\ \A q \in Proc : At(q, "update")' => At(q, "update")
  BY Gained DEF IInv, Reads
<1>2. \A q \in Saving : q # p /\ q \in Proc /\ req'[q] = req[q]
  BY <1>1 DEF Saving
<1>3. CodesOf(row)' = CodesOf(row)
  BY Rows DEF Reads, CodesOf
<1>4. UNCHANGED <<passkey, accepted, stale, unsaved, told, deleted, raced>> /\ Lost' = Lost
  BY DEF Reads, Lost
<1>5. Issued \subseteq Issued'
  BY DEF Reads, Issued
<1>6. TypeOK'
  <2>1. row' \in Row \cup {None}
    BY Rows DEF Reads, IInv, TypeOK
  <2> QED
    BY <1>1, <1>4, <2>1 DEF Reads, IInv, TypeOK
<1>7. EnabledIsProven'
  <2>1. CASE row' = None
    BY <2>1 DEF EnabledIsProven
  <2>2. CASE row' = row /\ row # None
    <3>1. Good(row) /\ row.codes \subseteq Issued
      BY <2>2 DEF IInv, EnabledIsProven, Good, Known, CodesOf
    <3>2. PICK x : x = row
      OBVIOUS
    <3>3. Good(x) /\ x.codes \subseteq Issued
      BY <3>1, <3>2
    <3>4. Good(x)'
      BY <3>3, GoodStays DEF Reads
    <3> QED
      BY <2>2, <3>2, <3>4 DEF EnabledIsProven, Good
  <2>3. CASE row' = EmptyRow
    BY <2>3, Rows DEF EnabledIsProven
  <2> QED
    BY <2>1, <2>2, <2>3 DEF Reads
<1>8. Copies'
  <2> SUFFICES ASSUME NEW q \in Saving' PROVE Good(req[q].next)'
    BY DEF Copies
  <2>1. CASE q = p
    BY <1>1, <2>1 DEF Reads, Good
  <2>2. CASE q # p
    <3>1. q \in Saving /\ req'[q] = req[q]
      BY <1>1, <1>2, <2>2
    <3>2. PICK x : x = req[q].next
      OBVIOUS
    <3>3. Good(x) /\ x.codes \subseteq Issued
      BY <3>1, <3>2 DEF IInv, Copies, Known
    <3>4. Good(x)'
      BY <3>3, GoodStays DEF Reads
    <3> QED
      BY <3>1, <3>2, <3>4 DEF Good
  <2> QED
    BY <2>1, <2>2
<1>9. Known'
  <2>1. CodesOf(row)' \subseteq Issued' /\ \A c \in Code : accepted'[c] > 0 => c \in Issued'
    BY <1>3, <1>4, <1>5 DEF IInv, Known
  <2>2. ASSUME NEW q \in Saving'
        PROVE  /\ CodesOf(req'[q].seen) \subseteq Issued' /\ req'[q].next.codes \subseteq Issued'
               /\ req'[q].code \in CodesOf(req'[q].seen) \cup {None}
               /\ req'[q].code \notin req'[q].next.codes
    <3>1. CASE q = p
      BY <1>1, <1>5, <3>1 DEF Reads, IInv, Known
    <3>2. CASE q # p
      BY <1>1, <1>2, <1>5, <3>2 DEF IInv, Known
    <3> QED
      BY <3>1, <3>2
  <2> QED
    BY <2>1, <2>2 DEF Known, CodesOf
<1>10. Fresh'
  <2> SUFFICES ASSUME NEW q \in Saving', NEW c \in req'[q].next.codes \ CodesOf(req'[q].seen)
               PROVE  /\ accepted'[c] = 0 /\ c \notin CodesOf(row)'
                      /\ \A s \in Saving' \ {q} :
                           c \notin CodesOf(req'[s].seen) \cup req'[s].next.codes
    BY DEF Fresh, CodesOf
  <2>1. CASE q = p
    <3>1. c \in r.next.codes \ CodesOf(row) /\ c \notin Issued /\ c \in Code
      BY <1>1, <2>1, RowFields DEF Reads, SaveReq
    <3>2. accepted[c] = 0
      BY <3>1 DEF IInv, Known, TypeOK
    <3> QED
      BY <1>1, <1>2, <1>3, <1>4, <2>1, <3>1, <3>2 DEF IInv, Known
  <2>2. CASE q # p
    <3>1. q \in Saving /\ req'[q] = req[q]
      BY <1>1, <1>2, <2>2
    <3>2. accepted[c] = 0 /\ c \notin CodesOf(row) /\ c \in Issued
      BY <3>1 DEF IInv, Fresh, Known
    <3>3. c \notin CodesOf(r.seen) \cup r.next.codes
      BY <3>2 DEF Reads
    <3> QED
      BY <1>1, <1>2, <1>3, <1>4, <3>1, <3>2, <3>3 DEF IInv, Fresh
  <2> QED
    BY <2>1, <2>2
<1>11. Counted'
  BY <1>3, <1>4 DEF IInv, Counted, CodesOf
<1>12. ToldStands'
  <2>1. row' = row \/ (row = None /\ row' = EmptyRow)
    BY DEF Reads
  <2>2. stale = 0 => (row = None => told = Tell(None, FALSE))
                     /\ (row # None => told = Tell(row.pwd, row.on))
    BY DEF IInv, ToldStands
  <2>3. EmptyRow.pwd = None /\ EmptyRow.on = FALSE /\ EmptyRow # None
    BY Rows DEF EmptyRow, Credential
  <2> QED
    BY <1>4, <2>1, <2>2, <2>3 DEF ToldStands
<1>13. Answers'
  <2> SUFFICES ASSUME stale = 0, NEW q \in Saving'
               PROVE  req'[q].answer = Tell(req'[q].next.pwd, req'[q].next.on)
    BY <1>4 DEF Answers, Tell
  <2> QED
    BY <1>1, <1>2 DEF Reads, IInv, Answers
<1>14. Deletions'
  BY <1>1, <1>4 DEF IInv, Deletions
<1> QED
  BY <1>6, <1>7, <1>8, <1>9, <1>10, <1>11, <1>12, <1>13, <1>14 DEF IInv

-----------------------------------------------------------------------------
\* p gives its copy up; what the others hold is as good as before.  The row is
\* the one before, none, or p's copy.
Writes(p) ==
  /\ p \in Saving /\ req' = [req EXCEPT ![p] = Idle]
  /\ row' \in {row, req[p].next}
  /\ accepted' = [c \in Code |-> IF c = req[p].code THEN accepted[c] + 1 ELSE accepted[c]]
  /\ Lost' \in Nat
  /\ \/ row' = row /\ req[p].code = None /\ Lost' = Lost
     \/ Lost' = Lost + 1
     \/ row' = req[p].next /\ req[p].seen = row /\ Lost' = Lost
  /\ \/ row' = row /\ told' = told /\ stale' = stale
     \/ row' = req[p].next /\ told' = req[p].answer /\ stale' \in {stale, stale + 1}
  /\ unsaved' \in Nat /\ stale' \in Nat
  /\ UNCHANGED <<passkey, proven, issuedFor, deleted, raced>>

LEMMA SaveWrites ==
  ASSUME IInv, NEW p \in Proc, SaveRow(p)
  PROVE  Writes(p)
<1>1. p \in Saving /\ req' = [req EXCEPT ![p] = Idle]
  BY DEF SaveRow, Saving, Finish
<1>2. stale \in Nat /\ unsaved \in Nat
  BY DEF IInv, TypeOK
<1>3. unsaved' = unsaved /\ stale' = (IF req[p].seen # row THEN stale + 1 ELSE stale)
  BY DEF SaveRow, Stale
<1>4. /\ Lost' \in Nat /\ stale' \in Nat /\ stale' \in {stale, stale + 1}
      /\ req[p].seen # row => Lost' = Lost + 1
      /\ req[p].seen = row => Lost' = Lost
  BY <1>2, <1>3 DEF Lost
<1> QED
  BY <1>1, <1>2, <1>3, <1>4 DEF SaveRow, Writes

LEMMA FailWrites ==
  ASSUME IInv, NEW p \in Proc, SaveFails(p)
  PROVE  Writes(p)
<1>1. p \in Saving /\ req' = [req EXCEPT ![p] = Idle]
  BY DEF SaveFails, Saving, Finish
<1>2. stale \in Nat /\ unsaved \in Nat
  BY DEF IInv, TypeOK
<1>3. stale' = stale /\ unsaved' = (IF req[p].code # None THEN unsaved + 1 ELSE unsaved)
  BY DEF SaveFails
<1>4. /\ Lost' \in Nat /\ stale' \in Nat /\ unsaved' \in Nat
      /\ req[p].code # None => Lost' = Lost + 1
      /\ req[p].code = None => Lost' = Lost
  BY <1>2, <1>3 DEF Lost
<1> QED
  BY <1>1, <1>3, <1>4 DEF SaveFails, Writes

LEMMA WritesStep ==
  ASSUME IInv, NEW p \in Proc, Writes(p)
  PROVE  IInv'
<1>1. /\ Saving' = Saving \ {p}
      /\ \A q \in Proc \ {p} : req'[q] = req[q]
      /\ \A q \in Saving' : q \in Saving /\ req'[q] = req[q]
      /\ req' \in [Proc -> Req] /\ req'[p] = Idle
  BY Dropped DEF IInv, Writes, TypeOK
<1>2. PICK n, k, seen, a : n = req[p].next /\ k = req[p].code /\ seen = req[p].seen
                           /\ a = req[p].answer
  OBVIOUS
<1>3. n \in Row /\ k \in Code \cup {None} /\ seen \in Row \cup {None} /\ a \in Told
      /\ n # None /\ n.codes \subseteq Code
  BY <1>2, SavingReq, RowFields DEF IInv, Writes
<1>4. /\ CodesOf(seen) \subseteq Issued /\ n.codes \subseteq Issued
      /\ k \in CodesOf(seen) \cup {None} /\ k \notin n.codes /\ Good(n)
  BY <1>2 DEF IInv, Known, Copies, Writes
<1>5. (CodesOf(row') = CodesOf(row) /\ row' = row) \/ (CodesOf(row') = n.codes /\ row' = n)
  BY <1>2, <1>3 DEF Writes, CodesOf
<1>6. UNCHANGED <<passkey, proven, issuedFor, deleted, raced>> /\ Issued' = Issued
  BY DEF Writes, Issued
<1>7. /\ accepted \in [Code -> Nat] /\ stale \in Nat /\ Lost \in Nat
      /\ Lost' \in Nat /\ stale' \in Nat /\ unsaved' \in Nat
      /\ \A c \in Code : accepted'[c] = IF c = k THEN accepted[c] + 1 ELSE accepted[c]
  <2>1. accepted \in [Code -> Nat] /\ stale \in Nat /\ Lost \in Nat
    BY DEF IInv, TypeOK, Lost
  <2>2. Lost' \in Nat /\ stale' \in Nat /\ unsaved' \in Nat
    BY DEF Writes
  <2>3. \A c \in Code : accepted'[c] = IF c = k THEN accepted[c] + 1 ELSE accepted[c]
    BY <1>2 DEF Writes
  <2> QED
    BY <2>1, <2>2, <2>3
<1>8. TypeOK'
  <2>1. row' \in Row \cup {None} /\ told' \in Told
    BY <1>2, <1>3 DEF Writes, IInv, TypeOK
  <2>2. accepted' \in [Code -> Nat]
    <3>1. accepted' = [c \in Code |-> accepted'[c]]
      BY DEF Writes
    <3>2. \A c \in Code : accepted'[c] \in Nat
      BY <1>7
    <3> QED
      BY <3>1, <3>2
  <2> QED
    BY <1>1, <1>6, <1>7, <2>1, <2>2 DEF IInv, TypeOK
<1>9. EnabledIsProven'
  BY <1>4, <1>5, <1>6 DEF IInv, EnabledIsProven, Good
<1>10. Copies'
  BY <1>1, <1>6 DEF IInv, Copies, Good
<1>11. Known'
  <2>1. \A c \in Code : accepted'[c] > 0 => c \in Issued'
    BY <1>4, <1>6, <1>7, Rows DEF IInv, Known
  <2>2. CodesOf(row') \subseteq Issued'
    BY <1>4, <1>5, <1>6 DEF IInv, Known
  <2> QED
    BY <1>1, <1>6, <2>1, <2>2 DEF IInv, Known, CodesOf
<1>12. Fresh'
  <2> SUFFICES ASSUME NEW q \in Saving', NEW c \in req'[q].next.codes \ CodesOf(req'[q].seen)
               PROVE  /\ accepted'[c] = 0 /\ c \notin CodesOf(row')
                      /\ \A s \in Saving' \ {q} :
                           c \notin CodesOf(req'[s].seen) \cup req'[s].next.codes
    BY DEF Fresh, CodesOf
  <2>1. q \in Saving /\ req'[q] = req[q] /\ p \in Saving \ {q}
    BY <1>1 DEF Writes
  <2>2. accepted[c] = 0 /\ c \notin CodesOf(row) /\ c \notin CodesOf(seen) \cup n.codes
    BY <1>2, <2>1 DEF IInv, Fresh
  <2>3. c \in Code /\ c # k
    BY <1>4, <2>1, <2>2, SavingReq, RowFields, Rows DEF IInv
  <2> QED
    BY <1>1, <1>5, <1>7, <2>1, <2>2, <2>3 DEF IInv, Fresh
<1>13. Counted'
  <2> SUFFICES ASSUME NEW c \in Code
               PROVE  accepted'[c] <= 1 + Lost' /\ (c \in CodesOf(row') => accepted'[c] <= Lost')
    BY DEF Counted, CodesOf
  <2>1. accepted[c] \in Nat /\ accepted[c] <= 1 + Lost /\ (c \in CodesOf(row) => accepted[c] <= Lost)
    BY <1>7 DEF IInv, Counted
  <2>2. accepted'[c] = (IF c = k THEN accepted[c] + 1 ELSE accepted[c])
    BY <1>7
  <2>3. CASE Lost' = Lost + 1
    <3>1. c = k /\ c \in CodesOf(row') => c \in CodesOf(row)
      BY <1>4, <1>5
    <3> QED
      BY <1>7, <2>1, <2>2, <2>3, <3>1
  <2>4. CASE row' = row /\ k = None /\ Lost' = Lost
    <3>1. c # k
      BY <2>4, Rows
    <3> QED
      BY <2>1, <2>2, <2>4, <3>1
  <2>5. CASE row' = n /\ seen = row /\ Lost' = Lost
    <3>1. CodesOf(row') = n.codes
      BY <1>3, <2>5 DEF CodesOf
    <3>2. CASE c = k
      BY <1>4, <1>7, <2>1, <2>2, <2>5, <3>1, <3>2, Rows
    <3>3. CASE c # k
      <4>1. c \in n.codes /\ c \notin CodesOf(row) => accepted[c] = 0
        BY <1>2, <2>5 DEF IInv, Fresh, Writes
      <4> QED
        BY <1>7, <2>1, <2>2, <2>5, <3>1, <3>3, <4>1
    <3> QED
      BY <3>2, <3>3
  <2> QED
    BY <1>2, <2>3, <2>4, <2>5 DEF Writes
<1>14. ToldStands'
  <2>1. CASE row' = row /\ told' = told /\ stale' = stale
    BY <2>1 DEF IInv, ToldStands
  <2>2. CASE row' = n /\ told' = a /\ stale' \in {stale, stale + 1}
    <3>1. stale' = 0 => a = Tell(n.pwd, n.on)
      BY <1>2, <1>7, <2>2 DEF IInv, Answers, Writes
    <3> QED
      BY <1>3, <2>2, <3>1 DEF ToldStands
  <2> QED
    BY <1>2, <2>1, <2>2 DEF Writes
<1>15. Answers'
  <2>1. stale' = 0 => stale = 0
    BY <1>7 DEF Writes
  <2> QED
    BY <1>1, <2>1 DEF IInv, Answers, Tell
<1>16. Deletions'
  <2>1. \A q \in Proc : At(q, "update")' => At(q, "update")
    BY <1>1 DEF At, Idle
  <2> QED
    BY <1>6, <2>1 DEF IInv, Deletions
<1> QED
  BY <1>8, <1>9, <1>10, <1>11, <1>12, <1>13, <1>14, <1>15, <1>16 DEF IInv

-----------------------------------------------------------------------------
\* mergeUsers deletes the row under the copies that are held of it.
LEMMA AwayStep == IInv /\ MergeAway => IInv'
<1> SUFFICES ASSUME IInv, MergeAway PROVE IInv'
  OBVIOUS
<1>1. row' = None /\ told' = Tell(None, FALSE) /\ passkey' = FALSE
      /\ UNCHANGED <<req, proven, issuedFor, accepted, stale, unsaved>>
  BY DEF MergeAway
<1>2. Saving' = Saving /\ Issued' = Issued /\ Lost' = Lost /\ CodesOf(row') = {}
  BY <1>1 DEF Saving, At, Issued, Lost, CodesOf
<1>3. deleted' \in BOOLEAN /\ raced' \in BOOLEAN
  BY DEF MergeAway, IInv, TypeOK
<1>4. TypeOK'
  BY <1>1, <1>3 DEF IInv, TypeOK, Tell, Told
<1>5. EnabledIsProven' /\ ToldStands'
  BY <1>1 DEF EnabledIsProven, ToldStands
<1>6. Copies' /\ Answers'
  BY <1>1, <1>2 DEF IInv, Copies, Good, Answers, Tell
<1>7. Known' /\ Fresh' /\ Counted'
  BY <1>1, <1>2 DEF IInv, Known, Fresh, Counted, CodesOf
<1>8. Deletions'
  BY <1>1 DEF MergeAway, IInv, Deletions, At
<1> QED
  BY <1>4, <1>5, <1>6, <1>7, <1>8 DEF IInv

\* The passkey's handlers leave the row and every copy of it alone.
LEMMA PasskeyStep ==
  ASSUME IInv, UNCHANGED <<row, proven, issuedFor, accepted, stale, unsaved, told>>,
         Saving' = Saving, \A q \in Saving : req'[q] = req[q], req' \in [Proc -> Req],
         passkey' \in BOOLEAN, deleted' \in BOOLEAN, raced' \in BOOLEAN, Deletions'
  PROVE  IInv'
<1>1. TypeOK' /\ EnabledIsProven' /\ ToldStands'
  BY DEF IInv, TypeOK, EnabledIsProven, ToldStands
<1>2. Issued' = Issued /\ Lost' = Lost
  BY DEF Issued, Lost
<1>3. Copies' /\ Answers'
  BY DEF IInv, Copies, Good, Answers, Tell
<1>4. Known' /\ Fresh' /\ Counted'
  BY <1>2 DEF IInv, Known, Fresh, Counted, CodesOf
<1> QED
  BY <1>1, <1>3, <1>4 DEF IInv

LEMMA IdleReq ==
  ASSUME TypeOK, NEW p \in Proc, NEW pc \in {"idle", "found", "update"}, At(p, pc),
         NEW r \in {Idle} \cup [pc : {"found", "update"}], req' = [req EXCEPT ![p] = r]
  PROVE  /\ Saving' = Saving /\ \A q \in Saving : req'[q] = req[q]
         /\ req' \in [Proc -> Req] /\ req'[p] = r
         /\ \A q \in Proc \ {p} : req'[q] = req[q]
<1>1. p \notin Saving
  BY DEF Saving, At
<1>2. /\ Saving' = Saving \ {p} /\ \A q \in Proc \ {p} : req'[q] = req[q]
      /\ req' \in [Proc -> Req]
  BY Dropped
<1>3. req'[p] = r
  BY DEF TypeOK
<1>4. \A q \in Saving : q \in Proc \ {p}
  BY <1>1 DEF Saving
<1> QED
  BY <1>1, <1>2, <1>3, <1>4

LEMMA PasskeySteps ==
  ASSUME IInv, NEW p \in Proc,
         ValidateLogin(p) \/ FindByCredentialID(p) \/ UpdatePasskey(p)
  PROVE  IInv'
<1> USE DEF IInv
<1>1. CASE ValidateLogin(p)
  <2>1. At(p, "idle") /\ req' = [req EXCEPT ![p] = [pc |-> "found"]] /\ passkey
    BY <1>1 DEF ValidateLogin, Start
  <2>2. /\ Saving' = Saving /\ \A q \in Saving : req'[q] = req[q]
        /\ req' \in [Proc -> Req] /\ req'[p] = [pc |-> "found"]
        /\ \A q \in Proc \ {p} : req'[q] = req[q]
    BY <2>1, IdleReq
  <2>3. \A q \in Proc : At(q, "update")' => At(q, "update")
    BY <2>2 DEF At
  <2>4. UNCHANGED <<row, passkey, proven, issuedFor, accepted, stale, unsaved, told, deleted, raced>>
    BY <1>1 DEF ValidateLogin
  <2>5. Deletions' /\ passkey' \in BOOLEAN /\ deleted' \in BOOLEAN /\ raced' \in BOOLEAN
    BY <2>3, <2>4 DEF Deletions, TypeOK
  <2> QED
    BY <2>2, <2>4, <2>5, PasskeyStep
<1>2. CASE FindByCredentialID(p)
  <2>1. PICK r \in {Idle} \cup [pc : {"found", "update"}] :
          r = IF passkey THEN [pc |-> "update"] ELSE Idle
    OBVIOUS
  <2>2. At(p, "found") /\ req' = [req EXCEPT ![p] = r]
    BY <1>2, <2>1 DEF FindByCredentialID
  <2>3. /\ Saving' = Saving /\ \A q \in Saving : req'[q] = req[q]
        /\ req' \in [Proc -> Req] /\ req'[p] = r
        /\ \A q \in Proc \ {p} : req'[q] = req[q]
    BY <2>2, IdleReq
  <2>4. ~passkey => \A q \in Proc : At(q, "update")' => At(q, "update")
    BY <2>1, <2>3 DEF At, Idle
  <2>5. UNCHANGED <<row, passkey, proven, issuedFor, accepted, stale, unsaved, told, deleted, raced>>
    BY <1>2 DEF FindByCredentialID
  <2>6. Deletions' /\ passkey' \in BOOLEAN /\ deleted' \in BOOLEAN /\ raced' \in BOOLEAN
    BY <2>4, <2>5 DEF Deletions, TypeOK
  <2> QED
    BY <2>3, <2>5, <2>6, PasskeyStep
<1>3. CASE UpdatePasskey(p)
  <2>1. At(p, "update") /\ req' = [req EXCEPT ![p] = Idle]
    BY <1>3 DEF UpdatePasskey, Finish
  <2>2. /\ Saving' = Saving /\ \A q \in Saving : req'[q] = req[q]
        /\ req' \in [Proc -> Req] /\ req'[p] = Idle
        /\ \A q \in Proc \ {p} : req'[q] = req[q]
    BY <2>1, IdleReq
  <2>3. UNCHANGED <<row, proven, issuedFor, accepted, stale, unsaved, told, deleted, raced>>
        /\ passkey' \in BOOLEAN
    BY <1>3 DEF UpdatePasskey, TypeOK
  <2>4. Deletions' /\ deleted' \in BOOLEAN /\ raced' \in BOOLEAN
    BY <2>1, <2>3 DEF Deletions, TypeOK
  <2> QED
    BY <2>2, <2>3, <2>4, PasskeyStep
<1> QED
  BY <1>1, <1>2, <1>3

LEMMA KeySteps == IInv /\ (PasskeyRegisterFinish \/ DeletePasskey) => IInv'
<1> SUFFICES ASSUME IInv, PasskeyRegisterFinish \/ DeletePasskey PROVE IInv'
  OBVIOUS
<1>1. UNCHANGED <<row, req, proven, issuedFor, accepted, stale, unsaved, told>>
  BY DEF PasskeyRegisterFinish, DeletePasskey
<1>2. Saving' = Saving /\ req' \in [Proc -> Req] /\ \A q \in Saving : req'[q] = req[q]
  BY <1>1 DEF Saving, At, IInv, TypeOK
<1>3. passkey' \in BOOLEAN /\ deleted' \in BOOLEAN /\ raced' \in BOOLEAN
  BY DEF PasskeyRegisterFinish, DeletePasskey, IInv, TypeOK
<1>4. Deletions'
  BY <1>1 DEF PasskeyRegisterFinish, DeletePasskey, IInv, Deletions, At
<1> QED
  BY <1>1, <1>2, <1>3, <1>4, PasskeyStep

-----------------------------------------------------------------------------
LEMMA InitIInv == Init => IInv
<1> SUFFICES ASSUME Init PROVE IInv
  OBVIOUS
<1>1. Saving = {} /\ \A p \in Proc : ~At(p, "update")
  BY DEF Init, Saving, At, Idle
<1>2. Issued = {} /\ CodesOf(row) = {} /\ Lost = 0
  BY DEF Init, Issued, CodesOf, Lost
<1>3. TypeOK
  BY DEF Init, TypeOK, Req, Idle, Tell, Told
<1> QED
  BY <1>1, <1>2, <1>3
  DEF Init, IInv, EnabledIsProven, Copies, Known, Fresh, Counted, ToldStands, Answers, Deletions

LEMMA StutterIInv == IInv /\ UNCHANGED vars => IInv'
<1> SUFFICES ASSUME IInv, UNCHANGED vars PROVE IInv'
  OBVIOUS
<1>1. UNCHANGED <<row, req, proven, issuedFor, accepted, stale, unsaved, told, passkey, deleted, raced>>
  BY DEF vars
<1>2. Saving' = Saving /\ req' \in [Proc -> Req] /\ \A q \in Saving : req'[q] = req[q]
  BY <1>1 DEF Saving, At, IInv, TypeOK
<1>3. passkey' \in BOOLEAN /\ deleted' \in BOOLEAN /\ raced' \in BOOLEAN
  BY <1>1 DEF IInv, TypeOK
<1>4. Deletions'
  BY <1>1 DEF IInv, Deletions, At
<1> QED
  BY <1>1, <1>2, <1>3, <1>4, PasskeyStep

LEMMA NextIInv == IInv /\ [Next]_vars => IInv'
<1> SUFFICES ASSUME IInv, [Next]_vars PROVE IInv'
  OBVIOUS
<1>1. ASSUME NEW p \in Proc, NEW w \in Pwd, UpsertPassword(p, w) PROVE IInv'
  BY <1>1, UpsertReads, ReadsStep
<1>2. ASSUME NEW p \in Proc, NEW s \in Secret, MFASetup(p, s) PROVE IInv'
  BY <1>2, SetupReads, ReadsStep
<1>3. ASSUME NEW p \in Proc, NEW codes \in SUBSET Code, MFAEnable(p, codes) PROVE IInv'
  BY <1>3, EnableReads, ReadsStep
<1>4. ASSUME NEW p \in Proc, NEW c \in Code, verifyMFACode(p, c) PROVE IInv'
  BY <1>4, VerifyReads, ReadsStep
<1>5. ASSUME NEW p \in Proc, NEW r \in Row, MergeInherit(p, r) PROVE IInv'
  BY <1>5, InheritReads, ReadsStep
<1>6. ASSUME NEW p \in Proc, MFADisable(p) \/ AdminResetMFA(p) PROVE IInv'
  BY <1>6, DisableReads, ReadsStep DEF AdminResetMFA
<1>7. ASSUME NEW p \in Proc, SaveRow(p) PROVE IInv'
  BY <1>7, SaveWrites, WritesStep
<1>8. ASSUME NEW p \in Proc, SaveFails(p) PROVE IInv'
  BY <1>8, FailWrites, WritesStep
<1>9. ASSUME NEW p \in Proc,
             ValidateLogin(p) \/ FindByCredentialID(p) \/ UpdatePasskey(p)
      PROVE  IInv'
  BY <1>9, PasskeySteps
<1>10. CASE MergeAway
  BY <1>10, AwayStep
<1>11. CASE PasskeyRegisterFinish \/ DeletePasskey
  BY <1>11, KeySteps
<1>12. CASE UNCHANGED vars
  BY <1>12, StutterIInv
<1> QED
  BY <1>1, <1>2, <1>3, <1>4, <1>5, <1>6, <1>7, <1>8, <1>9, <1>10, <1>11, <1>12 DEF Next

\* The inductive invariant holds throughout.
THEOREM Invariant == Spec => []IInv
<1>1. Init => IInv
  BY InitIInv
<1>2. IInv /\ [Next]_vars => IInv'
  BY NextIInv
<1> QED
  BY <1>1, <1>2, PTL DEF Spec

\* The row and every copy of it keep their shape.
THEOREM TypeCorrect == Spec => []TypeOK
<1>1. IInv => TypeOK
  BY DEF IInv
<1> QED
  BY <1>1, Invariant, PTL

\* A second factor that is on was proved, whatever was saved over what.
THEOREM FactorProven == Spec => []EnabledIsProven
<1>1. IInv => EnabledIsProven
  BY DEF IInv
<1> QED
  BY <1>1, Invariant, PTL

\* A backup code is accepted once, and again only for a lost or failed save.
THEOREM CodesUsedOnce == Spec => []CodesBounded
<1>1. IInv => CodesBounded
  <2> SUFFICES ASSUME IInv, NEW c \in Code PROVE accepted[c] <= 1 + stale + unsaved
    BY DEF CodesBounded
  <2>1. accepted[c] <= 1 + (stale + unsaved)
    BY DEF IInv, Counted, Lost
  <2> QED
    BY <2>1 DEF IInv, TypeOK
<1> QED
  BY <1>1, Invariant, PTL

\* What the user was told stands until a stale copy is saved.
THEOREM ToldCorrect == Spec => []ToldStands
<1>1. IInv => ToldStands
  BY DEF IInv
<1> QED
  BY <1>1, Invariant, PTL

\* A deleted passkey comes back only through a use that is being recorded.
THEOREM PasskeyGone == Spec => []DeletedStaysDeleted
<1>1. IInv => DeletedStaysDeleted
  BY DEF IInv, Deletions, DeletedStaysDeleted
<1> QED
  BY <1>1, Invariant, PTL
=============================================================================
