---------------------------- MODULE Credentials ----------------------------
(***************************************************************************)
(* The credentials of one user: the row that holds the password, the TOTP  *)
(* secret and the backup codes, and one passkey.  Every handler reads the  *)
(* row, changes its copy and saves the whole copy; other handlers run in   *)
(* between.  Hashing, expiry of passwords and their history are left out.  *)
(***************************************************************************)
EXTENDS Integers, FiniteSets

CONSTANTS
  Pwd,        \* passwords
  Secret,     \* TOTP secrets
  Code,       \* backup codes
  Proc,       \* requests served at a time
  None,
  MaxLost     \* bound on the saves that lose another one, and on failed ones

ASSUME LostAssumption == MaxLost \in Nat

VARIABLES
  row,        \* the user's row of table credentials, None when there is none
  passkey,    \* the passkey's row of table web_authn_credentials is there
  req,        \* the request each process is serving
  proven,     \* history: secrets a TOTP of the authenticator app has proved
  issuedFor,  \* history: the secret with which each code was given out
  accepted,   \* history: how often each code was accepted
  stale,      \* history: saves of a copy that another handler had outdated
  unsaved,    \* history: codes accepted although the save failed
  told,       \* history: what the handlers have told the user
  deleted,    \* history: the passkey has been deleted
  raced       \* history: a passkey deleted while its use was being recorded

vars == <<row, passkey, req, proven, issuedFor, accepted, stale, unsaved, told, deleted, raced>>

-----------------------------------------------------------------------------
\* A second factor that is on has a secret.
Row == {r \in [pwd : Pwd \cup {None}, secret : Secret \cup {None}, on : BOOLEAN,
               codes : SUBSET Code] : r.on => r.secret # None}

ASSUME NoneAssumption == None \notin Pwd \cup Secret \cup Code \cup Row

Credential(pwd, secret, on, codes) ==
  [pwd |-> pwd, secret |-> secret, on |-> on, codes |-> codes]

EmptyRow == Credential(None, None, FALSE, {})

RowOrEmpty == IF row = None THEN EmptyRow ELSE row

Told == [pwd : Pwd \cup {None}, on : BOOLEAN]

Tell(pwd, on) == [pwd |-> pwd, on |-> on]

Idle == [pc |-> "idle"]

Save(seen, next, code, answer) ==
  [pc |-> "save", seen |-> seen, next |-> next, code |-> code, answer |-> answer]

Req == {Idle} \cup [pc : {"found", "update"}]
       \cup [pc : {"save"}, seen : Row \cup {None}, next : Row,
             code : Code \cup {None}, answer : Told]

At(p, pc) == req[p].pc = pc

Start(p, r) == At(p, "idle") /\ req' = [req EXCEPT ![p] = r]
Finish(p)   == req' = [req EXCEPT ![p] = Idle]

\* The row is read and found; p holds the copy `next' of it.
Hold(p, next, code, answer) ==
  /\ row # None
  /\ Start(p, Save(row, next, code, answer))
  /\ UNCHANGED <<row, passkey, accepted, stale, unsaved, told, deleted, raced>>

Issued == {c \in Code : issuedFor[c] # None}

-----------------------------------------------------------------------------
Init ==
  /\ row = None /\ passkey = FALSE
  /\ req = [p \in Proc |-> Idle]
  /\ proven = {} /\ issuedFor = [c \in Code |-> None]
  /\ accepted = [c \in Code |-> 0]
  /\ stale = 0 /\ unsaved = 0 /\ told = Tell(None, FALSE)
  /\ deleted = FALSE /\ raced = FALSE

-----------------------------------------------------------------------------
\* SetPassword after a step-up or when the password must change, the reset by
\* a one-time code and AdminCreateUser end here: a row of its own is inserted
\* if the user has none.
UpsertPassword(p, w) ==
  /\ LET seen == RowOrEmpty IN
     Start(p, Save(row, Credential(w, seen.secret, seen.on, seen.codes), None,
                   Tell(w, told.on)))
  /\ UNCHANGED <<row, passkey, proven, issuedFor, accepted, stale, unsaved, told, deleted, raced>>

\* Mutant: a factor that is on is set up again.
MFASetupUnchecked(p, s) ==
  /\ s \notin proven
  /\ LET seen == RowOrEmpty IN
     /\ row' = seen
     /\ Start(p, Save(seen, Credential(seen.pwd, s, FALSE, seen.codes), None, told))
  /\ UNCHANGED <<passkey, proven, issuedFor, accepted, stale, unsaved, told, deleted, raced>>

\* Ensure inserts an empty row for a user who has none.  A second factor that
\* is on must be switched off first.
MFASetup(p, s) ==
  /\ s \notin proven
  /\ LET seen == RowOrEmpty IN
     /\ ~seen.on
     /\ row' = seen
     /\ Start(p, Save(seen, Credential(seen.pwd, s, FALSE, seen.codes), None, told))
  /\ UNCHANGED <<passkey, proven, issuedFor, accepted, stale, unsaved, told, deleted, raced>>

\* The caller's TOTP is one of the secret in the row; fresh backup codes.
MFAEnable(p, codes) ==
  /\ row # None /\ row.secret # None
  /\ codes # {} /\ codes \cap Issued = {}
  /\ Hold(p, Credential(row.pwd, row.secret, TRUE, codes), None, Tell(told.pwd, TRUE))
  /\ proven' = proven \cup {row.secret}
  /\ issuedFor' = [c \in Code |-> IF c \in codes THEN row.secret ELSE issuedFor[c]]

\* Mutant: the flag is forgotten.
MFADisableFlag(p) ==
  /\ row # None
  /\ Hold(p, Credential(row.pwd, None, row.on, {}), None, Tell(told.pwd, FALSE))
  /\ UNCHANGED <<proven, issuedFor>>

\* After a step-up.
MFADisable(p) ==
  /\ row # None
  /\ Hold(p, Credential(row.pwd, None, FALSE, {}), None, Tell(told.pwd, FALSE))
  /\ UNCHANGED <<proven, issuedFor>>

\* The administrator's does the same without a step-up.
AdminResetMFA(p) == MFADisable(p)

\* Mutant: the code is accepted and stays in the row.
verifyMFACodeKept(p, c) ==
  /\ row # None /\ row.on /\ row.secret # None /\ c \in row.codes
  /\ Hold(p, row, c, told)
  /\ UNCHANGED <<proven, issuedFor>>

\* A login or a step-up brings a backup code.  (One that brings a TOTP writes
\* nothing.)
verifyMFACode(p, c) ==
  /\ row # None /\ row.on /\ row.secret # None /\ c \in row.codes
  /\ Hold(p, Credential(row.pwd, row.secret, row.on, row.codes \ {c}), c, told)
  /\ UNCHANGED <<proven, issuedFor>>

\* mergeUsers with this user as the target takes over the password of the
\* other account, or its whole row: what is in there was proved and given out
\* over there.
MergeInherit(p, r) ==
  /\ r.codes \cap Issued = {} /\ (~r.on => r.codes = {})
  /\ LET next == IF row = None THEN r ELSE Credential(r.pwd, row.secret, row.on, row.codes) IN
     /\ row # None => row.pwd = None /\ r.pwd # None
     /\ Start(p, Save(row, next, None, Tell(next.pwd, next.on)))
  /\ IF row = None /\ r.on
     THEN /\ proven' = proven \cup {r.secret}
          /\ issuedFor' = [c \in Code |-> IF c \in r.codes THEN r.secret ELSE issuedFor[c]]
     ELSE UNCHANGED <<proven, issuedFor>>
  /\ UNCHANGED <<row, passkey, accepted, stale, unsaved, told, deleted, raced>>

\* mergeUsers with this user as the source: the row is deleted, the passkeys
\* go over to the other account.
MergeAway ==
  /\ row' = None /\ told' = Tell(None, FALSE)
  /\ passkey' = FALSE /\ deleted' = (deleted \/ passkey)
  /\ raced' = (raced \/ \E p \in Proc : At(p, "update"))
  /\ UNCHANGED <<req, proven, issuedFor, accepted, stale, unsaved>>

-----------------------------------------------------------------------------
Stale(p) == req[p].seen # row

\* Mutant: only the columns that the handler has changed are written.
SaveColumns(p) ==
  /\ At(p, "save")
  /\ req[p].seen = None => row = None
  /\ Stale(p) => stale < MaxLost
  /\ row' = IF row = None \/ req[p].seen = None THEN req[p].next
            ELSE [f \in DOMAIN row |-> IF req[p].next[f] # req[p].seen[f]
                                       THEN req[p].next[f] ELSE row[f]]
  /\ stale' = IF Stale(p) THEN stale + 1 ELSE stale
  /\ told' = req[p].answer
  /\ accepted' = [c \in Code |-> IF c = req[p].code THEN accepted[c] + 1 ELSE accepted[c]]
  /\ Finish(p)
  /\ UNCHANGED <<passkey, proven, issuedFor, unsaved, deleted, raced>>

\* gorm's Save: UPDATE ... WHERE id, and an INSERT if it finds no row; a
\* Create finds the user_id taken if there is a row by now.
SaveRow(p) ==
  /\ At(p, "save")
  /\ req[p].seen = None => row = None
  /\ Stale(p) => stale < MaxLost
  /\ row' = req[p].next
  /\ stale' = IF Stale(p) THEN stale + 1 ELSE stale
  /\ told' = req[p].answer
  /\ accepted' = [c \in Code |-> IF c = req[p].code THEN accepted[c] + 1 ELSE accepted[c]]
  /\ Finish(p)
  /\ UNCHANGED <<passkey, proven, issuedFor, unsaved, deleted, raced>>

\* The database refuses.  verifyMFACode drops the error, and accepts the code.
SaveFails(p) ==
  /\ At(p, "save")
  /\ req[p].code # None => unsaved < MaxLost
  /\ unsaved' = IF req[p].code # None THEN unsaved + 1 ELSE unsaved
  /\ accepted' = [c \in Code |-> IF c = req[p].code THEN accepted[c] + 1 ELSE accepted[c]]
  /\ Finish(p)
  /\ UNCHANGED <<row, passkey, proven, issuedFor, stale, told, deleted, raced>>

-----------------------------------------------------------------------------
\* One passkey: another one has a credential_id of its own.
PasskeyRegisterFinish ==
  /\ ~passkey /\ ~deleted
  /\ passkey' = TRUE
  /\ UNCHANGED <<row, req, proven, issuedFor, accepted, stale, unsaved, told, deleted, raced>>

\* loadWAUser has found the passkey and its signature is right.
ValidateLogin(p) ==
  /\ passkey /\ Start(p, [pc |-> "found"])
  /\ UNCHANGED <<row, passkey, proven, issuedFor, accepted, stale, unsaved, told, deleted, raced>>

\* Mutant: the row that loadWAUser has read is saved, without reading it again.
FindLoaded(p) ==
  /\ At(p, "found")
  /\ req' = [req EXCEPT ![p] = [pc |-> "update"]]
  /\ UNCHANGED <<row, passkey, proven, issuedFor, accepted, stale, unsaved, told, deleted, raced>>

\* The login goes on whether the row is still there or not.
FindByCredentialID(p) ==
  /\ At(p, "found")
  /\ req' = [req EXCEPT ![p] = IF passkey THEN [pc |-> "update"] ELSE Idle]
  /\ UNCHANGED <<row, passkey, proven, issuedFor, accepted, stale, unsaved, told, deleted, raced>>

\* The whole row is saved with the new counter: gorm inserts it if it is gone,
\* and an error is dropped.
UpdatePasskey(p) ==
  /\ At(p, "update")
  /\ passkey' \in {passkey, TRUE}
  /\ Finish(p)
  /\ UNCHANGED <<row, proven, issuedFor, accepted, stale, unsaved, told, deleted, raced>>

DeletePasskey ==
  /\ passkey
  /\ passkey' = FALSE /\ deleted' = TRUE
  /\ raced' = (raced \/ \E p \in Proc : At(p, "update"))
  /\ UNCHANGED <<row, req, proven, issuedFor, accepted, stale, unsaved, told>>

-----------------------------------------------------------------------------
Next ==
  \/ \E p \in Proc :
       \/ \E w \in Pwd : UpsertPassword(p, w)
       \/ \E s \in Secret : MFASetup(p, s)
       \/ \E codes \in SUBSET Code : MFAEnable(p, codes)
       \/ \E c \in Code : verifyMFACode(p, c)
       \/ \E r \in Row : MergeInherit(p, r)
       \/ MFADisable(p) \/ AdminResetMFA(p) \/ SaveRow(p) \/ SaveFails(p)
       \/ ValidateLogin(p) \/ FindByCredentialID(p) \/ UpdatePasskey(p)
  \/ MergeAway \/ PasskeyRegisterFinish \/ DeletePasskey

Spec == Init /\ [][Next]_vars

-----------------------------------------------------------------------------
\* Rows and requests have the shape the code gives them.
TypeOK ==
  /\ row \in Row \cup {None} /\ passkey \in BOOLEAN
  /\ req \in [Proc -> Req]
  /\ proven \subseteq Secret /\ issuedFor \in [Code -> Secret \cup {None}]
  /\ accepted \in [Code -> Nat] /\ stale \in Nat /\ unsaved \in Nat
  /\ told \in Told /\ deleted \in BOOLEAN /\ raced \in BOOLEAN

\* However setups, enabling, disabling and password changes overlap, a second
\* factor that is on has a secret that the user's app has proved, and backup
\* codes that were given out for that secret (MFASetup, MFAEnable): nobody is
\* locked out by a secret that was never scanned.
EnabledIsProven ==
  row # None =>
    /\ row.on => row.secret \in proven
    /\ \A c \in row.codes : row.on /\ issuedFor[c] = row.secret

\* A backup code is accepted once (docs/operations-user.md:84), and again only
\* for a save that has put it back, or that failed (verifyMFACode).
CodesBounded == \A c \in Code : accepted[c] <= 1 + stale + unsaved

\* As long as no copy was out of date when it was saved, the row holds the
\* password and the second factor that the user was last told: no handler
\* disturbs what another one is about.
ToldStands ==
  stale = 0 =>
    /\ row = None => told = Tell(None, FALSE)
    /\ row # None => told = Tell(row.pwd, row.on)

\* A passkey that was deleted stays deleted, unless its last use was being
\* recorded at that very moment (PasskeyLoginFinish, DeletePasskey).
DeletedStaysDeleted == deleted /\ passkey => raced
=============================================================================
