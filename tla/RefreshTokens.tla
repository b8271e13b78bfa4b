---------------------------- MODULE RefreshTokens ----------------------------
(***************************************************************************)
(* The refresh_tokens table: logins that add a row, refreshes that         *)
(* exchange one row for another, and every handler that revokes rows, one  *)
(* or many at a time.  Each HTTP request is a process that stops after     *)
(* each MySQL call another request can observe, so the steps of concurrent *)
(* requests interleave as they do in the server.                           *)
(*                                                                         *)
(* A request that presents an unknown or expired token is refused before   *)
(* it changes anything, so it is no step here; that tokens expire only     *)
(* means that some of the steps below stop being taken.                    *)
(***************************************************************************)
CONSTANTS
  User,        \* user_id values
  Client,      \* client_id values of the registered apps
  JTI,         \* refresh-token ids idgen may draw
  Proc,        \* requests served at the same time
  None         \* the empty string or nil pointer of the code

ASSUME NoneAssumption == None \notin JTI \cup User \cup Client

VARIABLES
  refresh,     \* the rows: jti -> owner, client, login it descends from
  live,        \* jtis of the rows with revoked_at IS NULL
  status,      \* users.status
  activeApp,   \* clients whose apps.status is active
  req          \* the request each process is serving

vars == <<refresh, live, status, activeApp, req>>

-----------------------------------------------------------------------------
(* Rows and requests *)

Issued == DOMAIN refresh

Status == {"active", "disabled"}

\* fam is a history field: the jti of the login the row descends from.
Row == [user : User, client : Client, fam : JTI]

PC == {"idle", "resolve", "check", "consume", "store", "revoke", "revokeApp", "saveUser"}

\* Why rows are swept; "" for everything but reuse and forced logout.
Why == {"", "reuse", "force"}

Req == [pc : PC, user : User \cup {None}, client : Client \cup {None},
        jti : JTI \cup {None}, why : Why, st : Status]

Idle == [pc |-> "idle", user |-> None, client |-> None, jti |-> None,
         why |-> "", st |-> "active"]

Busy(pc, u, c, j) ==
  [pc |-> pc, user |-> u, client |-> c, jti |-> j, why |-> "", st |-> "active"]

Sweep(u, c, why) ==
  [pc |-> "revoke", user |-> u, client |-> c, jti |-> None, why |-> why, st |-> "active"]

Start(p, r) == req[p] = Idle /\ req' = [req EXCEPT ![p] = r]
Goto(p, pc) == req' = [req EXCEPT ![p].pc = pc]
Finish(p)   == req' = [req EXCEPT ![p] = Idle]

Save(u, st) ==
  [pc |-> "saveUser", user |-> u, client |-> None, jti |-> None, why |-> "", st |-> st]

\* Rows of user u, restricted to client c unless c is empty.
Scope(u, c) ==
  {j \in Issued : refresh[j].user = u /\ (c = None \/ refresh[j].client = c)}

\* Some access JWT of user u for client c is accepted, at most as long as u
\* has logged in there; which JWTs are is the subject of AccessTokens.
LoggedIn(u, c) == Scope(u, c) # {}

\* requireApp: the app exists and its status is active.
requireApp(c) == c \in activeApp

\* Refreshes that have consumed their row and not yet added the next.
Rotating == {p \in Proc : req[p].pc = "store" /\ req[p].jti # None}

\* The login a rotating request descends from.
Family(p) == refresh[req[p].jti].fam

-----------------------------------------------------------------------------
Init ==
  /\ refresh = [j \in {} |-> None]
  /\ live = {}
  /\ status = [u \in User |-> "active"]
  /\ activeApp = Client
  /\ req = [p \in Proc |-> Idle]

-----------------------------------------------------------------------------
(* Logging in *)

\* Login once the authenticator has verified who is there.
Login(p, u, c) ==
  /\ requireApp(c)
  /\ Start(p, Busy("resolve", u, c, None))
  /\ UNCHANGED <<refresh, live, status, activeApp>>

\* resolveUser for a known identity: only an active user gets on.
resolveUser(p) ==
  /\ req[p].pc = "resolve"
  /\ IF status[req[p].user] = "active" THEN Goto(p, "store") ELSE Finish(p)
  /\ UNCHANGED <<refresh, live, status, activeApp>>

\* The second factor goes straight to issueTokens: users.status was looked
\* at when the first factor was checked, up to the pending session's life ago.
MFAComplete(p, u, c) ==
  /\ requireApp(c)
  /\ Start(p, Busy("store", u, c, None))
  /\ UNCHANGED <<refresh, live, status, activeApp>>

\* So does the passkey ceremony, which never looks at users.status.
PasskeyLoginFinish(p, u, c) ==
  /\ requireApp(c)
  /\ Start(p, Busy("store", u, c, None))
  /\ UNCHANGED <<refresh, live, status, activeApp>>

-----------------------------------------------------------------------------
(* Rotation *)

\* Mutant: forgets that a token belongs to one client.
RefreshFindAnyClient(p, j, c) ==
  /\ requireApp(c)
  /\ j \in live
  /\ Start(p, Busy("check", refresh[j].user, c, j))
  /\ UNCHANGED <<refresh, live, status, activeApp>>

\* Refresh, FindByHash with the client's own live token.
RefreshFind(p, j, c) ==
  /\ requireApp(c)
  /\ j \in live /\ refresh[j].client = c
  /\ Start(p, Busy("check", refresh[j].user, c, j))
  /\ UNCHANGED <<refresh, live, status, activeApp>>

\* Refresh, FindByHash with a revoked token: reuse sweeps user and client.
RefreshReuse(p, j, c) ==
  /\ requireApp(c)
  /\ j \in Issued \ live /\ refresh[j].client = c
  /\ Start(p, Sweep(refresh[j].user, c, "reuse"))
  /\ UNCHANGED <<refresh, live, status, activeApp>>

\* Mutant: issues without consuming the old token.
RefreshCheckUserOnly(p) ==
  /\ req[p].pc = "check"
  /\ IF status[req[p].user] = "active" THEN Goto(p, "store") ELSE Finish(p)
  /\ UNCHANGED <<refresh, live, status, activeApp>>

\* Refresh reads the user row before it consumes the old token.
RefreshCheckUser(p) ==
  /\ req[p].pc = "check"
  /\ IF status[req[p].user] = "active" THEN Goto(p, "consume") ELSE Finish(p)
  /\ UNCHANGED <<refresh, live, status, activeApp>>

\* Mutant: UPDATE without "revoked_at IS NULL", rows affected not looked at.
ConsumeAlways(p) ==
  /\ req[p].pc = "consume"
  /\ Goto(p, "store")
  /\ live' = live \ {req[p].jti}
  /\ UNCHANGED <<refresh, status, activeApp>>

\* UPDATE ... WHERE jti = ? AND revoked_at IS NULL; the loser just fails.
ConsumeActive(p) ==
  /\ req[p].pc = "consume"
  /\ IF req[p].jti \in live THEN Goto(p, "store") ELSE Finish(p)
  /\ live' = live \ {req[p].jti}
  /\ UNCHANGED <<refresh, status, activeApp>>

\* issueTokens: Refresh.Create, after which the caller holds the token.
issueTokens(p, j) ==
  /\ req[p].pc = "store"
  /\ j \notin Issued
  /\ LET row == [user |-> req[p].user, client |-> req[p].client,
                 fam |-> IF req[p].jti = None THEN j ELSE Family(p)]
     IN  refresh' = [k \in Issued \cup {j} |-> IF k = j THEN row ELSE refresh[k]]
  /\ live' = live \cup {j}
  /\ Finish(p)
  /\ UNCHANGED <<status, activeApp>>

-----------------------------------------------------------------------------
(* Bulk revocation *)

\* Logout with all_devices, ResetPasswordConfirm and SetPassword once the new
\* hash is stored, and SAML logout sweep one client of the user.
LogoutAll(p, u, c) ==
  /\ requireApp(c)
  /\ LoggedIn(u, c)
  /\ Start(p, Sweep(u, c, ""))
  /\ UNCHANGED <<refresh, live, status, activeApp>>

SetPassword(p, u, c) ==
  /\ requireApp(c)
  /\ LoggedIn(u, c)
  /\ Start(p, Sweep(u, c, ""))
  /\ UNCHANGED <<refresh, live, status, activeApp>>

ResetPasswordConfirm(p, u, c) ==
  /\ requireApp(c)
  /\ Start(p, Sweep(u, c, ""))
  /\ UNCHANGED <<refresh, live, status, activeApp>>

FinishSAMLSLO(p, u, c) ==
  /\ requireApp(c)
  /\ Start(p, Sweep(u, c, ""))
  /\ UNCHANGED <<refresh, live, status, activeApp>>

\* Mutant: stores any status it is given.
SetUserStatusUnchecked(p, u, s) ==
  /\ Start(p, Sweep(u, None, ""))
  /\ status' = [status EXCEPT ![u] = IF s = "active" THEN s ELSE "locked"]
  /\ UNCHANGED <<refresh, live, activeApp>>

\* SetUserStatus saves the row, then sweeps all clients of a disabled user.
SetUserStatus(p, u, s) ==
  /\ Start(p, IF s = "disabled" THEN Sweep(u, None, "") ELSE Idle)
  /\ status' = [status EXCEPT ![u] = s]
  /\ UNCHANGED <<refresh, live, activeApp>>

\* ForceLogout sweeps one client or, with client_id empty, all of them.
ForceLogout(p, u, c) ==
  /\ Start(p, Sweep(u, c, "force"))
  /\ UNCHANGED <<refresh, live, status, activeApp>>

\* AnonymizeUser disables the row and then forces the user out.
AnonymizeUser(p, u) ==
  /\ Start(p, Sweep(u, None, "force"))
  /\ status' = [status EXCEPT ![u] = "disabled"]
  /\ UNCHANGED <<refresh, live, activeApp>>

\* UPDATE ... WHERE user_id = ? [AND client_id = ?] AND revoked_at IS NULL.
RevokeAllByUser(p) ==
  /\ req[p].pc = "revoke"
  /\ live' = live \ Scope(req[p].user, req[p].client)
  /\ Finish(p)
  /\ UNCHANGED <<refresh, status, activeApp>>

\* RotateSecret has saved the app row and goes on to sweep the client.
RotateSecret(p, c) ==
  /\ Start(p, Busy("revokeApp", None, c, None))
  /\ UNCHANGED <<refresh, live, status, activeApp>>

RotateSecretSweep(p) ==
  /\ req[p].pc = "revokeApp"
  /\ live' = live \ {j \in Issued : refresh[j].client = req[p].client}
  /\ Finish(p)
  /\ UNCHANGED <<refresh, status, activeApp>>

\* mergeUsers commits the sweep of the source and its new status together, and the
\* status alone when the sweep fails, an error that is dropped; the rows of the
\* target, an account in User or any other, stay as they are.
mergeUsers(source) ==
  /\ live' = live \ Scope(source, None) \/ UNCHANGED live
  /\ status' = [status EXCEPT ![source] = "disabled"]
  /\ UNCHANGED <<refresh, activeApp, req>>

-----------------------------------------------------------------------------
(* Single-session revocation *)

Revoke(j) == live' = live \ {j}

RevokeOthers(u, c, keep) == live' = live \ (Scope(u, c) \ {keep})

\* Logout of one device revokes the presented token whoever owns it.
Logout(u, c, j) ==
  /\ requireApp(c)
  /\ LoggedIn(u, c)
  /\ Revoke(j)
  /\ UNCHANGED <<refresh, status, activeApp, req>>

\* RFC 7009: whoever holds the token may revoke it.
RevokeToken(j) ==
  /\ j \in Issued
  /\ Revoke(j)
  /\ UNCHANGED <<refresh, status, activeApp, req>>

RevokeSession(u, c, j) ==
  /\ requireApp(c)
  /\ LoggedIn(u, c) /\ j \in Scope(u, c)
  /\ Revoke(j)
  /\ UNCHANGED <<refresh, status, activeApp, req>>

RevokeOtherSessions(u, c, keep) ==
  /\ requireApp(c)
  /\ LoggedIn(u, c)
  /\ RevokeOthers(u, c, keep)
  /\ UNCHANGED <<refresh, status, activeApp, req>>

-----------------------------------------------------------------------------
(* Apps, profiles and failures *)

\* UpdateApp, and every other save of the app row: the status becomes
\* whatever the writer has in hand.
UpdateApp(c) ==
  /\ \E on \in SUBSET {c} : activeApp' = (activeApp \ {c}) \cup on
  /\ UNCHANGED <<refresh, live, status, req>>

\* UpdateProfile and UpdatePreferences read the whole user row ...
UpdateProfile(p, u) ==
  /\ \E c \in Client : LoggedIn(u, c)
  /\ Start(p, Save(u, status[u]))
  /\ UNCHANGED <<refresh, live, status, activeApp>>

\* ... and write the whole row back, the status column included.
SaveUser(p) ==
  /\ req[p].pc = "saveUser"
  /\ status' = [status EXCEPT ![req[p].user] = req[p].st]
  /\ Finish(p)
  /\ UNCHANGED <<refresh, live, activeApp>>

\* A database error, a cancelled request context or a crash of the server
\* ends the request where it stands.
Abort(p) ==
  /\ req[p] # Idle
  /\ Finish(p)
  /\ UNCHANGED <<refresh, live, status, activeApp>>

-----------------------------------------------------------------------------
StartRequest(p) ==
  \/ \E u \in User, c \in Client :
       \/ Login(p, u, c)
       \/ MFAComplete(p, u, c)
       \/ PasskeyLoginFinish(p, u, c)
       \/ LogoutAll(p, u, c)
       \/ SetPassword(p, u, c)
       \/ ResetPasswordConfirm(p, u, c)
       \/ FinishSAMLSLO(p, u, c)
  \/ \E j \in Issued, c \in Client : RefreshFind(p, j, c) \/ RefreshReuse(p, j, c)
  \/ \E u \in User, s \in Status : SetUserStatus(p, u, s)
  \/ \E u \in User, c \in Client \cup {None} : ForceLogout(p, u, c)
  \/ \E u \in User : AnonymizeUser(p, u) \/ UpdateProfile(p, u)
  \/ \E c \in Client : RotateSecret(p, c)

ContinueRequest(p) ==
  \/ resolveUser(p)
  \/ RefreshCheckUser(p)
  \/ ConsumeActive(p)
  \/ \E j \in JTI : issueTokens(p, j)
  \/ RotateSecretSweep(p)
  \/ SaveUser(p)
  \/ Abort(p)

OneCallRequest ==
  \/ \E u \in User, c \in Client, j \in Issued :
       \/ Logout(u, c, j)
       \/ RevokeSession(u, c, j)
       \/ RevokeOtherSessions(u, c, j)
  \/ \E j \in Issued : RevokeToken(j)
  \/ \E u \in User : mergeUsers(u)
  \/ \E c \in Client : UpdateApp(c)

Next ==
  \/ \E p \in Proc : StartRequest(p) \/ ContinueRequest(p) \/ RevokeAllByUser(p)
  \/ OneCallRequest

Spec == Init /\ [][Next]_vars

-----------------------------------------------------------------------------
(* Properties *)

\* A request carries what its next call needs.
WellFormed(r) ==
  /\ r.pc = "resolve" => r.jti = None
  /\ r.pc \in {"check", "consume"} => r.jti # None
  /\ r.jti # None => r.jti \in Issued
  /\ r.pc \in {"resolve", "check", "consume", "store", "revoke", "saveUser"} => r.user # None
  /\ r.pc \in {"resolve", "check", "consume", "store"} => r.client # None

\* Type invariant: rows, statuses and requests stay in their types, and a
\* request knows what it is about.
TypeOK ==
  /\ refresh \in [Issued -> Row] /\ Issued \subseteq JTI
  /\ live \subseteq Issued
  /\ status \in [User -> Status]
  /\ activeApp \subseteq Client
  /\ req \in [Proc -> Req]
  /\ \A p \in Proc : WellFormed(req[p])

\* Refresh consumes the old token before it issues the new one "to avoid two
\* live tokens under concurrency": however requests interleave, the tokens
\* descending from one login never include two that can be exchanged, nor
\* one that can be exchanged next to a request about to add another, nor two
\* such requests.
NoDoubleLive ==
  /\ \A i, j \in live : refresh[i].fam = refresh[j].fam => i = j
  /\ \A p \in Rotating :
       /\ \A j \in live : refresh[j].fam # Family(p)
       /\ \A q \in Rotating : Family(q) = Family(p) => q = p

\* Rotation never carries a session to another user or another client: every
\* token has the owner and the client of the login it descends from, and that
\* login descends from no other.
LineageIsolated ==
  \A j \in Issued :
    /\ refresh[j].fam \in Issued
    /\ refresh[refresh[j].fam].user = refresh[j].user
    /\ refresh[refresh[j].fam].client = refresh[j].client
    /\ refresh[refresh[j].fam].fam = refresh[j].fam

\* The life of each login's chain of tokens, read off rows and requests.
chainPhase ==
  [s \in JTI |->
     IF s \notin Issued THEN "unborn"
     ELSE IF refresh[s].fam # s THEN "unborn"
     ELSE IF \E j \in live : refresh[j].fam = s THEN "open"
     ELSE IF \E p \in Rotating : Family(p) = s THEN "rotating"
     ELSE "closed"]
chainHead == [s \in JTI |-> {j \in live : refresh[j].fam = s}]

Chain == INSTANCE SessionChain WITH phase <- chainPhase, head <- chainHead, used <- Issued

\* The table implements the chains of SessionChain: each login has at most
\* one exchangeable token, and a chain that is revoked while no rotation of
\* it is in flight never becomes exchangeable again.
ImplementsChain == Chain!Spec
=============================================================================
