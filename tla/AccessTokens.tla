---------------------------- MODULE AccessTokens ----------------------------
(***************************************************************************)
(* Access JWTs and the Redis keys that take them out of use before they    *)
(* expire: the blacklist of jtis, the per-user session version carried as  *)
(* the uv claim, and the per-user blacklist with its time to live.  Which  *)
(* refresh rows the same handlers revoke is the subject of RefreshTokens.  *)
(*                                                                         *)
(* Redis may fail any single call; most callers drop the error.            *)
(***************************************************************************)
EXTENDS Integers

CONSTANTS
  User, Client, Proc,
  Token,         \* jtis idgen may draw
  AdminConsole,  \* the client_id of admin console tokens
  TTL,           \* client -> access_ttl of the app, or the configured default
  DefaultTTL,    \* cfg.JWT.AccessTTL
  None,
  MaxVersion,    \* bound on the session versions explored
  MaxTime        \* bound on the time explored

ASSUME TimesAssumption ==
  /\ DefaultTTL \in Nat /\ TTL \in [Client -> Nat]
  /\ AdminConsole \in Client /\ TTL[AdminConsole] = DefaultTTL
ASSUME NoneAssumption == None \notin User \cup Client
ASSUME BoundsAssumption == MaxVersion \in Nat /\ MaxTime \in Nat

VARIABLES
  token,    \* issued JWTs: jti -> their claims
  blacklist,\* jtis with a uac:bl:at key
  uv,       \* uac:uv:<user>
  barred,   \* user -> when its uac:bl:user key expires
  now,
  req,      \* the request each process is serving
  outdated, \* history: tokens that existed, or were being signed, at a bump
  banned    \* history: tokens that existed when their user was blacklisted

vars == <<token, blacklist, uv, barred, now, req, outdated, banned>>

-----------------------------------------------------------------------------
Issued == DOMAIN token

\* blind: history, the version was not read (Redis failed, or AdminLogin).
Claims == [user : User, client : Client, uv : Nat, exp : Nat, blind : BOOLEAN]

PC == {"idle", "sign", "bump", "bar"}

\* bar: the request blacklists the user after the bump.
\* late: history, the version was bumped since the request read it.
Req == [pc : PC, user : User \cup {None}, client : Client \cup {None}, uv : Nat,
        blind : BOOLEAN, bar : BOOLEAN, late : BOOLEAN]

Idle == [pc |-> "idle", user |-> None, client |-> None, uv |-> 0,
         blind |-> FALSE, bar |-> FALSE, late |-> FALSE]

Bumping(u, bar) ==
  [pc |-> "bump", user |-> u, client |-> None, uv |-> 0,
   blind |-> FALSE, bar |-> bar, late |-> FALSE]

Signing(u, c, v, blind) ==
  [pc |-> "sign", user |-> u, client |-> c, uv |-> v,
   blind |-> blind, bar |-> FALSE, late |-> FALSE]

Start(p, r) == req[p] = Idle /\ req' = [req EXCEPT ![p] = r]
Finish(p)   == req' = [req EXCEPT ![p] = Idle]

TokensOf(u) == {t \in Issued : token[t].user = u}

Unexpired(t) == now < token[t].exp

\* A version of 0 stands for "never bumped" and is not compared.
Stale(t) == uv[token[t].user] > 0 /\ token[t].uv < uv[token[t].user]

\* Mutant: takes version 1 for "never bumped".
IntrospectFromTwo(t, answered) ==
  /\ t \in Issued /\ Unexpired(t)
  /\ t \notin blacklist
  /\ "user" \in answered => now >= barred[token[t].user]
  /\ "version" \in answered => ~(Stale(t) /\ uv[token[t].user] > 1)

IsUserAccessBlacklisted(u) == now < barred[u]

\* Introspect and UserAuth accept a token: a failed read of the jti blacklist
\* refuses it, a failed read of the user's keys counts as their absence.
Introspect(t, answered) ==
  /\ t \in Issued /\ Unexpired(t)
  /\ t \notin blacklist
  /\ "user" \in answered => ~IsUserAccessBlacklisted(token[t].user)
  /\ "version" \in answered => ~Stale(t)

Keys == {"user", "version"}

UserAuth(t) == \E answered \in SUBSET Keys : Introspect(t, answered)

-----------------------------------------------------------------------------
Init ==
  /\ token = [t \in {} |-> None]
  /\ blacklist = {} /\ outdated = {} /\ banned = {}
  /\ uv = [u \in User |-> 0]
  /\ barred = [u \in User |-> 0]
  /\ now = 0
  /\ req = [p \in Proc |-> Idle]

-----------------------------------------------------------------------------
(* Issuing *)

Hand(t, claims) ==
  /\ t \notin Issued
  /\ token' = [k \in Issued \cup {t} |-> IF k = t THEN claims ELSE token[k]]

\* Mutant: a failed read yields -1.
GetUserVersionMinusOne(p, u, c) ==
  /\ \/ Start(p, Signing(u, c, uv[u], FALSE))
     \/ Start(p, Signing(u, c, -1, TRUE))
  /\ UNCHANGED <<token, blacklist, uv, barred, now, outdated, banned>>

\* issueTokens, on behalf of a login, a second factor, a passkey or a
\* refresh, reads the version; the error is dropped and the version is 0.
GetUserVersion(p, u, c) ==
  /\ \/ Start(p, Signing(u, c, uv[u], FALSE))
     \/ Start(p, Signing(u, c, 0, TRUE))
  /\ UNCHANGED <<token, blacklist, uv, barred, now, outdated, banned>>

\* IssueAccess signs the claims and, once the refresh row is stored, the
\* caller has the token.
issueTokens(p, t) ==
  /\ req[p].pc = "sign"
  /\ Hand(t, [user |-> req[p].user, client |-> req[p].client, uv |-> req[p].uv,
              exp |-> now + TTL[req[p].client], blind |-> req[p].blind])
  /\ outdated' = IF req[p].late THEN outdated \cup {t} ELSE outdated
  /\ Finish(p)
  /\ UNCHANGED <<blacklist, uv, barred, now, banned>>

\* The admin console's login signs without a version.
AdminLogin(u, t) ==
  /\ Hand(t, [user |-> u, client |-> AdminConsole, uv |-> 0,
              exp |-> now + DefaultTTL, blind |-> TRUE])
  /\ UNCHANGED <<blacklist, uv, barred, now, req, outdated, banned>>

-----------------------------------------------------------------------------
(* Taking tokens out of use *)

\* ForceLogout, once the refresh rows are revoked: with a client_id or
\* without, the whole user is meant.  AnonymizeUser ends the same way.
ForceLogout(p, u) ==
  /\ Start(p, Bumping(u, TRUE))
  /\ UNCHANGED <<token, blacklist, uv, barred, now, outdated, banned>>

\* A forced password change bumps the version and no more.
SetPassword(p, t) ==
  /\ UserAuth(t)
  /\ Start(p, Bumping(token[t].user, FALSE))
  /\ UNCHANGED <<token, blacklist, uv, barred, now, outdated, banned>>

\* So does SAML single logout.
FinishSAMLSLO(p, u) ==
  /\ Start(p, Bumping(u, FALSE))
  /\ UNCHANGED <<token, blacklist, uv, barred, now, outdated, banned>>

AfterBump(p, r) ==
  req' = [r EXCEPT ![p] = IF req[p].bar
                            THEN [pc |-> "bar", user |-> req[p].user, client |-> None, uv |-> 0,
                                  blind |-> FALSE, bar |-> TRUE, late |-> FALSE]
                            ELSE Idle]

\* Requests signing for user u, marked as overtaken by a bump.
Overtaken(u) ==
  [q \in Proc |->
     IF req[q].pc = "sign" /\ req[q].user = u
       THEN [pc |-> "sign", user |-> u, client |-> req[q].client, uv |-> req[q].uv,
             blind |-> req[q].blind, bar |-> FALSE, late |-> TRUE]
       ELSE req[q]]

\* INCR uac:uv:<user>.
BumpUserVersion(p) ==
  /\ req[p].pc = "bump" /\ uv[req[p].user] < MaxVersion
  /\ uv' = [uv EXCEPT ![req[p].user] = uv[req[p].user] + 1]
  /\ outdated' = outdated \cup TokensOf(req[p].user)
  /\ AfterBump(p, Overtaken(req[p].user))
  /\ UNCHANGED <<token, blacklist, barred, now, banned>>

\* Every caller drops the error of INCR and goes on.
BumpFails(p) ==
  /\ req[p].pc = "bump"
  /\ AfterBump(p, req)
  /\ UNCHANGED <<token, blacklist, uv, barred, now, outdated, banned>>

\* Mutant: the key expires one unit of time early.
BlacklistBriefly(p) ==
  /\ req[p].pc = "bar"
  /\ barred' = [barred EXCEPT ![req[p].user] = now + DefaultTTL - 1]
  /\ banned' = banned \cup TokensOf(req[p].user)
  /\ Finish(p)
  /\ UNCHANGED <<token, blacklist, uv, now, outdated>>

\* SET uac:bl:user:<user> EX <configured access_ttl>, whatever the app's.
BlacklistUserAccess(p) ==
  /\ req[p].pc = "bar"
  /\ barred' = [barred EXCEPT ![req[p].user] = now + DefaultTTL]
  /\ banned' = banned \cup TokensOf(req[p].user)
  /\ Finish(p)
  /\ UNCHANGED <<token, blacklist, uv, now, outdated>>

\* Logout blacklists the token it was called with.  The entry lives as long
\* as the token, which is then refused for good.
Logout(t) ==
  /\ UserAuth(t)
  /\ blacklist' = blacklist \cup {t}
  /\ UNCHANGED <<token, uv, barred, now, req, outdated, banned>>

\* RevokeToken blacklists any token that still parses.
RevokeToken(t) ==
  /\ Unexpired(t)
  /\ blacklist' = blacklist \cup {t}
  /\ UNCHANGED <<token, uv, barred, now, req, outdated, banned>>

\* A request fails or is dropped: nothing it has yet to do is done.
Abort(p) ==
  /\ req[p] # Idle
  /\ Finish(p)
  /\ UNCHANGED <<token, blacklist, uv, barred, now, outdated, banned>>

Tick ==
  /\ now < MaxTime
  /\ now' = now + 1
  /\ UNCHANGED <<token, blacklist, uv, barred, req, outdated, banned>>

-----------------------------------------------------------------------------
Step(p) ==
  \/ \E u \in User, c \in Client \ {AdminConsole} : GetUserVersion(p, u, c)
  \/ \E t \in Token : issueTokens(p, t)
  \/ \E u \in User : ForceLogout(p, u) \/ FinishSAMLSLO(p, u)
  \/ \E t \in Issued : SetPassword(p, t)
  \/ BumpUserVersion(p)
  \/ BumpFails(p)
  \/ BlacklistUserAccess(p)
  \/ Abort(p)

Next ==
  \/ \E p \in Proc : Step(p)
  \/ \E u \in User, t \in Token : AdminLogin(u, t)
  \/ \E t \in Issued : Logout(t) \/ RevokeToken(t)
  \/ Tick

Spec == Init /\ [][Next]_vars

-----------------------------------------------------------------------------
(* Properties *)

\* Type invariant: claims, counters, clocks and requests stay in their types,
\* and a request that goes on knows whom it is about.
TypeOK ==
  /\ token \in [Issued -> Claims] /\ Issued \subseteq Token
  /\ blacklist \subseteq Issued /\ outdated \subseteq Issued /\ banned \subseteq Issued
  /\ uv \in [User -> Nat]
  /\ barred \in [User -> Nat]
  /\ now \in Nat
  /\ req \in [Proc -> Req]
  /\ \A p \in Proc :
       /\ req[p].pc # "idle" => req[p].user # None
       /\ req[p].pc = "sign" => req[p].client # None

\* redisx.go: the bump makes "old access JWTs invalid at once".  A token that
\* existed, or whose version was already read, when its user's version was
\* bumped is never accepted again by a check that reaches Redis, whatever was
\* in flight and however many bumps there were; and one whose version was
\* read since is not taken for stale.
BumpDecides ==
  /\ \A t \in outdated : ~Introspect(t, Keys)
  /\ \A t \in Issued \ outdated : token[t].blind \/ ~Stale(t)

\* ForceLogout is safe against the loss of its bump: a token that existed
\* when its user was blacklisted is refused until it expires even where the
\* version says nothing, provided its app's access_ttl is not above the
\* configured one.
BanOutlivesTokens ==
  \A t \in banned :
    TTL[token[t].client] <= DefaultTTL => ~Introspect(t, {"user"})

\* A token refused by a check that reaches Redis is refused from then on, but
\* for one that was issued during its user's ban, or outlives it by its app's
\* access_ttl: such a token is accepted once the ban is over.
RefusalIsFinal ==
  [][\A t \in Issued :
       /\ ~Introspect(t, Keys)
       /\ \/ ~IsUserAccessBlacklisted(token[t].user)
          \/ t \in banned /\ TTL[token[t].client] <= DefaultTTL
       => ~Introspect(t, Keys)']_vars
=============================================================================
