------------------------- MODULE AccessTokensProofs -------------------------
(***************************************************************************)
(* Proofs about AccessTokens, for any sets of users, apps, tokens and      *)
(* concurrent requests, any times to live, and any bounds.                 *)
(***************************************************************************)
EXTENDS AccessTokens, TLAPS

\* A version that was read is never ahead of the user's, is behind it once a
\* bump overtook it, and is the user's own as long as none did.
Fits(v, version, over, blind) ==
  /\ v \in Nat /\ v <= version
  /\ over => v < version
  /\ ~over /\ ~blind => v = version

TokenVersions ==
  \A t \in Issued : Fits(token[t].uv, uv[token[t].user], t \in outdated, token[t].blind)

ReqVersions ==
  \A p \in Proc :
    req[p].pc = "sign" => Fits(req[p].uv, uv[req[p].user], req[p].late, req[p].blind)

\* No token and no ban reaches further than its time to live.
Horizons ==
  /\ \A t \in Issued : token[t].exp <= now + TTL[token[t].client]
  /\ \A u \in User : barred[u] <= now + DefaultTTL

Bans ==
  \A t \in banned : TTL[token[t].client] <= DefaultTTL
                      => token[t].exp <= barred[token[t].user]

\* The inductive invariant.
IInv == TypeOK /\ TokenVersions /\ ReqVersions /\ Horizons /\ Bans

\* It says what the properties say.
LEMMA Consequences == IInv => BumpDecides /\ BanOutlivesTokens
<1> SUFFICES ASSUME IInv PROVE BumpDecides /\ BanOutlivesTokens
  OBVIOUS
<1>1. \A t \in Issued : /\ token[t] \in Claims /\ uv[token[t].user] \in Nat
                        /\ barred[token[t].user] \in Nat
  BY DEF IInv, TypeOK, Claims
<1>2. BumpDecides
  <2>1. \A t \in Issued : t \in outdated => Stale(t)
    BY <1>1 DEF IInv, TokenVersions, Fits, Stale, Claims
  <2>2. \A t \in Issued : t \notin outdated /\ ~token[t].blind => ~Stale(t)
    BY <1>1 DEF IInv, TokenVersions, Fits, Stale, Claims
  <2>3. outdated \subseteq Issued
    BY DEF IInv, TypeOK
  <2> QED
    BY <2>1, <2>2, <2>3 DEF BumpDecides, Introspect, Keys
<1>3. BanOutlivesTokens
  <2> SUFFICES ASSUME NEW t \in banned, TTL[token[t].client] <= DefaultTTL,
                      Introspect(t, {"user"})
               PROVE  FALSE
    BY DEF BanOutlivesTokens
  <2>1. token[t].exp <= barred[token[t].user]
    BY DEF IInv, Bans
  <2>2. now < token[t].exp /\ ~(now < barred[token[t].user]) /\ t \in Issued
    BY DEF Introspect, IsUserAccessBlacklisted, Unexpired
  <2>3. now \in Nat /\ token[t].exp \in Nat /\ barred[token[t].user] \in Nat
    BY <1>1, <2>2 DEF IInv, TypeOK, Claims
  <2> QED
    BY <2>1, <2>2, <2>3
<1> QED
  BY <1>2, <1>3

\* Before the first token there is nothing to be wrong about.
LEMMA InitIInv == Init => IInv
<1> SUFFICES ASSUME Init PROVE IInv
  OBVIOUS
<1>1. Issued = {}
  BY DEF Init, Issued
<1>2. TypeOK
  BY <1>1 DEF Init, TypeOK, Idle, Req, PC, Issued
<1>3. TokenVersions /\ ReqVersions /\ Bans
  BY <1>1 DEF Init, TokenVersions, ReqVersions, Bans, Idle
<1>4. Horizons
  BY <1>1, TimesAssumption DEF Init, Horizons
<1> QED
  BY <1>2, <1>3, <1>4 DEF IInv

WellFormed(r) ==
  /\ r \in Req
  /\ r.pc # "idle" => r.user # None
  /\ r.pc = "sign" => r.client # None

\* A step that changes one request, and at most the jti blacklist besides.
LEMMA RequestStep ==
  ASSUME IInv, NEW p \in Proc, NEW r, WellFormed(r),
         r.pc = "sign" => Fits(r.uv, uv[r.user], r.late, r.blind),
         req' = [req EXCEPT ![p] = r], blacklist' = blacklist,
         UNCHANGED <<token, uv, barred, now, outdated, banned>>
  PROVE  IInv'
<1>1. TypeOK'
  BY DEF IInv, TypeOK, WellFormed, Issued
<1>2. TokenVersions'
  BY DEF IInv, TokenVersions, Fits, Issued
<1>3. ReqVersions'
  BY DEF IInv, TypeOK, ReqVersions, Fits
<1>4. Horizons' /\ Bans'
  BY DEF IInv, Horizons, Bans, Issued
<1> QED
  BY <1>1, <1>2, <1>3, <1>4 DEF IInv

\* A step that only adds issued tokens to the jti blacklist.
LEMMA BlacklistStep ==
  ASSUME IInv, blacklist' \subseteq Issued,
         UNCHANGED <<token, uv, barred, now, req, outdated, banned>>
  PROVE  IInv'
BY DEF IInv, TypeOK, TokenVersions, ReqVersions, Horizons, Bans, Fits, Issued

\* The requests the steps leave behind.
LEMMA IdleReq == WellFormed(Idle) /\ Idle.pc # "sign"
  BY DEF Idle, WellFormed, Req, PC

\* A request about to bump has a user and signs nothing.
LEMMA BumpingReq ==
  ASSUME NEW u \in User, NEW b \in BOOLEAN
  PROVE  WellFormed(Bumping(u, b)) /\ Bumping(u, b).pc # "sign"
BY NoneAssumption DEF Bumping, WellFormed, Req, PC

\* Handing out a token keeps the invariant if its claims are in order.
LEMMA HandStep ==
  ASSUME IInv, NEW t \in Token, NEW cl \in Claims, Hand(t, cl), NEW over \in BOOLEAN,
         Fits(cl.uv, uv[cl.user], over, cl.blind), cl.exp <= now + TTL[cl.client],
         outdated' = IF over THEN outdated \cup {t} ELSE outdated,
         WellFormed(Idle), NEW p \in Proc,
         req' = req \/ req' = [req EXCEPT ![p] = Idle],
         UNCHANGED <<blacklist, uv, barred, now, banned>>
  PROVE  IInv'
<1>1. /\ t \notin Issued /\ Issued' = Issued \cup {t}
      /\ token' = [k \in Issued \cup {t} |-> IF k = t THEN cl ELSE token[k]]
  BY DEF Hand, Issued
<1>2. token'[t] = cl /\ \A k \in Issued : token'[k] = token[k]
  BY <1>1
<1>3. \A q \in Proc : req'[q] = req[q] \/ req'[q] = Idle
  BY DEF IInv, TypeOK
<1>4. TypeOK'
  <2>1. token' \in [Issued' -> Claims] /\ Issued' \subseteq Token
    BY <1>1, <1>2 DEF IInv, TypeOK
  <2>2. req' \in [Proc -> Req]
    BY IdleReq DEF IInv, TypeOK, WellFormed
  <2>3. \A q \in Proc : /\ req'[q].pc # "idle" => req'[q].user # None
                        /\ req'[q].pc = "sign" => req'[q].client # None
    BY <1>3, IdleReq DEF IInv, TypeOK, WellFormed
  <2>4. blacklist' \subseteq Issued' /\ outdated' \subseteq Issued' /\ banned' \subseteq Issued'
    BY <1>1 DEF IInv, TypeOK
  <2> QED
    BY <2>1, <2>2, <2>3, <2>4 DEF IInv, TypeOK
<1>5. TokenVersions'
  <2>1. \A k \in Issued : k \in outdated' <=> k \in outdated
    BY <1>1
  <2>2. t \in outdated' <=> over
    BY <1>1 DEF IInv, TypeOK
  <2> QED
    BY <1>1, <1>2, <2>1, <2>2 DEF IInv, TokenVersions, Fits
<1>6. ReqVersions'
  BY <1>3, IdleReq DEF IInv, ReqVersions, Fits
<1>7. Horizons'
  BY <1>1, <1>2 DEF IInv, Horizons
<1>8. Bans'
  BY <1>1, <1>2 DEF IInv, Bans, TypeOK
<1> QED
  BY <1>4, <1>5, <1>6, <1>7, <1>8 DEF IInv

\* Signing takes the version a request read over into the token.
LEMMA IssueStep ==
  ASSUME IInv, NEW p \in Proc, NEW t \in Token, issueTokens(p, t)
  PROVE  IInv'
<1> DEFINE cl == [user |-> req[p].user, client |-> req[p].client, uv |-> req[p].uv,
                  exp |-> now + TTL[req[p].client], blind |-> req[p].blind]
<1>1. req[p] \in Req /\ req[p].pc = "sign" /\ req[p].user # None /\ req[p].client # None
  BY DEF IInv, TypeOK, issueTokens
<1>2. req[p].user \in User /\ req[p].client \in Client /\ req[p].late \in BOOLEAN
  BY <1>1 DEF Req
<1>3. cl.exp \in Nat /\ cl.exp = now + TTL[req[p].client]
  BY <1>2, TimesAssumption DEF IInv, TypeOK
<1>4. cl \in Claims
  BY <1>1, <1>2, <1>3 DEF Claims, Req
<1>5. Fits(cl.uv, uv[cl.user], req[p].late, cl.blind)
  BY <1>1 DEF IInv, ReqVersions
<1>6. cl.exp <= now + TTL[cl.client]
  BY <1>3
<1>7. /\ Hand(t, cl) /\ outdated' = IF req[p].late THEN outdated \cup {t} ELSE outdated
      /\ req' = [req EXCEPT ![p] = Idle]
      /\ UNCHANGED <<blacklist, uv, barred, now, banned>>
  BY DEF issueTokens, Finish
<1> HIDE DEF cl
<1> QED
  BY <1>2, <1>4, <1>5, <1>6, <1>7, IdleReq, HandStep

\* The console's login hands out a token whose version was never read.
LEMMA AdminLoginStep ==
  ASSUME IInv, NEW u \in User, NEW t \in Token, AdminLogin(u, t)
  PROVE  IInv'
<1> DEFINE cl == [user |-> u, client |-> AdminConsole, uv |-> 0,
                  exp |-> now + DefaultTTL, blind |-> TRUE]
<1>1. cl \in Claims /\ cl.exp <= now + TTL[cl.client]
  BY TimesAssumption DEF IInv, TypeOK, Claims
<1>2. Fits(cl.uv, uv[cl.user], FALSE, cl.blind)
  BY DEF IInv, TypeOK, Fits
<1>3. /\ Hand(t, cl) /\ outdated' = outdated /\ req' = req
      /\ UNCHANGED <<blacklist, uv, barred, now, banned>>
  BY DEF AdminLogin
<1> HIDE DEF cl
<1>4. CASE Proc # {}
  <2>1. PICK p \in Proc : TRUE
    BY <1>4
  <2> QED
    BY <1>1, <1>2, <1>3, <2>1, IdleReq, HandStep
<1>5. CASE Proc = {}
  <2>1. /\ t \notin Issued /\ Issued' = Issued \cup {t}
        /\ token' = [k \in Issued \cup {t} |-> IF k = t THEN cl ELSE token[k]]
    BY <1>3 DEF Hand, Issued
  <2> QED
    BY <1>1, <1>2, <1>3, <1>5, <2>1
       DEF IInv, TypeOK, TokenVersions, ReqVersions, Horizons, Bans, Fits
<1> QED
  BY <1>4, <1>5

\* A bump makes every version of the user read so far too old at once.
LEMMA BumpStep ==
  ASSUME IInv, NEW p \in Proc, BumpUserVersion(p)
  PROVE  IInv'
<1> DEFINE u == req[p].user
           r == IF req[p].bar
                  THEN [pc |-> "bar", user |-> u, client |-> None, uv |-> 0,
                        blind |-> FALSE, bar |-> TRUE, late |-> FALSE]
                  ELSE Idle
<1>1. req[p] \in Req /\ req[p].pc = "bump" /\ u \in User
  BY DEF IInv, TypeOK, BumpUserVersion, Req
<1>2. /\ uv' = [uv EXCEPT ![u] = uv[u] + 1]
      /\ outdated' = outdated \cup TokensOf(u)
      /\ req' = [Overtaken(u) EXCEPT ![p] = r]
      /\ UNCHANGED <<token, blacklist, barred, now, banned>>
  BY DEF BumpUserVersion, AfterBump
<1>3. WellFormed(r) /\ r.pc # "sign"
  BY <1>1, IdleReq, NoneAssumption DEF WellFormed, Req, PC
<1> HIDE DEF r
<1>4. uv' \in [User -> Nat] /\ uv'[u] = uv[u] + 1 /\ \A w \in User : w # u => uv'[w] = uv[w]
  BY <1>1, <1>2 DEF IInv, TypeOK
<1>5. \A q \in Proc : WellFormed(req[q])
  BY DEF IInv, TypeOK, WellFormed
<1>6. \A q \in Proc : q # p =>
        /\ WellFormed(req'[q])
        /\ req'[q].pc = req[q].pc /\ req'[q].user = req[q].user
        /\ req[q].pc = "sign" =>
             /\ req'[q].uv = req[q].uv /\ req'[q].blind = req[q].blind
             /\ req'[q].late = IF req[q].user = u THEN TRUE ELSE req[q].late
  <2> SUFFICES ASSUME NEW q \in Proc, q # p
               PROVE  /\ WellFormed(req'[q])
                      /\ req'[q].pc = req[q].pc /\ req'[q].user = req[q].user
                      /\ req[q].pc = "sign" =>
                           /\ req'[q].uv = req[q].uv /\ req'[q].blind = req[q].blind
                           /\ req'[q].late = IF req[q].user = u THEN TRUE ELSE req[q].late
    OBVIOUS
  <2>1. req'[q] = IF req[q].pc = "sign" /\ req[q].user = u
                    THEN [pc |-> "sign", user |-> u, client |-> req[q].client, uv |-> req[q].uv,
                          blind |-> req[q].blind, bar |-> FALSE, late |-> TRUE]
                    ELSE req[q]
    BY <1>2 DEF Overtaken
  <2>2. CASE req[q].pc = "sign" /\ req[q].user = u
    BY <1>5, <2>1, <2>2 DEF WellFormed, Req, PC
  <2>3. CASE ~(req[q].pc = "sign" /\ req[q].user = u)
    BY <1>5, <2>1, <2>3
  <2> QED
    BY <2>2, <2>3
<1>7. req'[p] = r /\ req' = [q \in Proc |-> req'[q]]
  BY <1>2 DEF Overtaken
<1>8. TypeOK'
  <2>1. \A q \in Proc : WellFormed(req'[q])
    BY <1>3, <1>6, <1>7
  <2>2. req' \in [Proc -> Req]
    BY <1>7, <2>1 DEF WellFormed
  <2>3. Issued' = Issued /\ TokensOf(u) \subseteq Issued
    BY <1>2 DEF Issued, TokensOf
  <2> QED
    BY <1>2, <1>4, <2>1, <2>2, <2>3 DEF IInv, TypeOK, WellFormed
<1>9. TokenVersions'
  <2> SUFFICES ASSUME NEW t \in Issued
               PROVE  Fits(token'[t].uv, uv'[token'[t].user], t \in outdated', token'[t].blind)
    BY <1>2 DEF TokenVersions, Issued
  <2>1. /\ token[t] \in Claims /\ token[t].user \in User /\ token' = token
        /\ Fits(token[t].uv, uv[token[t].user], t \in outdated, token[t].blind)
    BY <1>2 DEF IInv, TypeOK, TokenVersions, Claims
  <2>2. t \in outdated' <=> t \in outdated \/ token[t].user = u
    BY <1>2 DEF TokensOf
  <2>3. uv[token[t].user] \in Nat /\ uv[u] \in Nat
    BY <1>1, <2>1 DEF IInv, TypeOK
  <2> QED
    BY <1>4, <2>1, <2>2, <2>3 DEF Fits
<1>10. ReqVersions'
  <2> SUFFICES ASSUME NEW q \in Proc, req'[q].pc = "sign"
               PROVE  Fits(req'[q].uv, uv'[req'[q].user], req'[q].late, req'[q].blind)
    BY DEF ReqVersions
  <2>1. q # p /\ req[q].pc = "sign"
    BY <1>3, <1>6, <1>7
  <2>2. /\ Fits(req[q].uv, uv[req[q].user], req[q].late, req[q].blind)
        /\ req[q].user \in User
    BY <1>5, <2>1 DEF IInv, ReqVersions, WellFormed, Req
  <2>3. uv[req[q].user] \in Nat /\ uv[u] \in Nat
    BY <1>1, <2>2 DEF IInv, TypeOK
  <2>4. /\ req'[q].user = req[q].user /\ req'[q].uv = req[q].uv
        /\ req'[q].blind = req[q].blind
    BY <1>6, <2>1
  <2>5. CASE req[q].user = u
    <3>1. req'[q].late = TRUE
      BY <1>6, <2>1, <2>5
    <3>2. req[q].uv \in Nat /\ req[q].uv < uv'[u] /\ req[q].uv <= uv'[u]
      BY <1>4, <2>2, <2>3, <2>5 DEF Fits
    <3> QED
      BY <2>4, <2>5, <3>1, <3>2 DEF Fits
  <2>6. CASE req[q].user # u
    <3>1. req'[q].late = req[q].late /\ uv'[req[q].user] = uv[req[q].user]
      BY <1>4, <1>6, <2>1, <2>2, <2>6
    <3> QED
      BY <2>2, <2>4, <3>1
  <2> QED
    BY <2>5, <2>6
<1>11. Horizons' /\ Bans'
  BY <1>2 DEF IInv, Horizons, Bans, Issued
<1> QED
  BY <1>8, <1>9, <1>10, <1>11 DEF IInv

\* A ban is set for the longest any covered token of the user can live.
LEMMA BarStep ==
  ASSUME IInv, NEW p \in Proc, BlacklistUserAccess(p)
  PROVE  IInv'
<1> DEFINE u == req[p].user
<1>1. /\ req[p] \in Req /\ u \in User
      /\ barred' = [barred EXCEPT ![u] = now + DefaultTTL]
      /\ banned' = banned \cup TokensOf(u)
      /\ req' = [req EXCEPT ![p] = Idle]
      /\ UNCHANGED <<token, blacklist, uv, now, outdated>>
  BY DEF IInv, TypeOK, BlacklistUserAccess, Finish, Req
<1>2. /\ now \in Nat /\ DefaultTTL \in Nat /\ Issued' = Issued
      /\ barred' \in [User -> Nat] /\ barred'[u] = now + DefaultTTL
      /\ \A w \in User : w # u => barred'[w] = barred[w]
  BY <1>1, TimesAssumption DEF IInv, TypeOK, Issued
<1>3. TypeOK'
  <2>1. req' \in [Proc -> Req]
    BY <1>1, IdleReq DEF IInv, TypeOK, WellFormed
  <2>2. \A q \in Proc : /\ req'[q].pc # "idle" => req'[q].user # None
                        /\ req'[q].pc = "sign" => req'[q].client # None
    BY <1>1, IdleReq DEF IInv, TypeOK, WellFormed
  <2> QED
    BY <1>1, <1>2, <2>1, <2>2 DEF IInv, TypeOK, TokensOf
<1>4. TokenVersions' /\ ReqVersions'
  BY <1>1, <1>2, IdleReq DEF IInv, TypeOK, TokenVersions, ReqVersions, Fits
<1>5. Horizons'
  BY <1>1, <1>2 DEF IInv, Horizons, TypeOK
<1>6. Bans'
  <2> SUFFICES ASSUME NEW t \in banned', TTL[token[t].client] <= DefaultTTL
               PROVE  token[t].exp <= barred'[token[t].user]
    BY <1>1 DEF Bans
  <2>1. t \in Issued /\ token[t] \in Claims /\ token[t].exp <= now + TTL[token[t].client]
    BY <1>1 DEF IInv, TypeOK, TokensOf, Horizons
  <2>2. TTL[token[t].client] \in Nat /\ token[t].exp \in Nat /\ token[t].user \in User
        /\ barred[token[t].user] \in Nat
    BY <2>1, TimesAssumption DEF Claims, IInv, TypeOK
  <2>3. CASE token[t].user = u
    BY <1>2, <2>1, <2>2, <2>3
  <2>4. CASE token[t].user # u
    <3>1. t \in banned
      BY <1>1, <2>4 DEF TokensOf
    <3> QED
      BY <1>2, <2>2, <2>4, <3>1 DEF IInv, Bans
  <2> QED
    BY <2>3, <2>4
<1> QED
  BY <1>3, <1>4, <1>5, <1>6 DEF IInv

\* Time passes; nothing reaches further into the future than it did.
LEMMA TickStep == ASSUME IInv, Tick PROVE IInv'
<1>1. now' = now + 1 /\ now \in Nat
      /\ UNCHANGED <<token, blacklist, uv, barred, req, outdated, banned>>
  BY DEF Tick, IInv, TypeOK
<1>2. TypeOK' /\ TokenVersions' /\ ReqVersions' /\ Bans'
  BY <1>1 DEF IInv, TypeOK, TokenVersions, ReqVersions, Bans, Fits, Issued
<1>3. Horizons'
  <2>1. \A t \in Issued : token[t].exp \in Nat /\ TTL[token[t].client] \in Nat
    BY TimesAssumption DEF IInv, TypeOK, Claims
  <2>2. \A u \in User : barred[u] \in Nat
    BY DEF IInv, TypeOK
  <2> QED
    BY <1>1, <2>1, <2>2, TimesAssumption DEF IInv, Horizons, Issued
<1> QED
  BY <1>2, <1>3 DEF IInv

\* Every step of a request preserves the invariant.
LEMMA ProcStep == ASSUME IInv, NEW p \in Proc, Step(p) PROVE IInv'
<1> USE DEF IInv
<1>1. ASSUME NEW u \in User, NEW c \in Client \ {AdminConsole}, GetUserVersion(p, u, c)
      PROVE  IInv'
  <2>1. ASSUME NEW v, NEW b \in BOOLEAN, Start(p, Signing(u, c, v, b)),
               v = IF b THEN 0 ELSE uv[u],
               UNCHANGED <<token, blacklist, uv, barred, now, outdated, banned>>
        PROVE  IInv'
    <3> DEFINE r == Signing(u, c, v, b)
    <3>1. v \in Nat /\ v <= uv[u] /\ (~b => v = uv[u])
      BY <2>1 DEF TypeOK
    <3>2. WellFormed(r) /\ Fits(r.uv, uv[r.user], r.late, r.blind)
      BY <3>1, NoneAssumption DEF WellFormed, Signing, Req, PC, Fits
    <3>3. req' = [req EXCEPT ![p] = r]
      BY <2>1 DEF Start
    <3> HIDE DEF r
    <3> QED
      BY <2>1, <3>2, <3>3, RequestStep
  <2>2. UNCHANGED <<token, blacklist, uv, barred, now, outdated, banned>>
    BY <1>1 DEF GetUserVersion
  <2>3. CASE Start(p, Signing(u, c, uv[u], FALSE))
    BY <2>1, <2>2, <2>3
  <2>4. CASE Start(p, Signing(u, c, 0, TRUE))
    BY <2>1, <2>2, <2>4
  <2> QED
    BY <1>1, <2>3, <2>4 DEF GetUserVersion
<1>2. ASSUME NEW u \in User, NEW b \in BOOLEAN, Start(p, Bumping(u, b)),
             UNCHANGED <<token, blacklist, uv, barred, now, outdated, banned>>
      PROVE  IInv'
  BY <1>2, BumpingReq, RequestStep DEF Start
<1>3. ASSUME NEW u \in User, ForceLogout(p, u) \/ FinishSAMLSLO(p, u) PROVE IInv'
  BY <1>2, <1>3 DEF ForceLogout, FinishSAMLSLO
<1>4. ASSUME NEW t \in Issued, SetPassword(p, t) PROVE IInv'
  <2>1. token[t].user \in User
    BY DEF TypeOK, Claims
  <2> QED
    BY <1>2, <1>4, <2>1 DEF SetPassword
<1>5. CASE BumpFails(p)
  <2> DEFINE r == IF req[p].bar
                    THEN [pc |-> "bar", user |-> req[p].user, client |-> None, uv |-> 0,
                          blind |-> FALSE, bar |-> TRUE, late |-> FALSE]
                    ELSE Idle
  <2>1. req[p] \in Req /\ req[p].user # None /\ req' = [req EXCEPT ![p] = r]
    BY <1>5 DEF TypeOK, BumpFails, AfterBump
  <2>2. WellFormed(r) /\ r.pc # "sign"
    BY <2>1, IdleReq DEF WellFormed, Req, PC
  <2> HIDE DEF r
  <2> QED
    BY <1>5, <2>1, <2>2, RequestStep DEF BumpFails
<1>6. CASE Abort(p)
  BY <1>6, IdleReq, RequestStep DEF Abort, Finish
<1> QED
  BY <1>1, <1>3, <1>4, <1>5, <1>6, IssueStep, BumpStep, BarStep DEF Step

\* So every step does.
LEMMA InvariantStep ==
  ASSUME IInv, [Next]_vars
  PROVE  IInv'
<1>1. CASE UNCHANGED vars
  BY <1>1, BlacklistStep DEF vars, IInv, TypeOK
<1>2. ASSUME NEW t \in Issued, Logout(t) \/ RevokeToken(t) PROVE IInv'
  BY <1>2, BlacklistStep DEF Logout, RevokeToken, IInv, TypeOK
<1>3. CASE Next
  BY <1>2, <1>3, ProcStep, AdminLoginStep, TickStep DEF Next
<1> QED
  BY <1>1, <1>3

\* The inductive invariant holds throughout.
THEOREM Invariance == Spec => []IInv
<1>1. IInv /\ [Next]_vars => IInv'
  BY InvariantStep
<1> QED
  BY InitIInv, <1>1, PTL DEF Spec

\* Claims, counters and requests keep their types.
THEOREM TypeCorrect == Spec => []TypeOK
BY Invariance, PTL DEF IInv

\* A bump ends exactly the tokens whose version was read before it.
THEOREM BumpDecidesHolds == Spec => []BumpDecides
BY Invariance, Consequences, PTL

\* A forced logout ends the covered tokens even if its bump is lost.
THEOREM BanOutlivesTokensHolds == Spec => []BanOutlivesTokens
BY Invariance, Consequences, PTL

-----------------------------------------------------------------------------
(* What no step takes back *)

\* Tokens stay as they were signed; time, versions and the jti blacklist only
\* grow.
Onward ==
  /\ Issued \subseteq Issued' /\ \A t \in Issued : token'[t] = token[t]
  /\ now <= now' /\ now' \in Nat
  /\ blacklist \subseteq blacklist' /\ banned \subseteq banned'
  /\ \A u \in User : uv[u] <= uv'[u]

\* Handing out a token changes no other.
LEMMA HandGoesOn ==
  ASSUME NEW t, NEW claims, Hand(t, claims)
  PROVE  Issued \subseteq Issued' /\ \A k \in Issued : token'[k] = token[k]
BY DEF Hand, Issued

\* No step takes back what was signed, bumped or blacklisted.
LEMMA StepGoesOn ==
  ASSUME TypeOK, [Next]_vars
  PROVE  Onward
<1>0. /\ now \in Nat /\ \A u \in User : uv[u] \in Nat /\ uv[u] + 1 \in Nat
  BY DEF TypeOK
<1>1. ASSUME NEW p \in Proc, NEW t \in Token, issueTokens(p, t) PROVE Onward
  BY <1>0, <1>1, HandGoesOn DEF issueTokens, Onward
<1>2. ASSUME NEW u \in User, NEW t \in Token, AdminLogin(u, t) PROVE Onward
  BY <1>0, <1>2, HandGoesOn DEF AdminLogin, Onward
<1>3. ASSUME token' = token, now' = now, uv' = uv, blacklist \subseteq blacklist',
             banned \subseteq banned'
      PROVE  Onward
  BY <1>0, <1>3 DEF Onward, Issued
<1>4. ASSUME NEW p \in Proc, BumpUserVersion(p) PROVE Onward
  <2>1. \A u \in User : uv[u] <= uv'[u]
    BY <1>0, <1>4 DEF BumpUserVersion, TypeOK
  <2> QED
    BY <1>0, <1>4, <2>1 DEF BumpUserVersion, Onward, Issued
<1>5. ASSUME NEW p \in Proc, Step(p), ~BumpUserVersion(p), ~\E t \in Token : issueTokens(p, t)
      PROVE  Onward
  BY <1>3, <1>5 DEF Step, GetUserVersion, ForceLogout, FinishSAMLSLO, SetPassword, BumpFails,
     BlacklistUserAccess, Abort
<1>6. ASSUME NEW t \in Issued, Logout(t) \/ RevokeToken(t) PROVE Onward
  BY <1>3, <1>6 DEF Logout, RevokeToken
<1>7. CASE Tick
  BY <1>0, <1>7 DEF Tick, Onward, Issued
<1>8. CASE UNCHANGED vars
  BY <1>3, <1>8 DEF vars
<1> QED
  BY <1>1, <1>2, <1>4, <1>5, <1>6, <1>7, <1>8 DEF Next

\* Introspect and UserAuth: what is refused is refused for good, but for the
\* tokens a ban does not cover.
THEOREM RefusalIsFinalHolds == Spec => RefusalIsFinal
<1> DEFINE Refusal ==
      \A t \in Issued :
        /\ ~Introspect(t, Keys)
        /\ \/ ~IsUserAccessBlacklisted(token[t].user)
           \/ t \in banned /\ TTL[token[t].client] <= DefaultTTL
        => ~Introspect(t, Keys)'
<1>0. IInv' => BanOutlivesTokens'
  BY Consequences, PTL
<1>1. IInv /\ [Next]_vars => Refusal
  <2> SUFFICES ASSUME IInv, [Next]_vars, NEW t \in Issued, ~Introspect(t, Keys),
                      \/ ~IsUserAccessBlacklisted(token[t].user)
                      \/ t \in banned /\ TTL[token[t].client] <= DefaultTTL
               PROVE  ~Introspect(t, Keys)'
    OBVIOUS
  <2>1. Onward /\ BanOutlivesTokens'
    BY <1>0, StepGoesOn, InvariantStep DEF IInv
  <2>2. /\ now \in Nat /\ token[t].exp \in Nat /\ token[t].uv \in Nat /\ token[t].user \in User
        /\ token'[t] = token[t] /\ uv[token[t].user] \in Nat /\ uv'[token[t].user] \in Nat
    BY <2>1, InvariantStep DEF IInv, TypeOK, Claims, Onward
  <2>3. CASE t \in banned /\ TTL[token[t].client] <= DefaultTTL
    BY <2>1, <2>2, <2>3 DEF Onward, BanOutlivesTokens, Introspect, Keys
  <2>4. CASE ~IsUserAccessBlacklisted(token[t].user)
    <3>1. ~Unexpired(t) \/ t \in blacklist \/ Stale(t)
      BY <2>4 DEF Introspect, Keys
    <3>2. ~Unexpired(t)' \/ t \in blacklist' \/ Stale(t)'
      BY <2>1, <2>2, <3>1 DEF Onward, Unexpired, Stale
    <3> QED
      BY <3>2 DEF Introspect, Keys
  <2> QED
    BY <2>3, <2>4
<1> QED
  BY Invariance, <1>1, PTL DEF Spec, RefusalIsFinal
=============================================================================
