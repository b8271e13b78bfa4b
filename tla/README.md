# A TLA+ model of the unified account center

The program is one Go server (Gin, GORM on MySQL, Redis) that logs users of
several applications in, issues tokens, binds identities, and lets
administrators manage all of it. This directory holds TLA+ modules of its parts,
the TLC configurations that check them, and TLAPS proofs. Paths below are under
`src/`; `PROJECT.json` maps every definition to the lines it stands for.

    tlc -workers 2 -config MCRefreshTokens.cfg MCRefreshTokens
    tlapm RefreshTokensProofs.tla

## 1. Inventory

Requests are served concurrently by goroutines. There is no lock over a request:
each one is a sequence of MySQL statements and Redis commands, and what two
requests can do to each other is decided by what a single statement or command
does atomically. Few handlers use a transaction (merging does).

| Part (source) | State | Operations | Correct when |
|---|---|---|---|
| Refresh tokens (`internal/service/auth_service.go`, `hosted.go`, `repository/impl.go`) | `refresh_tokens`, `users.status`, `apps.status` | log in, rotate, reuse, log out, revoke one or all, force out | a login has one exchangeable token; it never changes hands; revoked means over |
| Access tokens (`pkg/jwtutil`, `pkg/redisx`, `middleware`) | JWTs; Redis: jti blacklist, user version, user blacklist | issue, introspect, bump, blacklist | an invalidated token is refused until it expires |
| One-time codes (`authenticator/otp.go`, `tenant.go`) | `auth_challenges`; Redis rate counters | send, enter | sends, guesses and uses are bounded |
| Webhook bus (`pkg/webhook/bus.go`, `admin_webhook.go`) | `webhook_endpoints`, `webhook_deliveries`; goroutines, ticker | emit, test, replay, retry, give up | at most max_attempts POSTs, recorded as they were; nothing is forgotten |
| Passwords and failure limits (`authenticator/password.go`, `risk.go`) | Redis failure counters and locks | verify, lock, clear | wrong passwords in a window are bounded; failures under a string lock it, and its lock is honoured |
| Credentials, MFA, step-up, passkeys (`mfa.go`, `stepup.go`, `webauthn.go`) | `user_credentials`, password history, Redis tickets | set up, enable, verify, step up | a backup code and a ticket serve once; history is kept |
| Users, identities, merging (`auth_service.go`, `merge.go`) | `users`, `identities` | register, bind, unbind, merge, anonymise | an identity has one user, a user keeps a way in |
| Invites, join requests (`invite.go`, `repository/p2.go`) | `invites`, `join_requests` | create, use, revoke, review | an invite admits max_uses users; an approval comes with the account |
| Hosted codes, OAuth state (`hosted.go`, `oauth_service.go`) | Redis one-time values | issue, exchange | each serves once, for its client |
| Signing keys (`jwtutil.go`, `admin_jwt.go`, `app/app.go`) | current and previous key, six files | rotate, retire, restart | a token is verifiable while it lives |
| Applications (`admin_ops.go`) | `apps` | update, rotate secret | a rotated secret stays rotated |
| Tenants, roles, IdPs (`tenant.go`, `rbac.go`, `sso.go`, `saml.go`) | their tables | quotas, capabilities, SSO | quotas hold; a role grants what it lists |
| OAuth registry, SMS channel (`admin_ops.go`, `admin_p3.go`, `adapter/sms/hot.go`) | a row each, an object in memory each | upsert, swap, restore | memory follows the row |
| Audit, exports, notifications | append-only rows | record, list | not modelled: nothing else reads them |
| Go SDK's JWKS cache (`sdk/go/uac/jwks_middleware.go`) | keys, fetch time | look up, refresh | it comes to hold the server's keys and no others |
| HTTP layer, configuration, adapters, cryptography, web pages | none of interest | decode, call, encode | not modelled, see section 6 |

How they interact. Every login path (password, code, OAuth, SAML, passkey,
second factor) ends in `issueTokens`, which reads the user version from Redis,
signs a JWT and inserts a refresh row, in this order. Every way of ending
sessions first sweeps `refresh_tokens` with one UPDATE and then, some of them,
bumps the version and blacklists the user. Services call `Emit` of the webhook
bus, which inserts a row per endpoint and starts a goroutine per row.
`UserAuth` and `AdminAuth` stand before every handler that acts for a user or an
administrator and read what those wrote.

What is hard: a row read and then written by separate statements while another
request does the same (rotation, one-time codes, whole-row saves, markFail);
sweeps that see only rows that exist; errors that are dropped, so that a step
may or may not have happened; counters read before they are raised; goroutines
that a restart loses while their rows stay. `PROJECT.json` lists each hazard at
its line with the properties about it, or the reason why there is none.

## 2. Plan

In the order of what most users depend on. All but the last item are in place.

1. `RefreshTokens` with the abstract `SessionChain`, and `RefreshSweeps`. Proved.
2. `AccessTokens`. Proved.
3. `OtpChallenge`. Proved.
4. `WebhookBus`, proved; its liveness model-checked.
5. `Identities` with the abstract `IdentityDirectory`. Proved.
6. `Invites`. Proved.
7. `Credentials`: password, second factor, backup codes and passkey over
   whole-row saves. Proved.
8. `LoginState`: failure counters, locks and one-time values in Redis. Proved.
9. `JwtKeys` with files and crashes, proved; `JwksCache`, the relying party, with
   liveness, model-checked.
10. `Applications` and `Providers`, run together as `MCGovernance`. Proved.
11. What steps never do: `RefusalIsFinal`, `SettledRests`; and what a sweep of
    sessions achieves: `SweepsExact`. Proved.
12. To model: the password history (`recordPasswordHistory`), role bindings. To
    prove: a delivery that is not `muddled` as a refinement of a queue of its own.

One run per module with two processes and the fewest values that let two
requests meet on one row; violation runs for documented promises the code
does not keep. The modules that use the same row (`RefreshTokens` and
`AccessTokens` both follow `ForceLogout`) are kept apart where no property spans
them; a composition of 1 and 2 is worth it only if a property of both is found.

## 3. Modules

Each request is a process `p \in Proc`; `req[p]` is its local state and
`req[p].pc` the database or Redis call it is about to make. An action is the code
between two such calls that another request could observe: a handler that makes
one observable call is one action, and a handler that makes several has an
action for each, named after the function that makes the call. A request that is
refused before it changes anything is no action. Every request may end where it
stands (`Abort`, or an action whose name says what failed): a dropped
connection cancels the request's context, MySQL may fail, the server may crash.

### RefreshTokens, SessionChain, RefreshSweeps

`refresh` and `live` are the rows and `revoked_at IS NULL`; `status` and
`activeApp` the columns the handlers check. `Login` and `resolveUser`, or
`MFAComplete`, or `PasskeyLoginFinish`, lead to `issueTokens`. A refresh is
`RefreshFind` (or `RefreshReuse`), `RefreshCheckUser`, `ConsumeActive`,
`issueTokens`. Handlers that sweep hold their scope in `req` until
`RevokeAllByUser` runs the UPDATE; `RotateSecret` has a sweep of its own.
`UpdateProfile` reads the whole user row and `SaveUser` writes it back, status
included. Expiry only removes steps and is left out.

`SessionChain` is what rotation promises of a login: an open chain has one
exchangeable token, a rotating one none, and a closed one never opens again.
`RefreshTokens` implements it: the phase of a chain is read off its rows and
the requests that have consumed a row and not yet inserted the next.

`RefreshSweeps` adds two histories: `swept`, the rows in the scope of the sweeps of
each kind, and `missed`, the logins that were between `ConsumeActive` and
`Refresh.Create` when the last sweep covering them ran. `ReuseRevokesFamily` states
what the sweep of a reused token is said to achieve, which it does not, and
`SweepsExact` what every sweep does achieve.

### AccessTokens

`token` holds the claims of issued JWTs, `blacklist`, `uv` and `barred` are the
Redis keys, `now` the clock. `GetUserVersion` and `issueTokens` are the two ends
of issuing; `AdminLogin` signs without a version. `ForceLogout` goes on with
`BumpUserVersion` or `BumpFails` and then `BlacklistUserAccess`;
`SetPassword` and `FinishSAMLSLO` bump and stop. `Introspect(t, answered)` is the
common body of Introspect and UserAuth where the reads in `answered` did not
fail. `outdated` and `banned` are histories.

### OtpChallenge

A request passes the gates in `Gates`, in order, each an atomic
increment-and-compare in Redis (`Allow`), then inserts the row (`Create`) and
sends (`SendOTP`). The code's gates (tenant by day, identity by hour and day,
network by hour and day, resend lock) differ in their limit, in whether they
count per identity, and in what they do when Redis fails: `PerIdentity`,
`FailOpen` and `Limit` are constants. Entering a code reads the row (`RightCode`,
`WrongCode`) and then writes it (`MarkConsumed`, `IncrementTry`).

### WebhookBus

`delivery` are the rows, `worker` the goroutines, `due` what is left of the list
the current tick read. `deliver` is `PostOK` or `PostFails` and then `MarkSuccess`
or `markFailRead`, `markFailWrite`; a tick is `flushRetries` and a `Relaunch` or
`GiveUp` per row. Relaunching does not change the row, so the next tick finds it
again: attempts of a row overlap, and `muddled` remembers the rows where they
did, or where a write was lost. `Restart` loses goroutines and the list.

### Identities, IdentityDirectory

`row` is the table `identities`, a deleted row being one without a user; `users`
are the user_ids, `merging` the merge tokens in Redis. `resolveUser`,
`ReviewJoinRequest` and `AdminCreateUser` (which `ImportUsers` calls) insert the
user and leave its identities to `CreateIdentity`, one at a time; so does `Bind`.
`Unbind` counts, `DeleteIdentity` deletes. `MergeStart` draws a token,
`MergeConfirm` or `AdminMergeUsers` moves all rows in one transaction.
`AnonymizeUser` lists rows and `SaveAnonymous` saves each of them whole: the
saved row has the user it was read with, and GORM's `Save` inserts a row that has
been deleted. `enrolled` and `raced` are histories.

`IdentityDirectory` is what binding promises: an identity is free or has one
owner, and only a merge takes it from one to another, with the rest of the
owner's. `ownerOf` reads the owner off the rows.

### Invites

One invite, the join requests, and the requests that register or review:
`Login`, `resolveUser`, then `createJoinRequest` or `CreateUser`,
`CreateIdentity` and, on an invite, `Consume`; `ReviewJoinRequest`, then
`CreateUser`, `CreateIdentity` and `SaveReview`, or `SaveReview` alone to reject.
`taken` is what the table `identities` says of an identity, and `Rebind` all that
`Identities` may do to it meanwhile. `admitted` and `unpaid` count, as histories,
the users the invite admitted and those whose request failed before it was
consumed.

### Credentials

`row` is the user's row of `user_credentials`, `passkey` whether the passkey's row is
there. A handler that reads the row, changes its copy and saves all of it holds
the copy in `req` until `SaveRow` (or `SaveFails`): `UpsertPassword`, `MFASetup`,
`MFAEnable`, `MFADisable`, `verifyMFACode` with a backup code, and `MergeInherit`,
by which a merge gives the user the credentials of another. `AdminResetMFA` does
what `MFADisable` does; `MergeAway` loses the row to a merge. A login with the passkey is
`ValidateLogin`, `FindByCredentialID`, `UpdatePasskey`, and the last inserts the row
again if `DeletePasskey` came in between. `stale` counts the saves of a copy that
was out of date, `told` is what the answers have told the user.

### LoginState

One identity and its user. `fails` is the counter of wrong passwords, which
`PasswordAuth.Verify` keeps under the normalised identity. `risk` and `locked`, the
risk counters and the locks, are kept under the string the client sent, one of the
`Spelling`s that are normalised to the identity, or under the `UserId`
(`MFAComplete`, `PasskeyLoginFinish`): `Key` has them all, and each has a counter and
a lock of its own. `value` are the
one-time values, of four kinds that differ in how they are taken. A login is
`Login(p, k)` (which reads the lock of the string `k` as it is), `failCountAtLeast`, then
`WrongPassword` and `Fail`, or
`RightPassword` and `Reset`, or, by a method without a password, `OtherMethod`; a
failure goes on with `noteLoginFailure` and `SetLock` under `k`, a
success with `clearLoginFailures`, which deletes the lock of `k`. A second factor or a
passkey (`SecondFactor`) goes on the same way under the user_id. `StepUp`, and with it `Bind` and `MergeStart`, verify
a password without the lock and without noting a failure, so `LockStopsGuesses` is
about logins. `IssueToken`, `createMFAPending`, `PasskeyRegisterBegin`,
`PasskeyLoginBegin`, `IssueHostedCode` and `Start` write values; `GetDelJSON` takes one
with GETDEL, `GetThenDel` is its fallback, `ExchangeToken` and `Del` the two commands
for an authorisation code, and `Spoil` the DEL of the fallback when the value turns
out not to be the caller's.

### JwtKeys, JwksCache

`cur` and `prev` are the two keys in memory, `files` the three key files and their kid
files, 0 for one that is missing or unreadable. `RotateRSA` and `RetireJWTPrevious` change memory,
`SnapshotKeys` reads it back for the files, and `WriteFile` or `WriteFileFails` goes
through them in the code's order; `Crash` may come between any two, and may leave
the file being written half written. `Start` loads what there is, generates a key
where there is none, and does not start where the two keys have one kid
(`SetPreviousRSA`). The first start finds no key, or only a previous one that the
operator provides; `previous` is `jwt.previous_kid`, which names a previous key without
a kid file (`OldKid`). A kid is a number `k` that stands for the name `k % NameCount` with
`k \div NameCount` blanks about it: `RotateRSA` stores and writes it as it is, and a
start reads it back without the blanks (`Trim`); `-k` is `k` with "-prev" behind it.
`disturbed` remembers, until the next start, that requests overlapped, a file could not
be written, or a kid had blanks about it; nothing is claimed of the files after that.
`taken` remembers that the last rotation was to a kid that the files, or
`jwt.previous_kid`, still have for a previous key: until its last file is written
such a rotation, when it is cut off, may leave files the server refuses
(`StartsAgain` excepts it).

`JwksCache` adds the Go SDK: `keyFor` asks for the JWKS when the cache is empty, old
(`CacheTTL`), or has no such kid, and `refresh` stores the answer, later.

### Applications, Providers

`row` holds a tenant and its applications, each its status and one number (the
quota, or the number of the secret). `asked` numbers the changes asked for, a new
secret being named by its number. `UpdateTenant`, `UpsertEnterpriseIdP`, `UpdateApp`
and `RotateSecret` read a row into `edit`; `Save` writes all of it back.
`assertTenantAppQuota`, `CountAppsByTenant` and `CreateApp` are the three calls of
creating an application. `told` is what the answers reported, `crossed` the rows
saved from an outdated copy, `peak` the highest quota there was.

`Providers` has two pairs of a row and an object in memory. `UpsertOAuthProvider`
reads, `WriteProvider` writes the row and `UpsertOrRemove` the registry; `StartServer`
fills the registry from the file and then from the table, and `StopServer` ends
the process or crashes it. Each of the two tables may turn out to be unreadable at
the start (`loaded`, `restored`): the file then speaks for the table, and no one is
told. `UpdateSMSChannel` swaps the
sender and `SaveSetting` records it; `SwapPanics` is the swap to another type. A
provider first created as disabled is enabled, because GORM leaves out a false
with `default:true`, and one that is disabled but declared in the file is back
after a restart: both are as in the code.

`MCGovernance` runs one or the other: they share no state.

## 4. Runs

| Run | Instance | What it shows |
|---|---|---|
| `refresh` | 1 user, 2 apps, 3 tokens, 2 requests | `NoDoubleLive`: no interleaving of any two handlers leaves a login with two exchangeable tokens. `LineageIsolated`: a token stays with its user and client. `ImplementsChain`: the table implements `SessionChain`. |
| `access` | 1 user, 3 apps (the console, one with the configured TTL, one with a longer one), 2 tokens, 2 requests, 2 bumps, 1 unit of time | `BumpDecides`: a bump ends exactly the tokens whose version was read before it. `BanOutlivesTokens`: the user blacklist covers for a lost bump, where the app's TTL is not above the configured one. |
| `otp` | 2 identities, 2 codes, 2 requests, a shared gate that fails open and one per identity that does not, 2 tries, 1 window end, 1 failure | `SendsWithinLimit`, `GuessesBounded`, `ReplayBounded`: what concurrency and failures can add to the limits, and no more. |
| `webhook` | 1 endpoint, 2 goroutines, 2 rows, 2 attempts, a batch of 1, 1 fault | `SerialDeliveriesExact`: a row whose attempts did not overlap is counted, limited and settled exactly, and none is left pending but by a restart or a dropped write. `RetriesResume`: a row waiting for its retry is taken up or given up, restarts notwithstanding. |
| `identities` | 2 users, 2 identities, 3 rows, 2 requests, 1 merge token | `UnbindKeepsOne`: a user keeps a way in unless two requests took theirs at the same time. `ImplementsDirectory`: identities change hands in merges only, stale saves of an anonymisation included. |
| `invites` | 2 identities, 1 join request, 2 requests, an invite of one use, 4 users | `InviteBounded`: what concurrency and failures add to max_uses, and no more. `ApprovedIsRegistered`: an approved request's identity has been registered. |
| `credentials` | 1 password, 2 secrets, 2 backup codes, 2 requests, 1 outdated or failed save | `EnabledIsProven`: a second factor that is on was proved by the user's app, and its codes were given out for it, whatever saves overlap. `CodesBounded`: a backup code is accepted once and once more per outdated or failed save. `ToldStands`: without outdated saves the row is what the user was told. `DeletedStaysDeleted`: a deleted passkey comes back only with a use in flight. |
| `loginstate` | 2 requests, 2 spellings of one identity and its user_id, 1 value written twice, limits of 1, a command of a kind that fails; behaviours with passwords under a spelling, or with values and failures under the user_id | `GuessesBounded`: what requests in flight and failing commands add to the limit, however the identity is spelled. `LockFollows`, `LockStopsGuesses`: the same for the lock of each string, which covers that string only. `TakenOnce`, `ExchangesBounded`: what they add to a single use. |
| `jwtkeys` | 1 administrative request, 3 keys, 3 names of a kid, one of them also with a blank about it, and a kid of a blank alone, with or without a `jwt.previous_kid` and a provided previous key, 1 request of the relying party | `TokenStands`: a token is verified until its key is retired or rotated out twice, restarts included. `QuietFilesMatch`, `StartsAgain`: what the files hold when a rotation is done, and after a crash inside one; their exceptions are those of section 3. `SdkCatchesUp`: the relying party comes to hold the server's keys and no others. |
| `governance` | 1 tenant with a quota of 0 or 1, 3 applications, 2 administrators, 2 changes; 2 operators, 2 versions of a provider, every configuration file (3 senders, MQ on or off, the provider declared or not), either table unreadable at any start | `AnswersStand`: rows hold what the answers reported, unless two saves crossed. `QuotaBounded`: one application per concurrent request beyond the quota, and beyond a tenant's being stopped. `RegistryFollows`, `SmsAgrees`: memory follows the row, once it could be read or was written. |
| `reuse_sweep` | 1 user, 1 app, 2 tokens, 2 requests | Violation: a rotation in flight survives the sweep that reuse triggers, though the family is said to be revoked. |
| `sms_swap` | as `governance` | Violation: a switch between mock and mq panics. |

The findings in `PROJECT.json` quote the sentence each violation run contradicts.
The slack of a passing property is as real as the property: two requests that
enter one right code together are both accepted (`ReplayBounded`), two unbindings
that both counted two identities leave none (`UnbindKeepsOne`), two exchanges of one
authorisation code succeed (`ExchangesBounded`), an `UpdateApp` takes back a
`RotateSecret` it overlaps (`AnswersStand`).

Why the bounds are enough to meet the hazards. Every hazard here is between two
requests, so there are two processes; a third would repeat one of them. Three
refresh tokens are a login, its successor, and either a second successor or a
second login, which is what `NoDoubleLive` tells apart. Two versions separate a
token read before a bump, between two, and after both. Two codes for a key with
limit 1 exceed the limit unless the window ended; two tries allow the last try
to be contended. Two rows against a batch of one let one row wait behind the
other; two attempts let a row retry once and die. Three identity rows are two to
unbind and one to come back; two users are the two sides of a merge. An invite
of one use is contended as soon as two logins validate it, and with four users
it fails as often as it admits. Counters are capped where
behaviour beyond the cap is the same (`Up`: a gate that refuses goes on
refusing; `MaxPosts`: one beyond the limit). `MaxVersion`, `MaxTime`,
`MaxWindows`, `MaxFailures`, `MaxRows`, `MaxFaults`, `MaxTokens`, `MaxAdmitted`, `MaxLost`, `MaxRisk`,
`MaxPuts`, `MaxKey`, `MaxKid`, `FailAgain`, `MaxLimit` and `MaxEdits` are the bounds on exploration; the
proofs hold for every value of them.

Two TOTP secrets are the one set up and the one it replaces; two
backup codes are one that was used and one that was not. A value written twice
is one that is written again while a request still holds it. Two spellings and a user_id are enough for failures and locks
that do not meet; the constraint `Apart` of `MCLoginState` ends a behaviour in which
both something was counted or locked under a spelling and a value was written or
something counted under the user_id: the two sides share no variable but a process's
request. The proofs have no such constraint. Three keys are two
rotations, after which the first key is gone, and with three names beside the empty one
there is a rotation back to the kid before
and one to `jwt.previous_kid`. After a disturbance no further one is
explored (`FailAgain`), since nothing is claimed until the next start. A quota of one and three
applications leave room to exceed it, and two versions of a provider tell the
last row from the one before. In `jwtkeys` administrative requests do not
overlap, since nothing is claimed when they do; the proofs have any number.

Symmetry permutes tokens, processes, clients, identities and challenges where
no constant distinguishes them, and is not used in the liveness runs.

Fairness. `WebhookBus` and `JwksCache` have fair specifications. A goroutine runs to its
end because its POST has a time-out; a backoff ends because clocks run; the
ticker fires because it is a `time.Ticker` in a goroutine that only `Stop` ends,
and it works through its list without waiting for the deliveries. No endpoint is
assumed to answer, nothing is assumed of the console, and restarts and failed
writes are finitely many. In `JwksCache` time passes (`CacheTTL`), an
answer is stored (`refresh`: the HTTP client has a time-out), and tokens signed
with the current key keep coming (`Traffic`), without which the code asks for
nothing; the server is not assumed to be up, `SdkCatchesUp` says what follows
when it is. The other modules have no fairness: a request may
stop at any call, and nothing in the code takes it up again.
`CHECK_DEADLOCK FALSE` is set for `webhook`, where the bounded number of rows and a
deleted endpoint leave nothing to do, and for `jwtkeys`, where a server that cannot
read its key file does not start.

## 5. Proofs

All are for any sets of users, clients, tokens, identities, challenges and
processes, and any bounds. The only assumptions are the `ASSUME`s of the
modules, which TLC evaluates in the runs: `None` is none of the values, limits
are positive, bounds are naturals, a user_id is no spelling of an identity
(`UserIdAssumption`), there is at least one name of a kid and `jwt.kid` is not empty
(`NameCountAssumption`, `ConfKidAssumption`), `Proc` (or `Admin`, `App`) is finite where it is
counted, somebody administers (`Admin` is not empty), and the count of POSTs goes
at least one beyond every endpoint's `max_attempts` (`PostsAssumption`), so that
the cap is never mistaken for the limit.

`RefreshTokensProofs`. The inductive invariant is `TypeOK`, `NoDoubleLive` and
`LineageIsolated` with `Matches`: what a refresh has read of its row, its user
and client, is what the row says, since a row never changes but for
`revoked_at`. `NoDoubleLive` is inductive as stated because it speaks of the
requests between `ConsumeActive` and `issueTokens` as well as of rows: the winner
of the compare-and-set takes the only head of the chain and adds the only next
one. `Refinement` then maps each step to a step of `SessionChain` or a stutter.
`SweepsExactHolds` reuses it: a chain of `SessionChain` that is closed stays closed
(`ClosedStays`), rows of a login share its user and client, so that a sweep covers
all of them (`ScopeOfLogin`), and a login that is swept while no rotation of it is in
flight is closed by the sweep (`SweepCloses`). So of the logins it covers a forced
logout, reuse handling, or any other caller of `RevokeAllByUser` lets none survive but
by a rotation in flight, which is what the run `reuse_sweep` shows; a login that is
being issued at the time is not yet one of them.

`AccessTokensProofs`. `BumpDecides` follows from `TokenVersions`: a token that
is outdated has a version below the current one, and one that is not, and whose
version was read, has exactly the current one. Tokens come from requests, so
`ReqVersions` says the same of requests that are signing. `BanOutlivesTokens`
needs `Horizons` (no expiry is further off than the time to live) to show that a
ban set now covers every token there is (`Bans`), and keeps covering it.
`RefusalIsFinal` is an action property: tokens, versions, the clock and the jti
blacklist only go on (`Onward`), and by the time a ban ends the tokens it covered
have expired. Tokens issued during a ban, or outliving it by their app's TTL, are refused and later
accepted, which is why the property excepts them.

`OtpChallengeProofs`. `Guesses` accounts for every wrong code: it is in the
row's count, lost, or in a request about to raise the count. `GuessesBounded`
follows as the try that finds room starts from a count below the limit.
`WithinBudget` generalises `SendsWithinLimit` to codes sent plus requests that
are past a gate: passing a gate uses one unit of its budget, and the requests
still before it are not counted. It needs that a gate occurs once in `Gates`.
`ReplayBounded` counts the requests that have read the row and not yet marked
it; none is added once it is marked.

`IdentitiesProofs`. `UnbindKeepsOne` is not inductive: a user may have a row that
is about to go. `Spare` says that a user of whom no two requests took an identity
has a row that no request is about to delete; `Unbind` adds a doomed row only
where another is left, and a merge brings the source's spare row along. `Known`
(rows and requests name users and rows that exist) keeps a new row from being
doomed at birth. `Refinement` rests on the unique index: whoever holds an
identity is the one the table shows, so inserting a row is a `Claim`, changing
one a `Release` or nothing, and moving rows an `Absorb`.

`InvitesProofs`. `Accounts` splits the users admitted into those whose request
is still on its way (`Owing`), those whose request failed, and the rest
(`Settled`). While a use is left, `Settled` is the count in the row; the
request that takes the last use leaves fewer than |Proc| others that hold the
invite, and no login is let in after it. `Reviews` carries the identity of a join
request to the point where the approval is saved.

`CredentialsProofs`. `EnabledIsProven` holds of a row only because it holds of every
copy on its way to it (`Copies`), whatever order they are saved in: that is what
whole-row saves have over saves of single columns, and the mutant `SaveColumns`
loses it. `Counted` says that a backup code still in the row was accepted
once less than `CodesBounded` allows, and `Fresh` that codes newly given out are in
one copy alone, so that saving it cannot bring back a used one. `Answers` relates what
a request will tell the user to its copy while no save is outdated, and
`Deletions` a passkey that is back to a request that was recording its use.

`LoginStateProofs`. `Attempts` counts the requests that have passed the counter and
those about to raise it: together with `guesses` they stay below the limit, the
requests and the lost counts. `Latecomers` does the same for the lock of each string, and `Uses`
for values: one that is live and was never read by a plain GET has been honoured
fewer times than it was written, and the requests that hold one that was are
counted with its uses.

`AdministrationProofs` has a part for each of four modules.

- `JwtKeys`: `Steps` says of the one request between two files (`Along`) which files
  hold the new keys already, and that the files match memory when there is none;
  `Names` keeps the two kids apart and the current one free of blanks, `Along` has it
  that the kid the files hold for a previous key is not the new one unless it was
  `taken`, and `Followed` says where the key of `token` is:
  current, previous, or in files that a start would load.
- `Providers`: `RegistryFollows` speaks of the moments when no request is between
  the row and the registry. What carries it there is `LastWritten`: such a request,
  if writes did not overlap, is alone and holds the row as it is. `SmsAgrees` needs
  `Swapped`: a request about to save a setting saves the sender that is in memory.
- `Applications`: `Copies` says of a request about to save that its copy differs from
  the row in the columns it changes only, or that the row will be `crossed`. `Counted`
  adds the requests past the count (`Passed`) to the applications there are: the
  count found room for one, so all of those past it are but one too many, however
  they interleave. `Limits` bounds the limit a request has read by the highest there
  was, and `Stops` counts the requests that passed the check before the tenant was
  stopped.
- `WebhookBus`: `Serial` says of a row that is not `muddled` that at most one
  goroutine has it (`OnlyOne`), what that goroutine has done of what is recorded
  (`Attempt`), and, when none has it, that it is no longer pending, POSTs and attempts
  agree and a row to be retried has attempts left (`Resting`). The ticker acts on such a row only where it
  is due and has no goroutine (`DueRests`), or muddles it. `Numbered` keeps the id of a
  new row new. `SettledRests` follows: a row that was accepted, or is recorded as
  delivered or dead, has no goroutine before its POST.

Three theorems are about properties no run checks, as they are stated of steps
(`RefusalIsFinal`, `SettledRests`) or of a history (`SweepsExact`); TLC found them to
hold on the instances of `access` and `webhook`, and on `reuse_sweep`'s.

Model-checked only: `JwksCache`, the violation runs, and liveness (`RetriesResume`,
`SdkCatchesUp`), which, like ENABLED, is beyond the prover.

## 6. Abstractions and what is left out

- Redis keeps its data. A loss of data would reset versions, locks and limits.
- An OTP request that names another identity, app or scene than the row's, a
  captcha that is refused at the first gate, and an empty network address
  (its gates are skipped) change nothing the properties tell apart.
- `max_attempts` and the URL of an endpoint do not change during a delivery, and
  a goroutine uses the endpoint as it is, not the copy `Emit` took: the
  properties do not depend on where a POST goes.
- Hashes are injective and random identifiers fresh; a signature verifies.
  `idgen` and `crypto` draw and compare, and keep nothing.
- `UserAuth` before a handler appears in `RefreshTokens` as `LoggedIn`: some
  access token is accepted, at most as long as the user has a row there.
- A user with a phone and a mail address gets the two identities in either
  order; an import is one `AdminCreateUser` after the other. Profiles,
  `oauth_accounts` and the credentials a merge moves (see `Credentials`) are left out of
  `Identities`, and no step of it reads `users.status`, which `RefreshTokens` has.
- `Invites` has one invite; the tenant, app, mail and phone it may be limited to
  refuse a login and change nothing. An invite that expires is one that is
  revoked with its count. Each new user has a user_id of its own.
- `findOrCreateByEmail` drops the error of its second INSERT: that is `Abort`
  after `CreateUser`, as nothing else of the request is in these modules.
- `AdminAuth` accepts an access token by its jti alone, whatever the user's version;
  it has no rule of its own to check and is not in `AccessTokens`.
- The password history, and when a password expires, are not in `Credentials`:
  `SetPassword` records the hash it read at its start, so that of two changes at
  a time one goes unrecorded. Reading other users' rows is not either.
- `LoginState` has one identity, the counters by
  address being the same code with another key; a state or a code that is
  presented by another client is a Boolean.
- The lock of `risk.go` is no lock of an account, though
  `docs/integration.md:537` says that repeated failures lock the account or the
  address. `Login` reads and sets it under the string
  it was sent, before that is normalised, so that it stops neither a login that
  spells the same phone or mail otherwise nor a `StepUp`; and the lock that
  `MFAComplete` and `PasskeyLoginFinish` set under the user_id is read by no login but
  one that sends the user_id, which no password method accepts. `LockFollows` and
  `LockStopsGuesses` therefore speak of one string. What bounds the passwords tried
  for an identity, however it is spelled, is `GuessesBounded`, and the counters by
  address, which are not modelled.
- `JwtKeys` has RS256 and one server: other instances read the files when they
  start and not later. ID tokens are signed and verified with the same keys. A start
  is one step: a crash inside it is not modelled. `jwt.kid` and `jwt.previous_kid` stay as
  they are throughout a behaviour, an operator provides a previous key before the
  first start only and under another kid than `jwt.kid`, and no administrator asks
  for a kid that ends in "-prev".
- `docs/operations-admin.md:290` says that a restart brings both keys back. The exceptions
  `TokenStands`, `QuietFilesMatch` and `StartsAgain` make are what the code does: a
  kid with blanks about it comes back without them; and a rotation from A to B and back
  to A, or to `jwt.previous_kid`, that is cut off after the current kid file leaves
  one kid to both keys, and the server does not start (`SetPreviousRSA`).
- When `RestoreSMSChannel` cannot read the setting, the server sends by the
  configuration file and goes on to report the setting: `SmsAgrees` excepts it until
  a setting is saved. Nothing is claimed of a report whose own read fails.
- `bootstrapApp`, which inserts the demonstration app into the tenant "default" when the
  server starts, without a look at the quota, is not modelled: `QuotaBounded`
  speaks of the admin API. Of a tenant without a row, which "default" is until
  `EnsureDefaultTenant`, there is no quota to check.
- `ApprovedIsRegistered` says that the identity of an approved join request was
  registered by some request: it would not see that it was another's
  registration. Of an approval and a rejection of one request at the same time both go
  through, and the row says what was saved last, as in the code.
- `Applications` leaves out the inputs of the view, and `Providers` the texts of a
  provider: a version stands for all of them. Role bindings, domain discovery,
  attribute maps and the capability table are lookups in one row and change
  nothing another request relies on.
- Not modelled: HTTP decoding, configuration loading, adapters (captcha, mail,
  SMS, OAuth providers, RocketMQ), metrics, tracing, the rest of the SDKs and web
  pages. They keep no state that these properties read. Planned parts are in
  section 2.
- The module `RefreshTokens` lets `UpdateProfile` restore an older status and
  `MFAComplete` skip the status, as the code does. No document promises
  otherwise, so no property is stated about them.
