----------------------------- MODULE Identities -----------------------------
(***************************************************************************)
(* Users and the identities they log in with: registering, binding,        *)
(* unbinding, merging and anonymising, one database call at a time.  An    *)
(* identity is the key of the table's unique index: tenant, type, provider *)
(* and identifier.                                                         *)
(*                                                                         *)
(* Who may register is the subject of Invites, and users.status that of    *)
(* RefreshTokens: no step here reads it.                                   *)
(***************************************************************************)
EXTENDS Integers, FiniteSets

CONSTANTS
  User,       \* user_ids idgen may draw
  Key,        \* identities
  RowId,      \* ids the table may draw; none is drawn twice
  Proc,       \* requests served at a time
  None,
  MaxTokens   \* bound on the merge tokens alive at a time

ASSUME NoneAssumption == None \notin User \cup Key

VARIABLES
  users,     \* user_ids in table users
  row,       \* table identities, deleted rows included
  merging,   \* merge tokens in Redis
  req,       \* the request each process is serving
  enrolled,  \* history: users given an identity and not merged away since
  raced      \* history: users one of whose identities two requests took

vars == <<users, row, merging, req, enrolled, raced>>

-----------------------------------------------------------------------------
\* key None: anonymised; user None: deleted.
Row == [user : User \cup {None}, key : Key \cup {None}]

Drawn == DOMAIN row

RowsOf(u) == {r \in Drawn : row[r].user = u}

Taken(k) == \E r \in Drawn : row[r].user # None /\ row[r].key = k

MergeToken == [target : User, source : User]

Idle == [pc |-> "idle"]

\* Identities still to be created for the user, a row to delete, rows to
\* anonymise.
Req ==
  {Idle} \cup [pc : {"identity"}, user : User, keys : SUBSET Key]
         \cup [pc : {"delete"}, row : RowId]
         \cup [pc : {"anonymize"}, user : User, rows : SUBSET RowId]

At(p, pc)   == req[p].pc = pc
Start(p, r) == At(p, "idle") /\ req' = [req EXCEPT ![p] = r]
Finish(p)   == req' = [req EXCEPT ![p] = Idle]

Creating(u, ks)    == [pc |-> "identity", user |-> u, keys |-> ks]
Anonymizing(u, rs) == [pc |-> "anonymize", user |-> u, rows |-> rs]

-----------------------------------------------------------------------------
Init ==
  /\ users = {}
  /\ row = [r \in {} |-> None]
  /\ merging = {}
  /\ req = [p \in Proc |-> Idle]
  /\ enrolled = {} /\ raced = {}

-----------------------------------------------------------------------------
(* Registering *)

\* The row in table users; those of the identities follow.
CreateUser(p, u, ks) ==
  /\ u \notin users
  /\ Start(p, Creating(u, ks))
  /\ users' = users \cup {u}
  /\ UNCHANGED <<row, merging, enrolled, raced>>

\* A login with an unknown identity, where users may register.
resolveUser(p, u, k) == ~Taken(k) /\ CreateUser(p, u, {k})

\* A SAML login; it goes on if the identity cannot be created afterwards.
findOrCreateByEmail(p, u, k) == ~Taken(k) /\ CreateUser(p, u, {k})

\* An approval does not look whether the identity is taken by now ...
ReviewJoinRequest(p, u, k) == CreateUser(p, u, {k})

\* ... and neither do the console and ImportUsers, who give the user a phone,
\* a mail address or both.
AdminCreateUser(p, u, ks) == Cardinality(ks) \in 1 .. 2 /\ CreateUser(p, u, ks)

\* Mutant: the table without its unique index.
CreateIdentityTwice(p, k, r) ==
  /\ At(p, "identity") /\ k \in req[p].keys
  /\ r \notin Drawn
  /\ row' = [i \in Drawn \cup {r} |->
               IF i = r THEN [user |-> req[p].user, key |-> k] ELSE row[i]]
  /\ req' = [req EXCEPT ![p] =
               IF @.keys = {k} THEN Idle ELSE Creating(@.user, @.keys \ {k})]
  /\ enrolled' = enrolled \cup {req[p].user}
  /\ UNCHANGED <<users, merging, raced>>

\* INSERT; the unique index refuses an identity that is taken.
CreateIdentity(p, k, r) ==
  /\ At(p, "identity") /\ k \in req[p].keys
  /\ ~Taken(k) /\ r \notin Drawn
  /\ row' = [i \in Drawn \cup {r} |->
               IF i = r THEN [user |-> req[p].user, key |-> k] ELSE row[i]]
  /\ req' = [req EXCEPT ![p] =
               IF @.keys = {k} THEN Idle ELSE Creating(@.user, @.keys \ {k})]
  /\ enrolled' = enrolled \cup {req[p].user}
  /\ UNCHANGED <<users, merging, raced>>

-----------------------------------------------------------------------------
(* Binding *)

\* Bind has verified k and finds it free.
Bind(p, u, k) ==
  /\ u \in users /\ ~Taken(k)
  /\ Start(p, Creating(u, {k}))
  /\ UNCHANGED <<users, row, merging, enrolled, raced>>

\* Rows of u that a request is about to delete.
Condemned(u) == {r \in RowsOf(u) : \E p \in Proc : At(p, "delete") /\ req[p].row = r}

\* Mutant: the last identity may go.
UnbindLast(p, u, r) ==
  /\ r \in RowsOf(u) /\ u \in users
  /\ Start(p, [pc |-> "delete", row |-> r])
  /\ raced' = IF Condemned(u) = {} THEN raced ELSE raced \cup {u}
  /\ UNCHANGED <<users, row, merging, enrolled>>

\* Unbind lists the user's identities and finds r and another.
Unbind(p, u, r) ==
  /\ r \in RowsOf(u) /\ u \in users /\ \E other \in RowsOf(u) : other # r
  /\ Start(p, [pc |-> "delete", row |-> r])
  /\ raced' = IF Condemned(u) = {} THEN raced ELSE raced \cup {u}
  /\ UNCHANGED <<users, row, merging, enrolled>>

\* DELETE by id, whoever has the row now.
DeleteIdentity(p) ==
  /\ At(p, "delete")
  /\ row' = [r \in Drawn |-> IF r = req[p].row THEN [row[r] EXCEPT !.user = None] ELSE row[r]]
  /\ Finish(p)
  /\ UNCHANGED <<users, merging, enrolled, raced>>

-----------------------------------------------------------------------------
(* Merging *)

\* The target has verified an identity of the source.
MergeStart(target, k) ==
  /\ target \in users /\ Cardinality(merging) < MaxTokens
  /\ \E source \in users \ {target} :
       /\ \E r \in RowsOf(source) : row[r].key = k
       /\ merging' = merging \cup {[target |-> target, source |-> source]}
  /\ UNCHANGED <<users, row, req, enrolled, raced>>

\* One transaction moves the rows, whatever became of either user since.
mergeUsers(target, source) ==
  /\ target # source /\ {target, source} \subseteq users
  /\ row' = [r \in Drawn |->
               IF row[r].user = source THEN [row[r] EXCEPT !.user = target] ELSE row[r]]
  /\ enrolled' = (enrolled \ {source}) \cup (IF source \in enrolled THEN {target} ELSE {})
  /\ raced' = IF source \in raced THEN raced \cup {target} ELSE raced
  /\ UNCHANGED <<users, req>>

MergeConfirm(token) ==
  /\ token \in merging
  /\ merging' = merging \ {token}
  /\ mergeUsers(token.target, token.source)

\* The token runs out, or is spent by a confirmation that fails.
MergeLapses(token) ==
  /\ token \in merging
  /\ merging' = merging \ {token}
  /\ UNCHANGED <<users, row, req, enrolled, raced>>

AdminMergeUsers(target, source) == mergeUsers(target, source) /\ UNCHANGED merging

-----------------------------------------------------------------------------
(* Anonymising *)

\* AnonymizeUser lists the user's rows ...
AnonymizeUser(p, u) ==
  /\ u \in users /\ RowsOf(u) # {}
  /\ Start(p, Anonymizing(u, RowsOf(u)))
  /\ UNCHANGED <<users, row, merging, enrolled, raced>>

\* Mutant: the identifier stays.
SaveAnonymousNot(p, r) ==
  /\ At(p, "anonymize") /\ r \in req[p].rows
  /\ row' = [row EXCEPT ![r] = [user |-> req[p].user, key |-> @.key]]
  /\ raced' = raced \cup ({row[r].user} \ {req[p].user, None})
  /\ req' = [req EXCEPT ![p] =
               IF @.rows = {r} THEN Idle ELSE Anonymizing(@.user, @.rows \ {r})]
  /\ UNCHANGED <<users, merging, enrolled>>

\* ... and saves each, as it was but for its identifier.  A row that has
\* been deleted is inserted again, one that was merged away comes back.
SaveAnonymous(p, r) ==
  /\ At(p, "anonymize") /\ r \in req[p].rows
  /\ row' = [row EXCEPT ![r] = [user |-> req[p].user, key |-> None]]
  /\ raced' = raced \cup ({row[r].user} \ {req[p].user, None})
  /\ req' = [req EXCEPT ![p] =
               IF @.rows = {r} THEN Idle ELSE Anonymizing(@.user, @.rows \ {r})]
  /\ UNCHANGED <<users, merging, enrolled>>

\* A database call fails, the index refuses the row, or the caller has gone:
\* what was done stays done.
Abort(p) ==
  /\ ~At(p, "idle")
  /\ Finish(p)
  /\ UNCHANGED <<users, row, merging, enrolled, raced>>

-----------------------------------------------------------------------------
Serve(p) ==
  \/ \E u \in User, k \in Key :
       resolveUser(p, u, k) \/ findOrCreateByEmail(p, u, k) \/ ReviewJoinRequest(p, u, k)
  \/ \E u \in User, ks \in SUBSET Key : AdminCreateUser(p, u, ks)
  \/ \E k \in Key, r \in RowId : CreateIdentity(p, k, r)
  \/ \E u \in User, k \in Key : Bind(p, u, k)
  \/ \E u \in User, r \in RowId : Unbind(p, u, r)
  \/ DeleteIdentity(p)
  \/ \E u \in User : AnonymizeUser(p, u)
  \/ \E r \in RowId : SaveAnonymous(p, r)
  \/ Abort(p)

Merge ==
  \/ \E target \in User, k \in Key : MergeStart(target, k)
  \/ \E token \in merging : MergeConfirm(token) \/ MergeLapses(token)
  \/ \E target, source \in User : AdminMergeUsers(target, source)

Next == Merge \/ \E p \in Proc : Serve(p)

Spec == Init /\ [][Next]_vars

-----------------------------------------------------------------------------
\* Rows, tokens and requests have the shape the code gives them, and the
\* unique index holds.
TypeOK ==
  /\ users \subseteq User
  /\ Drawn \subseteq RowId /\ \A r \in Drawn : row[r] \in Row
  /\ \A r, s \in Drawn :
       row[r].user # None /\ row[s].user # None /\ row[r].key # None
         /\ row[r].key = row[s].key => r = s
  /\ merging \subseteq MergeToken
  /\ req \in [Proc -> Req]
  /\ enrolled \subseteq users /\ raced \subseteq users

\* A user with two identities may give up one, and keeps the other whatever
\* else goes on, unless a second request was under way to take that one: an
\* Unbind that had counted it, or an anonymisation that had listed it before
\* it was merged (Unbind, AnonymizeUser, mergeUsers).
UnbindKeepsOne == \A u \in enrolled \ raced : RowsOf(u) # {}

\* Who owns an identity, read off the rows.
ownerOf ==
  [k \in Key |->
     IF Taken(k) THEN row[CHOOSE r \in Drawn : row[r].user # None /\ row[r].key = k].user
     ELSE None]

Directory == INSTANCE IdentityDirectory WITH owner <- ownerOf

\* However registrations, bindings, merges and anonymisations interleave, an
\* identity has one owner and goes from one to another only in a merge.
ImplementsDirectory == Directory!Spec
=============================================================================
