------------------------------ MODULE Invites ------------------------------
(***************************************************************************)
(* How a new user gets in: through an app that registers everybody, on an  *)
(* invite with a limited number of uses, or on a request that is approved; *)
(* one database call at a time.  Of users and their identities this module *)
(* keeps which identities are taken; Identities has the rest.              *)
(***************************************************************************)
EXTENDS Integers, FiniteSets

CONSTANTS
  Key,          \* identities: tenant, type, provider and identifier
  Join,         \* request_ids of join requests
  Proc,         \* requests served at a time
  None,
  MaxUses,      \* max_uses of the invite
  MaxAdmitted   \* bound on the users created on the invite

ASSUME NoneAssumption == None \notin Join
ASSUME LimitAssumption == MaxUses \in Nat \ {0} /\ MaxAdmitted \in Nat
ASSUME ProcAssumption == IsFiniteSet(Proc)

VARIABLES
  taken,      \* identities in the table
  invite,     \* the row of one invite
  join,       \* table join_requests
  req,        \* the request each process is serving
  registered, \* history: identities that a registration has put in the table
  admitted,   \* history: users created on the invite
  unpaid      \* history: of these, how many requests failed before Consume

vars == <<taken, invite, join, req, registered, admitted, unpaid>>

-----------------------------------------------------------------------------
Requests == DOMAIN join

JoinRequest == [key : Key, status : {"pending", "approved", "rejected"}]

PC == {"find", "join", "user", "identity", "issue", "approve", "reject"}

Idle == [pc |-> "idle"]

Req == {Idle} \cup [pc : PC, key : Key, invited : BOOLEAN, join : Join \cup {None}]

At(p, pc) == req[p].pc = pc

Start(p, pc, k, invited, j) ==
  /\ At(p, "idle")
  /\ req' = [req EXCEPT ![p] = [pc |-> pc, key |-> k, invited |-> invited, join |-> j]]

Goto(p, pc) == req' = [req EXCEPT ![p].pc = pc]
Finish(p)   == req' = [req EXCEPT ![p] = Idle]

-----------------------------------------------------------------------------
Init ==
  /\ taken = {}
  /\ invite = [open |-> TRUE, used |-> 0]
  /\ join = [j \in {} |-> None]
  /\ req = [p \in Proc |-> Idle]
  /\ registered = {}
  /\ admitted = 0 /\ unpaid = 0

-----------------------------------------------------------------------------
\* Mutant: off by one.
ValidateOneMore == invite.open /\ invite.used <= MaxUses

\* The invite is active, has not expired and has a use left.
validateInviteForRegister == invite.open /\ invite.used < MaxUses

\* The authenticator has verified k.  The invite, if the login brings one,
\* is validated before anything is looked up.
Login(p, k, invited) ==
  /\ invited => validateInviteForRegister
  /\ Start(p, "find", k, invited, None)
  /\ UNCHANGED <<taken, invite, join, registered, admitted, unpaid>>

\* A known identity changes nothing here.  A new one needs an invite or an
\* app with auto_register, else it is put down for approval.
resolveUser(p) ==
  /\ At(p, "find")
  /\ \/ req[p].key \in taken /\ Finish(p)
     \/ req[p].key \notin taken /\ Goto(p, "user")
     \/ req[p].key \notin taken /\ ~req[p].invited /\ Goto(p, "join")
  /\ UNCHANGED <<taken, invite, join, registered, admitted, unpaid>>

createJoinRequest(p, j) ==
  /\ At(p, "join") /\ j \notin Requests
  /\ join' = [i \in Requests \cup {j} |->
                IF i = j THEN [key |-> req[p].key, status |-> "pending"] ELSE join[i]]
  /\ Finish(p)
  /\ UNCHANGED <<taken, invite, registered, admitted, unpaid>>

\* A pending request is rejected, or approved, which creates the user first.
ReviewJoinRequest(p, j) ==
  /\ j \in Requests /\ join[j].status = "pending"
  /\ \E pc \in {"user", "reject"} : Start(p, pc, join[j].key, FALSE, j)
  /\ UNCHANGED <<taken, invite, join, registered, admitted, unpaid>>

\* INSERT INTO users, under a user_id of its own.
CreateUser(p) ==
  /\ At(p, "user") /\ (req[p].invited => admitted < MaxAdmitted)
  /\ admitted' = IF req[p].invited THEN admitted + 1 ELSE admitted
  /\ Goto(p, "identity")
  /\ UNCHANGED <<taken, invite, join, registered, unpaid>>

\* Mutant: that the index refuses the row is ignored, as in
\* findOrCreateByEmail.
CreateIdentityIgnored(p) ==
  /\ At(p, "identity")
  /\ taken' = taken \cup {req[p].key}
  /\ registered' = registered \cup ({req[p].key} \ taken)
  /\ IF req[p].invited THEN Goto(p, "issue")
     ELSE IF req[p].join # None THEN Goto(p, "approve")
     ELSE Finish(p)
  /\ UNCHANGED <<invite, join, admitted, unpaid>>

\* INSERT INTO identities; the unique index refuses one that is taken.
CreateIdentity(p) ==
  /\ At(p, "identity") /\ req[p].key \notin taken
  /\ taken' = taken \cup {req[p].key}
  /\ registered' = registered \cup {req[p].key}
  /\ IF req[p].invited THEN Goto(p, "issue")
     ELSE IF req[p].join # None THEN Goto(p, "approve")
     ELSE Finish(p)
  /\ UNCHANGED <<invite, join, admitted, unpaid>>

\* Mutant: the UPDATE without its condition on used_count.
ConsumeAnyway(p) ==
  /\ At(p, "issue")
  /\ invite' = IF invite.open THEN [invite EXCEPT !.used = @ + 1] ELSE invite
  /\ Finish(p)
  /\ UNCHANGED <<taken, join, registered, admitted, unpaid>>

\* UPDATE ... SET used_count = used_count + 1 WHERE there is a use left, once
\* the tokens are issued; that it finds none is ignored.
Consume(p) ==
  /\ At(p, "issue")
  /\ invite' = IF invite.open /\ invite.used < MaxUses
               THEN [invite EXCEPT !.used = @ + 1] ELSE invite
  /\ Finish(p)
  /\ UNCHANGED <<taken, join, registered, admitted, unpaid>>

\* The whole row is saved, whatever became of the request meanwhile.
SaveReview(p) ==
  /\ At(p, "approve") \/ At(p, "reject")
  /\ join' = [join EXCEPT ![req[p].join].status =
                IF At(p, "approve") THEN "approved" ELSE "rejected"]
  /\ Finish(p)
  /\ UNCHANGED <<taken, invite, registered, admitted, unpaid>>

\* A database call fails, the index refuses the row, the tokens are not
\* issued, or the caller has gone: what was done stays done.
Abort(p) ==
  /\ ~At(p, "idle")
  /\ unpaid' = IF req[p].pc \in {"identity", "issue"} /\ req[p].invited
               THEN unpaid + 1 ELSE unpaid
  /\ Finish(p)
  /\ UNCHANGED <<taken, invite, join, registered, admitted>>

\* The invite expires, or its whole row is saved as revoked with the count
\* RevokeInvite has read.
RevokeInvite ==
  /\ invite.open
  /\ \E n \in 0 .. invite.used : invite' = [open |-> FALSE, used |-> n]
  /\ UNCHANGED <<taken, join, req, registered, admitted, unpaid>>

\* Bind and AdminCreateUser take an identity; Unbind and AnonymizeUser give
\* one up.
Rebind(k) ==
  /\ taken' = IF k \in taken THEN taken \ {k} ELSE taken \cup {k}
  /\ UNCHANGED <<invite, join, req, registered, admitted, unpaid>>

-----------------------------------------------------------------------------
Next ==
  \/ \E p \in Proc :
       \/ \E k \in Key, invited \in BOOLEAN : Login(p, k, invited)
       \/ \E j \in Join : createJoinRequest(p, j) \/ ReviewJoinRequest(p, j)
       \/ resolveUser(p) \/ CreateUser(p) \/ CreateIdentity(p)
       \/ Consume(p) \/ SaveReview(p) \/ Abort(p)
  \/ RevokeInvite
  \/ \E k \in Key : Rebind(k)

Spec == Init /\ [][Next]_vars

-----------------------------------------------------------------------------
\* Rows and requests have the shape the code gives them.
TypeOK ==
  /\ taken \subseteq Key /\ registered \subseteq Key
  /\ invite \in [open : BOOLEAN, used : 0 .. MaxUses]
  /\ Requests \subseteq Join /\ \A j \in Requests : join[j] \in JoinRequest
  /\ req \in [Proc -> Req]
  /\ admitted \in Nat /\ unpaid \in Nat

\* An invite admits no more users than it has uses, but for the requests that
\* found a use left while another was taking the last one, and for those that
\* failed after they had created their user (Login, Consume).
InviteBounded == admitted < MaxUses + Cardinality(Proc) + unpaid

\* Whoever reads "approved" may rely on the account: it is written after the
\* identity has been, and by no review that failed on the way or that lost
\* the identity to someone else (ReviewJoinRequest).
ApprovedIsRegistered ==
  \A j \in Requests : join[j].status = "approved" => join[j].key \in registered
=============================================================================
