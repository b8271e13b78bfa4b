---------------------------- MODULE Applications ----------------------------
(***************************************************************************)
(* Tenants and their applications as the admin API keeps them.  Every      *)
(* change reads a row, edits the copy and saves all columns of it; the     *)
(* tenant's quota is a count made before the new application is inserted.  *)
(* The inputs of the view, domains and names are left out: a row is its    *)
(* status and one number, the quota of the tenant or the number of the     *)
(* application's secret.  Names are distinct from those of Providers, with *)
(* which MCGovernance combines this module.                                *)
(***************************************************************************)
EXTENDS Integers, FiniteSets

CONSTANTS
  App,       \* client_ids
  Tenant,    \* the one tenant_id
  Admin,     \* admin requests served at a time
  NoRow,
  MaxLimit,  \* bound on max_apps; also what a new default tenant gets
  MaxEdits   \* bound on the changes asked for applications

ASSUME RowAssumption == Tenant \notin App /\ NoRow \notin App \cup {Tenant}
ASSUME LimitAssumption == MaxLimit \in Nat \ {0}
ASSUME FiniteAssumption == IsFiniteSet(App) /\ IsFiniteSet(Admin) /\ Admin # {}

VARIABLES
  implicit,  \* the tenant is "default", which may do without a row
  row,       \* tenants and apps
  edit,      \* the request each admin is waiting for
  asked,      \* how many changes were asked for; a new secret is numbered so
  told,      \* history: the values the answers reported as set
  crossed,   \* history: the rows some request saved from an outdated copy
  peak,      \* history: the highest quota that was in force
  after      \* history: applications created since the tenant was stopped

appVars == <<implicit, row, edit, asked, told, crossed, peak, after>>

-----------------------------------------------------------------------------
Absent == [st |-> "none", val |-> 0]
Active(n) == [st |-> "active", val |-> n]

Field == {"st", "val"}

Waiting == [pc |-> "idle", of |-> NoRow, copy |-> Absent, sets |-> {}, fresh |-> TRUE]

On(p, pc) == edit[p].pc = pc

Exists(i) == row[i].st # "none"

Apps == {a \in App : Exists(a)}

Stopped == row[Tenant].st = "disabled"

Unlimited == MaxLimit + Cardinality(App)

\* The number of applications the tenant may have, by assertTenantAppQuota.
Quota(t) ==
  CASE t.st = "disabled"             -> 0
    [] t.st = "none" /\ implicit     -> Unlimited
    [] t.st = "none" /\ ~implicit    -> 0
    [] t.st = "active" /\ t.val <= 0 -> Unlimited
    [] t.st = "active" /\ t.val > 0  -> t.val

\* The history of the quota after the tenant's row has been written.
TenantWritten ==
  /\ peak' = IF Quota(row'[Tenant]) > peak THEN Quota(row'[Tenant]) ELSE peak
  /\ after' = IF Stopped /\ Stopped' THEN after ELSE 0

Return(p) == edit' = [edit EXCEPT ![p] = Waiting]

-----------------------------------------------------------------------------
AppInit ==
  /\ implicit \in BOOLEAN
  /\ row = [i \in App \cup {Tenant} |-> Absent]
  /\ edit = [p \in Admin |-> Waiting]
  /\ asked = 0
  /\ told = row
  /\ crossed = {}
  /\ peak = Quota(row[Tenant])
  /\ after = 0

-----------------------------------------------------------------------------
\* CreateTenant and EnsureDefaultTenant look for the row first; the unique index
\* of tenants refuses a second one that slipped in between.
Insert(i, new) ==
  /\ ~Exists(i)
  /\ row' = [row EXCEPT ![i] = new]
  /\ told' = [told EXCEPT ![i] = new]

CreateTenant(p) ==
  /\ On(p, "idle")
  /\ \E n \in 1..MaxLimit : Insert(Tenant, Active(n))
  /\ TenantWritten
  /\ UNCHANGED <<implicit, edit, asked, crossed>>

\* At the start of any instance of the server.
EnsureDefaultTenant ==
  /\ implicit
  /\ Insert(Tenant, Active(MaxLimit))
  /\ TenantWritten
  /\ UNCHANGED <<implicit, edit, asked, crossed>>

\* A request reads row i and changes the columns it was asked to set.
Edit(p, i, new, sets) ==
  /\ On(p, "idle") /\ Exists(i)
  /\ edit' = [edit EXCEPT ![p] = [pc |-> "save", of |-> i, copy |-> new,
                                  sets |-> sets, fresh |-> TRUE]]
  /\ UNCHANGED <<implicit, row, told, crossed, peak, after>>

\* Any string other than "active" stops the tenant.
UpdateTenant(p) ==
  /\ \/ \E s \in {"active", "disabled"} : Edit(p, Tenant, [row[Tenant] EXCEPT !.st = s], {"st"})
     \/ \E n \in 0..MaxLimit : Edit(p, Tenant, [row[Tenant] EXCEPT !.val = n], {"val"})
  /\ asked' = asked

\* The domain is added to sso_domains by saving the tenant as it was read.
UpsertEnterpriseIdP(p) == Edit(p, Tenant, row[Tenant], {}) /\ asked' = asked

UpdateApp(p, a) ==
  /\ asked < MaxEdits /\ asked' = asked + 1
  /\ \/ \E s \in {"active", "disabled"} : Edit(p, a, [row[a] EXCEPT !.st = s], {"st"})
     \/ Edit(p, a, row[a], {})

RotateSecret(p, a) ==
  /\ asked < MaxEdits /\ asked' = asked + 1
  /\ Edit(p, a, [row[a] EXCEPT !.val = asked'], {"val"})

\* Of the columns that were asked for the answer shows the new value.
Reported(e) ==
  [st  |-> IF "st" \in e.sets THEN e.copy.st ELSE told[e.of].st,
   val |-> IF "val" \in e.sets THEN e.copy.val ELSE told[e.of].val]

\* Save writes every column, and the answer reports those that were asked for.
Save(p) ==
  LET e == edit[p] IN
  /\ e.pc = "save"
  /\ row' = [row EXCEPT ![e.of] = e.copy]
  /\ told' = [told EXCEPT ![e.of] = Reported(e)]
  /\ crossed' = IF e.fresh THEN crossed ELSE crossed \cup {e.of}
  /\ edit' = [q \in Admin |-> IF q = p THEN Waiting
                              ELSE [edit[q] EXCEPT !.fresh = @ /\ edit[q].of # e.of]]
  /\ TenantWritten
  /\ UNCHANGED <<implicit, asked>>

\* Mutant: the error of the update is dropped, and the caller told it was done.
SaveErrorIgnored(p) ==
  LET e == edit[p] IN
  /\ e.pc = "save" /\ Return(p)
  /\ told' = [told EXCEPT ![e.of] = Reported(e)]
  /\ UNCHANGED <<implicit, row, asked, crossed, peak, after>>

\* An error of the database is the answer.
SaveError(p) ==
  /\ On(p, "save") /\ Return(p)
  /\ UNCHANGED <<implicit, row, asked, told, crossed, peak, after>>

-----------------------------------------------------------------------------
\* CreateApp looks at the tenant first: a missing or stopped one refuses it, and
\* one without a limit needs no count.
assertTenantAppQuota(p) ==
  /\ On(p, "idle") /\ Quota(row[Tenant]) > 0
  /\ edit' = [edit EXCEPT ![p] = [Waiting EXCEPT
                !.pc = IF Quota(row[Tenant]) = Unlimited THEN "create" ELSE "count",
                !.copy = row[Tenant]]]
  /\ UNCHANGED <<implicit, row, asked, told, crossed, peak, after>>

\* Mutant: off by one.
CountOneMore(p) ==
  /\ On(p, "count")
  /\ edit' = [edit EXCEPT ![p] = IF Cardinality(Apps) <= @.copy.val
                                 THEN [Waiting EXCEPT !.pc = "create"] ELSE Waiting]
  /\ UNCHANGED <<implicit, row, asked, told, crossed, peak, after>>

CountAppsByTenant(p) ==
  /\ On(p, "count")
  /\ edit' = [edit EXCEPT ![p] = IF Cardinality(Apps) >= @.copy.val
                                 THEN Waiting ELSE [Waiting EXCEPT !.pc = "create"]]
  /\ UNCHANGED <<implicit, row, asked, told, crossed, peak, after>>

\* The client_id is looked for, and unique in apps.
CreateApp(p, a) ==
  /\ On(p, "create")
  /\ Insert(a, Active(0))
  /\ Return(p)
  /\ after' = IF Stopped THEN after + 1 ELSE after
  /\ UNCHANGED <<implicit, asked, crossed, peak>>

\* The client_id is taken, or the database fails.
CreateAppRefused(p) ==
  /\ On(p, "count") \/ On(p, "create")
  /\ Return(p)
  /\ UNCHANGED <<implicit, row, asked, told, crossed, peak, after>>

AppNext ==
  \/ EnsureDefaultTenant
  \/ \E p \in Admin :
       \/ CreateTenant(p) \/ UpdateTenant(p) \/ UpsertEnterpriseIdP(p)
       \/ Save(p) \/ SaveError(p)
       \/ assertTenantAppQuota(p) \/ CountAppsByTenant(p) \/ CreateAppRefused(p)
       \/ \E a \in App : UpdateApp(p, a) \/ RotateSecret(p, a) \/ CreateApp(p, a)

AppSpec == AppInit /\ [][AppNext]_appVars

-----------------------------------------------------------------------------
\* What the answers of the admin API reported is what the database holds: the
\* status and quota of the tenant, the status of an application and the secret
\* it was handed, unless some request saved a copy it had read before another
\* request's save of that row (UpdateApp, RotateSecret, UpdateTenant,
\* UpsertEnterpriseIdP and Save).
AnswersStand == \A i \in App \cup {Tenant} : row[i] # told[i] => i \in crossed

\* However the limit is moved, a tenant has at most one application per
\* concurrent request beyond the highest limit it ever had; and once it is
\* stopped, only the requests that had already passed the check can still add
\* one (assertTenantAppQuota, CountAppsByTenant and CreateApp).
QuotaBounded ==
  /\ Cardinality(Apps) <= peak + Cardinality(Admin) - 1
  /\ after <= Cardinality(Admin) - 1
=============================================================================
