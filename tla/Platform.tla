------------------------------ MODULE Platform ------------------------------
(***************************************************************************)
(* The multi-tenant platform: app/services/saas_service.py,                *)
(* app/repositories/saas_repository.py, app/models/saas.py and the routes  *)
(* of app/api/saas.py.                                                     *)
(*                                                                         *)
(* The routes are plain functions, run in a pool of threads, each with a   *)
(* session of its own.  A request reads and checks, then writes its rows   *)
(* and its audit event and commits once.  No row is ever deleted, so a     *)
(* check that a tenant, workspace or membership exists still holds at the  *)
(* commit: such requests are one action.  Requests that rest on a value    *)
(* that may change take one action per read.  An UPDATE carries only the   *)
(* columns whose value differs from what the session has read.             *)
(***************************************************************************)
EXTENDS Integers, Sequences, FiniteSets

CONSTANTS
    Users,
    Slugs,
    Plans, Statuses,   \* of subscriptions
    PlanLimits,        \* limits of each plan
    PlanFlags,         \* feature flags of each plan
    Requests,
    NoJob,
    MaxTenants, MaxWorkspaces,   \* bounds: rows
    MaxRows,                     \* bound: rows other than members
    MaxDays,                     \* bound: days of a calendar
    MaxCalls                     \* bound: requests

Roles      == {"owner", "admin", "editor", "viewer", "support"}
Admins     == {"owner", "admin"}
TenantIds  == 1..MaxTenants
WorkIds    == 1..MaxWorkspaces
NoWork     == 0    \* workspace_id is NULL
Kinds      == {"invitation", "payment", "usage", "apikey", "channel",
               "event", "calendar", "insight", "feedback"}

Actions    == Kinds \cup {"tenant_created", "organization_created", "workspace_created",
                         "workspace_member_upserted", "subscription_upserted",
                         "api_key_revoked"}

ASSUME PlatformAssumption ==
    /\ MaxTenants \in Nat /\ MaxWorkspaces \in Nat /\ MaxRows \in Nat
    /\ MaxDays \in Nat /\ MaxCalls \in Nat
    /\ DOMAIN PlanLimits = Plans
    /\ DOMAIN PlanFlags = Plans

(* No two plans have the same limits, as in _plan_defaults. *)
ASSUME LimitsAssumption ==
    \A p, q \in Plans : PlanLimits[p] = PlanLimits[q] => p = q

MemberRow == [tenant : TenantIds, workspace : WorkIds, user : Users, role : Roles]
PlanRow   == [tenant : TenantIds, plan : Plans, status : Statuses,
              limits : {PlanLimits[p] : p \in Plans}, flags : {PlanFlags[p] : p \in Plans}]

(* What a request keeps between its steps. *)
MemberJobs  == [op : {"select", "member"}, actor : Users, tenant : TenantIds,
                workspace : WorkIds, user : Users, role : Roles,
                read : [id : Nat, role : Roles]]
InviteJobs  == [op : {"invitation"}, actor : Users, tenant : TenantIds, workspace : WorkIds]
PlanJobs    == [op : {"subscription"}, actor : Users, tenant : TenantIds, plan : Plans,
                status : Statuses, id : Nat, read : PlanRow \cup {NoJob}]
InsightJobs == [op : {"insight"}, tenant : TenantIds]
Jobs == MemberJobs \cup InviteJobs \cup PlanJobs \cup InsightJobs

ASSUME NoJobAssumption == NoJob \notin Jobs

VARIABLES
    tenants,        \* slug of each tenant, in the order of ids
    organizations,  \* tenant of each organization
    workspaces,     \* [tenant, organization, slug]
    members,        \* [tenant, workspace, user, role]
    subscriptions,  \* [tenant, plan, status, limits, flags]
    rows,           \* every other row: [kind, tenant, workspace]
    revoked,        \* api keys with revoked_at: indices of rows
    audit,          \* [action, tenant, workspace, actor, user, role, count]
    job,            \* what each running request has read, NoJob when idle
    calls

tables == <<tenants, organizations, workspaces, members, subscriptions, rows, revoked>>
vars == <<tables, audit, job, calls>>

Init ==
    /\ tenants = <<>> /\ organizations = <<>> /\ workspaces = <<>>
    /\ members = <<>> /\ subscriptions = <<>> /\ rows = <<>> /\ revoked = {}
    /\ audit = <<>>
    /\ job = [r \in Requests |-> NoJob]
    /\ calls = 0

-----------------------------------------------------------------------------
(* Rows *)

Begin == calls < MaxCalls /\ calls' = calls + 1

(* The membership of a user in a workspace: the index of its row, or 0. *)
RowOf(w, u) ==
    LET found == {i \in DOMAIN members : members[i].workspace = w /\ members[i].user = u}
    IN  IF found = {} THEN 0 ELSE CHOOSE i \in found : TRUE

(* _assert_workspace_member: a request that names no workspace passes. *)
MayUse(u, w) == w = NoWork \/ RowOf(w, u) # 0

(* _ensure_workspace: the workspace is one of the tenant. *)
Owns(t, w) == w \in DOMAIN workspaces /\ workspaces[w].tenant = t

Event(action, t, w, u) ==
    [action |-> action, tenant |-> t, workspace |-> w, actor |-> u,
     user |-> u, role |-> "owner", count |-> 1]

(* The audit event is written in the transaction of the rows it is about. *)
Audited_InWorkspace(ev) ==    \* mutant: only what happens in a workspace is audited
    audit' = IF ev.workspace = NoWork THEN audit ELSE Append(audit, ev)
Audited(ev) == audit' = Append(audit, ev)

Times(n, row) == [i \in 1..n |-> row]

(* n rows of one kind, and the event that tells of them. *)
Add(kind, n, t, w, u) ==
    /\ Len(rows) + n <= MaxRows
    /\ rows' = rows \o Times(n, [kind |-> kind, tenant |-> t, workspace |-> w])
    /\ Audited([Event(kind, t, w, u) EXCEPT !.count = n])
    /\ UNCHANGED <<tenants, organizations, workspaces, members, subscriptions, revoked>>

-----------------------------------------------------------------------------
(* Tenants, organizations and workspaces *)

CreateTenant(u, s) ==
    /\ Begin
    /\ Len(tenants) < MaxTenants
    /\ \A t \in DOMAIN tenants : tenants[t] # s
    /\ tenants' = Append(tenants, s)
    /\ Audited(Event("tenant_created", Len(tenants) + 1, NoWork, u))
    /\ UNCHANGED <<organizations, workspaces, members, subscriptions, rows, revoked, job>>

CreateOrganization(u, t) ==
    /\ Begin
    /\ Len(organizations) < MaxTenants
    /\ t \in DOMAIN tenants
    /\ organizations' = Append(organizations, t)
    /\ Audited(Event("organization_created", t, NoWork, u))
    /\ UNCHANGED <<tenants, workspaces, members, subscriptions, rows, revoked, job>>

(* The workspace comes with its first owner. *)
CreateWorkspace(u, t, o, s) ==
    /\ Begin
    /\ Len(workspaces) < MaxWorkspaces
    /\ t \in DOMAIN tenants
    /\ o \in DOMAIN organizations /\ organizations[o] = t
    /\ \A w \in DOMAIN workspaces :
          <<workspaces[w].organization, workspaces[w].slug>> # <<o, s>>
    /\ LET w == Len(workspaces) + 1 IN
       /\ workspaces' = Append(workspaces, [tenant |-> t, organization |-> o, slug |-> s])
       /\ members' = Append(members, [tenant |-> t, workspace |-> w,
                                      user |-> u, role |-> "owner"])
       /\ Audited(Event("workspace_created", t, w, u))
    /\ UNCHANGED <<tenants, organizations, subscriptions, rows, revoked, job>>

-----------------------------------------------------------------------------
(* Members and invitations *)

(* _assert_workspace_admin, as the session reads it. *)
IsAdmin_Member(u, w) == RowOf(w, u) # 0    \* mutant: the role is not looked at
IsAdmin(u, w) == RowOf(w, u) # 0 /\ members[RowOf(w, u)].role \in Admins

Idle(r)    == job[r] = NoJob
At(r, op)  == ~Idle(r) /\ job[r].op = op
Note(r, j) == job' = [job EXCEPT ![r] = j]
Ends(r)    == job' = [job EXCEPT ![r] = NoJob]

(* What the session knows of a membership: the row, and its role. *)
Seen(i) == [id |-> i, role |-> IF i = 0 THEN "owner" ELSE members[i].role]

(* A session reads the row of the actor once: whoever changes his own      *)
(* membership goes by what the check read.                                 *)
CheckMember(r, u, t, w, m, role) ==
    /\ Idle(r) /\ Begin
    /\ Owns(t, w)
    /\ IsAdmin(u, w)
    /\ Note(r, [op |-> IF m = u THEN "member" ELSE "select", actor |-> u, tenant |-> t,
                workspace |-> w, user |-> m, role |-> role, read |-> Seen(RowOf(w, u))])
    /\ UNCHANGED <<tables, audit>>

SelectMember(r) ==
    /\ At(r, "select")
    /\ Note(r, [job[r] EXCEPT !.op = "member",
                              !.read = Seen(RowOf(job[r].workspace, job[r].user))])
    /\ UNCHANGED <<tables, audit, calls>>

(* uq_workspace_member *)
MemberTaken_Never(w, u) == FALSE    \* mutant: no unique (workspace, user)
MemberTaken(w, u) == RowOf(w, u) # 0

MemberEvent(j) ==
    [action |-> "workspace_member_upserted", tenant |-> j.tenant, workspace |-> j.workspace,
     actor |-> j.actor, user |-> j.user, role |-> j.role, count |-> 1]

WriteMember(r) ==
    /\ At(r, "member")
    /\ LET j == job[r]
           row == [tenant |-> j.tenant, workspace |-> j.workspace,
                   user |-> j.user, role |-> j.role]
       IN
       IF j.read.id = 0 /\ MemberTaken(j.workspace, j.user)
       THEN UNCHANGED <<members, audit>>
       ELSE /\ members' =
                 IF j.read.id = 0 THEN Append(members, row)
                 ELSE IF j.read.role = j.role THEN members
                 ELSE [members EXCEPT ![j.read.id].role = j.role]
            /\ Audited(MemberEvent(j))
    /\ Ends(r)
    /\ UNCHANGED <<tenants, organizations, workspaces, subscriptions, rows, revoked, calls>>

CheckInvitation(r, u, t, w) ==
    /\ Idle(r) /\ Begin
    /\ Owns(t, w)
    /\ IsAdmin(u, w)
    /\ Note(r, [op |-> "invitation", actor |-> u, tenant |-> t, workspace |-> w])
    /\ UNCHANGED <<tables, audit>>

WriteInvitation(r) ==
    /\ At(r, "invitation")
    /\ Add("invitation", 1, job[r].tenant, job[r].workspace, job[r].actor)
    /\ Ends(r)
    /\ UNCHANGED calls

-----------------------------------------------------------------------------
(* Subscriptions and payments *)

Limits_AsFlags(p) == PlanFlags[p]    \* mutant: two plans share their limits
Limits(p) == PlanLimits[p]
Flags(p)  == PlanFlags[p]

Subscribed(t) == {i \in DOMAIN subscriptions : subscriptions[i].tenant = t}

(* scalar() takes one of the rows of the tenant. *)
SelectSubscription(r, u, t, plan, status) ==
    /\ Idle(r) /\ Begin
    /\ t \in DOMAIN tenants
    /\ \E i \in Subscribed(t) \cup {0} :
          /\ i = 0 <=> Subscribed(t) = {}
          /\ Note(r, [op |-> "subscription", actor |-> u, tenant |-> t, plan |-> plan,
                      status |-> status, id |-> i,
                      read |-> IF i = 0 THEN NoJob ELSE subscriptions[i]])
    /\ UNCHANGED <<tables, audit>>

(* What the UPDATE writes: the columns that differ from those read. *)
Flushed(now, read, new) ==
    [f \in DOMAIN now |-> IF new[f] = read[f] THEN now[f] ELSE new[f]]

WriteSubscription(r) ==
    /\ At(r, "subscription")
    /\ LET j == job[r]
           new == [tenant |-> j.tenant, plan |-> j.plan, status |-> j.status,
                   limits |-> Limits(j.plan), flags |-> Flags(j.plan)]
       IN
       /\ subscriptions' =
             IF j.id = 0 THEN Append(subscriptions, new)
             ELSE [subscriptions EXCEPT ![j.id] = Flushed(@, j.read, new)]
       /\ Audited(Event("subscription_upserted", j.tenant, NoWork, j.actor))
    /\ Ends(r)
    /\ UNCHANGED <<tenants, organizations, workspaces, members, rows, revoked, calls>>

(* A webhook that is delivered twice is two payments. *)
RecordPayment(u, t) ==
    /\ Begin
    /\ t \in DOMAIN tenants
    /\ Add("payment", 1, t, NoWork, u)
    /\ UNCHANGED job

-----------------------------------------------------------------------------
(* Usage, keys, notifications, calendar, insights and feedback *)

RecordUsage(u, t, w) ==
    /\ Begin
    /\ t \in DOMAIN tenants
    /\ w # NoWork => Owns(t, w)
    /\ MayUse(u, w)
    /\ Add("usage", 1, t, w, u)
    /\ UNCHANGED job

CreateApiKey(u, t, w) ==
    /\ Begin
    /\ t \in DOMAIN tenants
    /\ MayUse(u, w)
    /\ Add("apikey", 1, t, w, u)
    /\ UNCHANGED job

(* A revoked key is revoked again, and that is audited again. *)
RevokeApiKey(u, k) ==
    /\ Begin
    /\ k \in DOMAIN rows /\ rows[k].kind = "apikey"
    /\ MayUse(u, rows[k].workspace)
    /\ revoked' = revoked \cup {k}
    /\ Audited(Event("api_key_revoked", rows[k].tenant, rows[k].workspace, u))
    /\ UNCHANGED <<tenants, organizations, workspaces, members, subscriptions, rows, job>>

CreateNotificationChannel(u, t, w) ==
    /\ Begin
    /\ t \in DOMAIN tenants
    /\ MayUse(u, w)
    /\ Add("channel", 1, t, w, u)
    /\ UNCHANGED job

(* The event is queued; nothing in the program sends it. *)
DispatchNotification(u, t, k) ==
    /\ Begin
    /\ t \in DOMAIN tenants
    /\ k \in DOMAIN rows /\ rows[k].kind = "channel" /\ rows[k].tenant = t
    /\ Add("event", 1, t, rows[k].workspace, u)
    /\ UNCHANGED job

GenerateContentCalendar(u, t, w, days) ==
    /\ Begin
    /\ Owns(t, w)
    /\ RowOf(w, u) # 0
    /\ Add("calendar", days, t, w, u)
    /\ UNCHANGED job

CreateFeedback(u, t, w) ==
    /\ Begin
    /\ t \in DOMAIN tenants
    /\ MayUse(u, w)
    /\ Add("feedback", 1, t, w, u)
    /\ UNCHANGED job

(* The list of insights is filled by whoever finds it empty. *)
ListInsights(r, t) ==
    /\ Idle(r) /\ Begin
    /\ t \in DOMAIN tenants
    /\ \A i \in DOMAIN rows : <<rows[i].kind, rows[i].tenant>> # <<"insight", t>>
    /\ Note(r, [op |-> "insight", tenant |-> t])
    /\ UNCHANGED <<tables, audit>>

(* The one change without an audit event. *)
WriteInsight(r) ==
    /\ At(r, "insight")
    /\ Len(rows) < MaxRows
    /\ rows' = Append(rows, [kind |-> "insight", tenant |-> job[r].tenant,
                             workspace |-> NoWork])
    /\ Ends(r)
    /\ UNCHANGED <<tenants, organizations, workspaces, members, subscriptions, revoked,
                   audit, calls>>

(* A statement fails or the process ends: the transaction is rolled back. *)
Abort(r) ==
    /\ ~Idle(r)
    /\ Ends(r)
    /\ UNCHANGED <<tables, audit, calls>>

-----------------------------------------------------------------------------
MemberStep(r) ==
    \/ \E u, m \in Users, t \in TenantIds, w \in WorkIds, role \in Roles :
          CheckMember(r, u, t, w, m, role)
    \/ SelectMember(r)
    \/ WriteMember(r)
    \/ \E u \in Users, t \in TenantIds, w \in WorkIds : CheckInvitation(r, u, t, w)
    \/ WriteInvitation(r)

Setup ==
    \E u \in Users :
       \/ \E s \in Slugs : CreateTenant(u, s)
       \/ \E t \in TenantIds : CreateOrganization(u, t)
       \/ \E t, o \in TenantIds, s \in Slugs : CreateWorkspace(u, t, o, s)

Use ==
    \E u \in Users, t \in TenantIds :
       \/ RecordPayment(u, t)
       \/ \E w \in WorkIds \cup {NoWork} :
             \/ RecordUsage(u, t, w) \/ CreateApiKey(u, t, w)
             \/ CreateNotificationChannel(u, t, w) \/ CreateFeedback(u, t, w)
       \/ \E k \in DOMAIN rows : DispatchNotification(u, t, k)
       \/ \E w \in WorkIds, days \in 1..MaxDays : GenerateContentCalendar(u, t, w, days)

Next ==
    \/ Setup
    \/ Use
    \/ \E u \in Users, k \in DOMAIN rows : RevokeApiKey(u, k)
    \/ \E r \in Requests :
          \/ MemberStep(r)
          \/ \E u \in Users, t \in TenantIds, p \in Plans, s \in Statuses :
                SelectSubscription(r, u, t, p, s)
          \/ WriteSubscription(r)
          \/ \E t \in TenantIds : ListInsights(r, t)
          \/ WriteInsight(r)
          \/ Abort(r)

Spec == Init /\ [][Next]_vars

-----------------------------------------------------------------------------
(* Properties *)

TypeOK ==
    /\ tenants \in Seq(Slugs) /\ Len(tenants) <= MaxTenants
    /\ organizations \in Seq(TenantIds)
    /\ workspaces \in Seq([tenant : TenantIds, organization : Nat, slug : Slugs])
    /\ Len(workspaces) <= MaxWorkspaces
    /\ members \in Seq(MemberRow)
    /\ subscriptions \in Seq(PlanRow)
    /\ rows \in Seq([kind : Kinds, tenant : TenantIds, workspace : WorkIds \cup {NoWork}])
    /\ revoked \subseteq DOMAIN rows
    /\ audit \in Seq([action : Actions, tenant : TenantIds, workspace : WorkIds \cup {NoWork},
                      actor : Users, user : Users, role : Roles, count : Nat])
    /\ job \in [Requests -> Jobs \cup {NoJob}]
    /\ calls \in Nat

Granting == {"workspace_created", "workspace_member_upserted"}

(* The audit event i made the user u an administrator of the workspace w. *)
MakesAdmin(i, w, u) ==
    /\ audit[i].action \in Granting
    /\ audit[i].workspace = w /\ audit[i].user = u /\ audit[i].role \in Admins

(* Whoever was made a member of a workspace, or invited, was so by someone *)
(* whom the audit timeline shows to have been made an administrator of it  *)
(* before: rights go back to the creator of the workspace, however many    *)
(* requests change memberships at once.                                    *)
GrantsFromAdmins ==
    \A i \in DOMAIN audit :
        audit[i].action \in {"workspace_member_upserted", "invitation"} =>
            \E j \in 1..(i - 1) : MakesAdmin(j, audit[i].workspace, audit[i].actor)

(* A user has one membership of a workspace, and it is filed under the     *)
(* tenant of that workspace, also when two requests add the user at once.  *)
OneMembership ==
    /\ \A i \in DOMAIN members : Owns(members[i].tenant, members[i].workspace)
    /\ \A i, j \in DOMAIN members :
          members[i].workspace = members[j].workspace /\ members[i].user = members[j].user
              => i = j

(* The limits of a subscription are those of its plan, although updates    *)
(* that cross write only some of its columns.                              *)
LimitsFollowPlan ==
    \A i \in DOMAIN subscriptions :
        subscriptions[i].limits = Limits(subscriptions[i].plan)

RowsOf(k, t, w) ==
    {i \in DOMAIN rows : rows[i] = [kind |-> k, tenant |-> t, workspace |-> w]}
EventsOf(k, t, w) ==
    {i \in DOMAIN audit : <<audit[i].action, audit[i].tenant, audit[i].workspace>> = <<k, t, w>>}

(* The rows that these events tell of: as many by each as it counts. *)
ToldBy(k, t, w) == UNION {{i} \X (1..audit[i].count) : i \in EventsOf(k, t, w)}

(* The audit timeline tells of every row, in the tenant and the workspace  *)
(* it was written for, and of none that was rolled back.                   *)
AuditTellsRows ==
    \A k \in Kinds \ {"insight"}, t \in TenantIds, w \in WorkIds \cup {NoWork} :
        Cardinality(RowsOf(k, t, w)) = Cardinality(ToldBy(k, t, w))

(* The feature flags of a subscription are those of its plan. *)
FlagsFollowPlan ==
    \A i \in DOMAIN subscriptions :
        subscriptions[i].flags = Flags(subscriptions[i].plan)

(* A membership has the role that the audit timeline gave it last. *)
AuditTellsRole ==
    \A i \in DOMAIN members :
        \E n \in DOMAIN audit :
            /\ audit[n].action \in Granting
            /\ audit[n].workspace = members[i].workspace
            /\ audit[n].user = members[i].user /\ audit[n].role = members[i].role
            /\ \A k \in (n + 1)..Len(audit) :
                  audit[k].action \in Granting /\ audit[k].workspace = members[i].workspace
                      => audit[k].user # members[i].user

(* A tenant has one subscription. *)
OneSubscription ==
    \A i, j \in DOMAIN subscriptions :
        subscriptions[i].tenant = subscriptions[j].tenant => i = j
=============================================================================
