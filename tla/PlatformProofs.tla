--------------------------- MODULE PlatformProofs ---------------------------
(***************************************************************************)
(* What holds of the platform for any users, plans and requests: rows are  *)
(* well-formed, a subscription keeps the limits of its plan, a user has    *)
(* one membership of a workspace, and every membership and invitation goes *)
(* back to an administrator whom the audit timeline shows.                 *)
(***************************************************************************)
EXTENDS Platform, FiniteSetTheorems, SequenceTheorems, TLAPS

AnyRow   == [kind : Kinds, tenant : TenantIds, workspace : WorkIds \cup {NoWork}]
AnyEvent == [action : Actions, tenant : TenantIds, workspace : WorkIds \cup {NoWork},
             actor : Users, user : Users, role : Roles, count : Nat]
AnyWork  == [tenant : TenantIds, organization : Nat, slug : Slugs]

-----------------------------------------------------------------------------
(* Rows *)

\* A membership that is found is one of the user in the workspace.
LEMMA RowOfFound ==
    ASSUME NEW w, NEW u, members \in Seq(MemberRow), RowOf(w, u) # 0
    PROVE  /\ RowOf(w, u) \in DOMAIN members
           /\ members[RowOf(w, u)].workspace = w
           /\ members[RowOf(w, u)].user = u
  BY DEF RowOf

\* Without one there is no such row.
LEMMA RowOfNone ==
    ASSUME NEW w, NEW u, members \in Seq(MemberRow), RowOf(w, u) = 0
    PROVE  \A i \in DOMAIN members : ~(members[i].workspace = w /\ members[i].user = u)
<1> DEFINE found == {i \in DOMAIN members : members[i].workspace = w /\ members[i].user = u}
<1>1. CASE found = {}
  BY <1>1
<1>2. CASE found # {}
  <2>1. (CHOOSE i \in found : TRUE) \in found
    BY <1>2
  <2>2. RowOf(w, u) \in DOMAIN members
    BY <1>2, <2>1 DEF RowOf
  <2>3. 0 \notin DOMAIN members
    BY LenProperties
  <2>4. QED
    BY <2>2, <2>3
<1>3. QED
  BY <1>1, <1>2

\* What a request keeps is told by what it is about to do.
LEMMA JobKinds ==
    ASSUME TypeOK, NEW r \in Requests
    PROVE  /\ At(r, "select") => job[r] \in MemberJobs
           /\ At(r, "member") => job[r] \in MemberJobs
           /\ At(r, "invitation") => job[r] \in InviteJobs
           /\ At(r, "subscription") => job[r] \in PlanJobs
           /\ At(r, "insight") => job[r] \in InsightJobs
<1>1. job[r] # NoJob => job[r] \in Jobs
  BY DEF TypeOK
<1>2. \A j \in MemberJobs : j.op \in {"select", "member"}
  BY DEF MemberJobs
<1>3. \A j \in InviteJobs : j.op = "invitation"
  BY DEF InviteJobs
<1>4. \A j \in PlanJobs : j.op = "subscription"
  BY DEF PlanJobs
<1>5. \A j \in InsightJobs : j.op = "insight"
  BY DEF InsightJobs
<1>6. QED
  BY <1>1, <1>2, <1>3, <1>4, <1>5 DEF At, Idle, Jobs

LEMMA UpdatedSeq ==
    ASSUME NEW S, NEW s \in Seq(S), NEW k, NEW x, k \in DOMAIN s => x \in S
    PROVE  [s EXCEPT ![k] = x] \in Seq(S)
<1>1. s \in [1..Len(s) -> S] /\ Len(s) \in Nat
  BY LenProperties
<1>2. [s EXCEPT ![k] = x] \in [1..Len(s) -> S]
  BY <1>1
<1>3. QED
  BY <1>1, <1>2, SeqDef

LEMMA RowTyped ==
    ASSUME TypeOK, NEW k \in DOMAIN rows
    PROVE  rows[k] \in AnyRow
<1>1. rows \in Seq(AnyRow)
  BY DEF TypeOK, AnyRow
<1>2. QED
  BY <1>1, ElementOfSeq, LenProperties

LEMMA EventTyped ==
    ASSUME NEW a \in Actions, NEW t \in TenantIds, NEW w \in WorkIds \cup {NoWork}, NEW u \in Users
    PROVE  Event(a, t, w, u) \in AnyEvent
  BY DEF Event, AnyEvent, Roles, Actions

LEMMA TimesTyped ==
    ASSUME NEW S, NEW n \in Nat, NEW x \in S
    PROVE  Times(n, x) \in Seq(S)
  BY DEF Times

\* Adding rows keeps the tables well-formed.
LEMMA AddTyped ==
    ASSUME TypeOK, NEW kind \in Kinds, NEW n \in Nat, NEW t \in TenantIds,
           NEW w \in WorkIds \cup {NoWork}, NEW u \in Users, Add(kind, n, t, w, u)
    PROVE  /\ rows' \in Seq(AnyRow)
           /\ DOMAIN rows \subseteq DOMAIN rows'
           /\ audit' \in Seq(AnyEvent)
<1> DEFINE row == [kind |-> kind, tenant |-> t, workspace |-> w]
           ev == [Event(kind, t, w, u) EXCEPT !.count = n]
<1>1. rows \in Seq(AnyRow) /\ audit \in Seq(AnyEvent)
  BY DEF TypeOK, AnyRow, AnyEvent
<1>2. row \in AnyRow
  BY DEF AnyRow
<1>3. Times(n, row) \in Seq(AnyRow)
  BY <1>2, TimesTyped
<1>4. rows' = rows \o Times(n, row)
  BY DEF Add
<1>5. rows' \in Seq(AnyRow) /\ Len(rows') = Len(rows) + Len(Times(n, row))
  BY <1>1, <1>3, <1>4, ConcatProperties
<1>6. DOMAIN rows \subseteq DOMAIN rows'
  BY <1>1, <1>3, <1>5, LenProperties
<1>7. Event(kind, t, w, u) \in AnyEvent
  <2>1. kind \in Actions
    BY DEF Actions
  <2>2. QED
    BY <2>1, EventTyped
<1>8. ev \in AnyEvent
  BY <1>7 DEF AnyEvent
<1>9. audit' = Append(audit, ev)
  BY DEF Add, Audited
<1>10. audit' \in Seq(AnyEvent)
  BY <1>1, <1>8, <1>9, AppendProperties
<1>11. QED
  BY <1>5, <1>6, <1>10

LEMMA AuditedTyped ==
    ASSUME TypeOK, NEW ev \in AnyEvent, Audited(ev)
    PROVE  audit' \in Seq(AnyEvent)
  BY AppendProperties DEF TypeOK, Audited, AnyEvent

-----------------------------------------------------------------------------
(* Types *)

\* Every request that writes one table in one step.
LEMMA AddKeepsTypes ==
    ASSUME TypeOK, NEW kind \in Kinds, NEW n \in Nat, NEW t \in TenantIds,
           NEW w \in WorkIds \cup {NoWork}, NEW u \in Users, Add(kind, n, t, w, u),
           job' \in [Requests -> Jobs \cup {NoJob}], calls' \in Nat
    PROVE  TypeOK'
<1>1. rows' \in Seq(AnyRow) /\ DOMAIN rows \subseteq DOMAIN rows' /\ audit' \in Seq(AnyEvent)
  BY AddTyped
<1>2. UNCHANGED <<tenants, organizations, workspaces, members, subscriptions, revoked>>
  BY DEF Add
<1>3. QED
  BY <1>1, <1>2 DEF TypeOK, AnyRow, AnyEvent

LEMMA SetupTypes == TypeOK /\ Setup => TypeOK'
<1> SUFFICES ASSUME TypeOK, Setup PROVE TypeOK'
  OBVIOUS
<1> PICK u \in Users :
         \/ \E s \in Slugs : CreateTenant(u, s)
         \/ \E t \in TenantIds : CreateOrganization(u, t)
         \/ \E t, o \in TenantIds, s \in Slugs : CreateWorkspace(u, t, o, s)
  BY DEF Setup
<1>1. ASSUME NEW s \in Slugs, CreateTenant(u, s) PROVE TypeOK'
  <2>1. Len(tenants) \in Nat /\ Len(tenants) + 1 \in TenantIds
    BY <1>1, LenProperties, PlatformAssumption DEF TypeOK, CreateTenant, TenantIds
  <2>2. tenants' \in Seq(Slugs) /\ Len(tenants') <= MaxTenants
    BY <1>1, AppendProperties, PlatformAssumption DEF TypeOK, CreateTenant
  <2>3. Event("tenant_created", Len(tenants) + 1, NoWork, u) \in AnyEvent
    BY <2>1 DEF Event, AnyEvent, Roles, Actions
  <2>4. audit' \in Seq(AnyEvent)
    BY <1>1, <2>3, AuditedTyped DEF CreateTenant
  <2>5. QED
    BY <1>1, <2>2, <2>4 DEF CreateTenant, TypeOK, Begin, AnyEvent
<1>2. ASSUME NEW t \in TenantIds, CreateOrganization(u, t) PROVE TypeOK'
  <2>1. Event("organization_created", t, NoWork, u) \in AnyEvent
    BY DEF Event, AnyEvent, Roles, Actions
  <2>2. audit' \in Seq(AnyEvent)
    BY <1>2, <2>1, AuditedTyped DEF CreateOrganization
  <2>3. organizations' \in Seq(TenantIds)
    BY <1>2, AppendProperties DEF TypeOK, CreateOrganization
  <2>4. QED
    BY <1>2, <2>2, <2>3 DEF CreateOrganization, TypeOK, Begin, AnyEvent
<1>3. ASSUME NEW t \in TenantIds, NEW o \in TenantIds, NEW s \in Slugs,
             CreateWorkspace(u, t, o, s)
      PROVE  TypeOK'
  <2> DEFINE w == Len(workspaces) + 1
  <2>1. w \in WorkIds
    BY <1>3, LenProperties, PlatformAssumption DEF TypeOK, CreateWorkspace, WorkIds
  <2>2. [tenant |-> t, organization |-> o, slug |-> s] \in AnyWork
    BY DEF AnyWork, TenantIds
  <2>3. workspaces' \in Seq(AnyWork) /\ Len(workspaces') <= MaxWorkspaces
    BY <1>3, <2>2, AppendProperties, LenProperties, PlatformAssumption
    DEF TypeOK, CreateWorkspace, AnyWork
  <2>4. [tenant |-> t, workspace |-> w, user |-> u, role |-> "owner"] \in MemberRow
    BY <2>1 DEF MemberRow, Roles
  <2>5. members' \in Seq(MemberRow)
    BY <1>3, <2>4, AppendProperties DEF TypeOK, CreateWorkspace
  <2>6. Event("workspace_created", t, w, u) \in AnyEvent
    BY <2>1 DEF Event, AnyEvent, Roles, Actions
  <2>7. audit' \in Seq(AnyEvent)
    BY <1>3, <2>6, AuditedTyped DEF CreateWorkspace
  <2>8. QED
    BY <1>3, <2>3, <2>5, <2>7 DEF CreateWorkspace, TypeOK, Begin, AnyEvent, AnyWork
<1>4. QED
  BY <1>1, <1>2, <1>3

LEMMA UseTypes == TypeOK /\ Use => TypeOK'
<1> SUFFICES ASSUME TypeOK, Use PROVE TypeOK'
  OBVIOUS
<1> PICK u \in Users, t \in TenantIds :
       \/ RecordPayment(u, t)
       \/ \E w \in WorkIds \cup {NoWork} :
             \/ RecordUsage(u, t, w) \/ CreateApiKey(u, t, w)
             \/ CreateNotificationChannel(u, t, w) \/ CreateFeedback(u, t, w)
       \/ \E k \in DOMAIN rows : DispatchNotification(u, t, k)
       \/ \E w \in WorkIds, days \in 1..MaxDays : GenerateContentCalendar(u, t, w, days)
  BY DEF Use
<1> USE DEF Kinds
<1>0. ASSUME Begin, UNCHANGED job
      PROVE  job' \in [Requests -> Jobs \cup {NoJob}] /\ calls' \in Nat
  BY <1>0 DEF TypeOK, Begin
<1>1. CASE RecordPayment(u, t)
  BY <1>0, <1>1, AddKeepsTypes DEF RecordPayment
<1>2. ASSUME NEW w \in WorkIds \cup {NoWork}, RecordUsage(u, t, w) PROVE TypeOK'
  BY <1>0, <1>2, AddKeepsTypes DEF RecordUsage
<1>3. ASSUME NEW w \in WorkIds \cup {NoWork}, CreateApiKey(u, t, w) PROVE TypeOK'
  BY <1>0, <1>3, AddKeepsTypes DEF CreateApiKey
<1>4. ASSUME NEW w \in WorkIds \cup {NoWork}, CreateNotificationChannel(u, t, w) PROVE TypeOK'
  BY <1>0, <1>4, AddKeepsTypes DEF CreateNotificationChannel
<1>5. ASSUME NEW w \in WorkIds \cup {NoWork}, CreateFeedback(u, t, w) PROVE TypeOK'
  BY <1>0, <1>5, AddKeepsTypes DEF CreateFeedback
<1>6. ASSUME NEW k \in DOMAIN rows, DispatchNotification(u, t, k) PROVE TypeOK'
  <2>1. PICK w \in WorkIds \cup {NoWork} : w = rows[k].workspace
    BY RowTyped DEF AnyRow
  <2>2. Add("event", 1, t, w, u)
    BY <1>6, <2>1 DEF DispatchNotification
  <2>3. QED
    BY <1>0, <1>6, <2>2, AddKeepsTypes DEF DispatchNotification
<1>7. ASSUME NEW w \in WorkIds, NEW days \in 1..MaxDays, GenerateContentCalendar(u, t, w, days)
      PROVE  TypeOK'
  BY <1>0, <1>7, AddKeepsTypes, PlatformAssumption DEF GenerateContentCalendar
<1>8. QED
  BY <1>1, <1>2, <1>3, <1>4, <1>5, <1>6, <1>7

LEMMA RevokeTypes ==
    ASSUME TypeOK, NEW u \in Users, NEW k \in DOMAIN rows, RevokeApiKey(u, k)
    PROVE  TypeOK'
<1>1. PICK t \in TenantIds, w \in WorkIds \cup {NoWork} :
          t = rows[k].tenant /\ w = rows[k].workspace
  BY RowTyped DEF AnyRow
<1>2. audit' \in Seq(AnyEvent)
  <2>1. Event("api_key_revoked", t, w, u) \in AnyEvent
    BY DEF Event, AnyEvent, Roles, Actions
  <2>2. Audited(Event("api_key_revoked", t, w, u))
    BY <1>1 DEF RevokeApiKey
  <2>3. QED
    BY <2>1, <2>2, AuditedTyped
<1>3. QED
  BY <1>2 DEF RevokeApiKey, TypeOK, Begin, AnyEvent

-----------------------------------------------------------------------------
(* Memberships and invitations *)

LEMMA CheckMemberTypes ==
    ASSUME TypeOK, NEW r \in Requests, NEW u \in Users, NEW m \in Users, NEW t \in TenantIds,
           NEW w \in WorkIds, NEW role \in Roles, CheckMember(r, u, t, w, m, role)
    PROVE  TypeOK' /\ job'[r] \in MemberJobs
<1>1. members \in Seq(MemberRow) /\ RowOf(w, u) # 0
  BY DEF TypeOK, CheckMember, IsAdmin
<1>2. RowOf(w, u) \in DOMAIN members
  BY <1>1, RowOfFound
<1>3. Seen(RowOf(w, u)) \in [id : Nat, role : Roles]
  <2>1. RowOf(w, u) \in Nat /\ members[RowOf(w, u)] \in MemberRow
    BY <1>1, <1>2, LenProperties, ElementOfSeq
  <2>2. QED
    BY <1>1, <2>1 DEF Seen, MemberRow
<1> DEFINE j == [op |-> IF m = u THEN "member" ELSE "select", actor |-> u, tenant |-> t,
                 workspace |-> w, user |-> m, role |-> role, read |-> Seen(RowOf(w, u))]
<1>4. j \in MemberJobs
  BY <1>3 DEF MemberJobs
<1>5. job' = [job EXCEPT ![r] = j]
  BY DEF CheckMember, Note
<1>6. job' \in [Requests -> Jobs \cup {NoJob}]
  BY <1>4, <1>5 DEF TypeOK, Jobs
<1>7. QED
  BY <1>4, <1>5, <1>6 DEF CheckMember, TypeOK, Begin, tables

LEMMA SelectMemberTypes ==
    ASSUME TypeOK, NEW r \in Requests, SelectMember(r)
    PROVE  TypeOK' /\ job'[r] \in MemberJobs
<1>1. job[r] \in MemberJobs
  BY JobKinds DEF SelectMember
<1> DEFINE i == RowOf(job[r].workspace, job[r].user)
<1>2. members \in Seq(MemberRow)
  BY DEF TypeOK
<1>3. PICK w, u : w = job[r].workspace /\ u = job[r].user
  OBVIOUS
<1>4. i # 0 => i \in DOMAIN members
  BY <1>2, <1>3, RowOfFound
<1>5. Seen(i) \in [id : Nat, role : Roles]
  <2>1. CASE i = 0
    BY <2>1 DEF Seen, Roles
  <2>2. CASE i # 0
    <3>1. i \in Nat /\ members[i] \in MemberRow
      BY <1>2, <1>4, <2>2, LenProperties, ElementOfSeq
    <3>2. QED
      BY <2>2, <3>1 DEF Seen, MemberRow
  <2>3. QED
    BY <2>1, <2>2
<1>6. [job[r] EXCEPT !.op = "member", !.read = Seen(i)] \in MemberJobs
  BY <1>1, <1>5 DEF MemberJobs
<1>7. job' = [job EXCEPT ![r] = [job[r] EXCEPT !.op = "member", !.read = Seen(i)]]
  BY DEF SelectMember, Note
<1>8. QED
  BY <1>6, <1>7 DEF SelectMember, TypeOK, tables, Jobs

\* What WriteMember does to the members: nothing, a new row, or a new role.
LEMMA WriteMemberCases ==
    ASSUME TypeOK, NEW r \in Requests, WriteMember(r)
    PROVE  \/ UNCHANGED members
           \/ /\ job[r].read.id = 0 /\ RowOf(job[r].workspace, job[r].user) = 0
              /\ members' = Append(members, [tenant |-> job[r].tenant,
                    workspace |-> job[r].workspace, user |-> job[r].user, role |-> job[r].role])
           \/ /\ job[r].read.id # 0
              /\ members' = [members EXCEPT ![job[r].read.id].role = job[r].role]
  BY DEF WriteMember, MemberTaken

LEMMA MemberEventTyped ==
    ASSUME NEW j \in MemberJobs
    PROVE  MemberEvent(j) \in AnyEvent
<1>1. PICK t \in TenantIds, w \in WorkIds, u \in Users, m \in Users, role \in Roles :
          t = j.tenant /\ w = j.workspace /\ u = j.actor /\ m = j.user /\ role = j.role
  BY DEF MemberJobs
<1>2. [action |-> "workspace_member_upserted", tenant |-> t, workspace |-> w, actor |-> u,
       user |-> m, role |-> role, count |-> 1] \in AnyEvent
  BY DEF AnyEvent, Actions
<1>3. QED
  BY <1>1, <1>2 DEF MemberEvent

LEMMA WriteMemberTypes ==
    ASSUME TypeOK, NEW r \in Requests, WriteMember(r)
    PROVE  TypeOK'
<1>1. job[r] \in MemberJobs
  BY JobKinds DEF WriteMember
<1>2. members \in Seq(MemberRow)
  BY DEF TypeOK
<1> DEFINE row == [tenant |-> job[r].tenant, workspace |-> job[r].workspace,
                   user |-> job[r].user, role |-> job[r].role]
<1>3. row \in MemberRow
  BY <1>1 DEF MemberRow, MemberJobs
<1>4. Append(members, row) \in Seq(MemberRow)
  BY <1>2, <1>3, AppendProperties
<1>5. [members EXCEPT ![job[r].read.id].role = job[r].role] \in Seq(MemberRow)
  <2>1. job[r].read.id \in DOMAIN members =>
            [members[job[r].read.id] EXCEPT !.role = job[r].role] \in MemberRow
    <3>1. job[r].role \in Roles
      BY <1>1 DEF MemberJobs
    <3>2. job[r].read.id \in DOMAIN members => members[job[r].read.id] \in MemberRow
      BY <1>2
    <3>3. QED
      BY <3>1, <3>2 DEF MemberRow
  <2>2. QED
    BY <1>2, <2>1, UpdatedSeq
<1>6. members' \in Seq(MemberRow)
  BY <1>2, <1>4, <1>5, WriteMemberCases
<1>7. MemberEvent(job[r]) \in AnyEvent
  BY <1>1, MemberEventTyped
<1>8. audit' \in Seq(AnyEvent)
  <2>1. audit' = audit \/ audit' = Append(audit, MemberEvent(job[r]))
    BY DEF WriteMember, Audited
  <2>2. audit \in Seq(AnyEvent)
    BY DEF TypeOK, AnyEvent
  <2>3. QED
    BY <1>7, <2>1, <2>2, AppendProperties
<1>9. QED
  BY <1>6, <1>8 DEF WriteMember, Ends, TypeOK, AnyEvent

LEMMA InvitationTypes ==
    ASSUME TypeOK, NEW r \in Requests,
           \/ \E u \in Users, t \in TenantIds, w \in WorkIds : CheckInvitation(r, u, t, w)
           \/ WriteInvitation(r)
    PROVE  TypeOK'
<1>1. ASSUME NEW u \in Users, NEW t \in TenantIds, NEW w \in WorkIds, CheckInvitation(r, u, t, w)
      PROVE  TypeOK'
  <2>1. [op |-> "invitation", actor |-> u, tenant |-> t, workspace |-> w] \in InviteJobs
    BY DEF InviteJobs
  <2>2. job' \in [Requests -> Jobs \cup {NoJob}]
    BY <1>1, <2>1 DEF CheckInvitation, Note, TypeOK, Jobs
  <2>3. QED
    BY <1>1, <2>2 DEF CheckInvitation, TypeOK, Begin, tables
<1>2. ASSUME WriteInvitation(r) PROVE TypeOK'
  <2>1. job[r] \in InviteJobs
    BY <1>2, JobKinds DEF WriteInvitation
  <2>2. PICK t \in TenantIds, w \in WorkIds, u \in Users :
            t = job[r].tenant /\ w = job[r].workspace /\ u = job[r].actor
    BY <2>1 DEF InviteJobs
  <2>3. Add("invitation", 1, t, w, u)
    BY <1>2, <2>2 DEF WriteInvitation
  <2>4. job' \in [Requests -> Jobs \cup {NoJob}] /\ calls' \in Nat
    BY <1>2 DEF WriteInvitation, Ends, TypeOK
  <2>5. "invitation" \in Kinds
    BY DEF Kinds
  <2>6. QED
    BY <2>3, <2>4, <2>5, AddKeepsTypes
<1>3. QED
  BY <1>1, <1>2

-----------------------------------------------------------------------------
(* Subscriptions and insights *)

LEMMA SelectSubscriptionTypes ==
    ASSUME TypeOK, NEW r \in Requests, NEW u \in Users, NEW t \in TenantIds,
           NEW p \in Plans, NEW s \in Statuses, SelectSubscription(r, u, t, p, s)
    PROVE  TypeOK'
<1>1. PICK i \in Subscribed(t) \cup {0} :
         Note(r, [op |-> "subscription", actor |-> u, tenant |-> t, plan |-> p, status |-> s,
                  id |-> i, read |-> IF i = 0 THEN NoJob ELSE subscriptions[i]])
  BY DEF SelectSubscription
<1>2. subscriptions \in Seq(PlanRow)
  BY DEF TypeOK
<1>3. i # 0 => i \in DOMAIN subscriptions
  BY DEF Subscribed
<1>4. i \in Nat /\ (i # 0 => subscriptions[i] \in PlanRow)
  BY <1>2, <1>3, LenProperties, ElementOfSeq
<1>5. [op |-> "subscription", actor |-> u, tenant |-> t, plan |-> p, status |-> s,
       id |-> i, read |-> IF i = 0 THEN NoJob ELSE subscriptions[i]] \in PlanJobs
  BY <1>4 DEF PlanJobs
<1>6. job' \in [Requests -> Jobs \cup {NoJob}]
  BY <1>1, <1>5 DEF Note, TypeOK, Jobs
<1>7. QED
  BY <1>6 DEF SelectSubscription, TypeOK, Begin, tables

\* The row that a request wants, and the row that its UPDATE leaves.
Wanted(r) == [tenant |-> job[r].tenant, plan |-> job[r].plan, status |-> job[r].status,
              limits |-> Limits(job[r].plan), flags |-> Flags(job[r].plan)]

LEMMA WantedTyped ==
    ASSUME NEW r \in Requests, job[r] \in PlanJobs
    PROVE  Wanted(r) \in PlanRow
  BY DEF Wanted, PlanJobs, PlanRow, Limits, Flags

LEMMA FlushedRow ==
    ASSUME NEW now \in PlanRow, NEW read, NEW new \in PlanRow
    PROVE  /\ Flushed(now, read, new) \in PlanRow
           /\ Flushed(now, read, new).plan = IF new.plan = read.plan THEN now.plan ELSE new.plan
           /\ Flushed(now, read, new).limits =
                 IF new.limits = read.limits THEN now.limits ELSE new.limits
<1>1. DOMAIN now = {"tenant", "plan", "status", "limits", "flags"}
  BY DEF PlanRow
<1> DEFINE row == Flushed(now, read, new)
<1>2. row = [f \in {"tenant", "plan", "status", "limits", "flags"} |->
                IF new[f] = read[f] THEN now[f] ELSE new[f]]
  BY <1>1 DEF Flushed
<1>3. row = [tenant |-> row.tenant, plan |-> row.plan, status |-> row.status,
             limits |-> row.limits, flags |-> row.flags]
  BY <1>2
<1>4. row.tenant \in TenantIds /\ row.plan \in Plans /\ row.status \in Statuses
  BY <1>2 DEF PlanRow
<1>5. /\ row.limits \in {PlanLimits[p] : p \in Plans}
      /\ row.flags \in {PlanFlags[p] : p \in Plans}
  BY <1>2 DEF PlanRow
<1>6. row \in PlanRow
  BY <1>3, <1>4, <1>5 DEF PlanRow
<1>7. QED
  BY <1>2, <1>6

LEMMA WriteSubscriptionTypes ==
    ASSUME TypeOK, NEW r \in Requests, WriteSubscription(r)
    PROVE  /\ TypeOK'
           /\ job[r] \in PlanJobs
           /\ \/ /\ job[r].id = 0
                 /\ subscriptions' = Append(subscriptions, Wanted(r))
              \/ /\ job[r].id # 0
                 /\ subscriptions' = [subscriptions EXCEPT
                        ![job[r].id] = Flushed(subscriptions[job[r].id], job[r].read, Wanted(r))]
<1>1. job[r] \in PlanJobs
  BY JobKinds DEF WriteSubscription
<1>2. \/ /\ job[r].id = 0
         /\ subscriptions' = Append(subscriptions, Wanted(r))
      \/ /\ job[r].id # 0
         /\ subscriptions' = [subscriptions EXCEPT
                ![job[r].id] = Flushed(subscriptions[job[r].id], job[r].read, Wanted(r))]
  BY DEF WriteSubscription, Wanted
<1>3. subscriptions \in Seq(PlanRow) /\ Wanted(r) \in PlanRow
  BY <1>1, WantedTyped DEF TypeOK
<1>4. subscriptions' \in Seq(PlanRow)
  <2>1. CASE subscriptions' = Append(subscriptions, Wanted(r))
    BY <1>3, <2>1, AppendProperties
  <2>2. CASE subscriptions' = [subscriptions EXCEPT
                ![job[r].id] = Flushed(subscriptions[job[r].id], job[r].read, Wanted(r))]
    <3>1. job[r].id \in DOMAIN subscriptions => subscriptions[job[r].id] \in PlanRow
      BY <1>3
    <3>2. job[r].id \in DOMAIN subscriptions =>
              Flushed(subscriptions[job[r].id], job[r].read, Wanted(r)) \in PlanRow
      BY <1>3, <3>1, FlushedRow
    <3>3. QED
      BY <1>3, <2>2, <3>2, UpdatedSeq
  <2>3. QED
    BY <1>2, <2>1, <2>2
<1>5. Event("subscription_upserted", job[r].tenant, NoWork, job[r].actor) \in AnyEvent
  <2>1. PICK t \in TenantIds, u \in Users : t = job[r].tenant /\ u = job[r].actor
    BY <1>1 DEF PlanJobs
  <2>2. Event("subscription_upserted", t, NoWork, u) \in AnyEvent
    BY DEF Event, AnyEvent, Roles, Actions
  <2>3. QED
    BY <2>1, <2>2
<1>6. audit' \in Seq(AnyEvent)
  BY <1>5, AppendProperties DEF WriteSubscription, Audited, TypeOK, AnyEvent
<1>7. QED
  BY <1>1, <1>2, <1>4, <1>6 DEF WriteSubscription, Ends, TypeOK, AnyEvent

LEMMA InsightTypes ==
    ASSUME TypeOK, NEW r \in Requests,
           (\E t \in TenantIds : ListInsights(r, t)) \/ WriteInsight(r)
    PROVE  TypeOK'
<1>1. ASSUME NEW t \in TenantIds, ListInsights(r, t) PROVE TypeOK'
  <2>1. [op |-> "insight", tenant |-> t] \in InsightJobs
    BY DEF InsightJobs
  <2>2. job' \in [Requests -> Jobs \cup {NoJob}]
    BY <1>1, <2>1 DEF ListInsights, Note, TypeOK, Jobs
  <2>3. QED
    BY <1>1, <2>2 DEF ListInsights, TypeOK, Begin, tables
<1>2. ASSUME WriteInsight(r) PROVE TypeOK'
  <2>1. job[r].tenant \in TenantIds
    BY <1>2, JobKinds DEF WriteInsight, InsightJobs
  <2> DEFINE row == [kind |-> "insight", tenant |-> job[r].tenant, workspace |-> NoWork]
  <2>2. row \in AnyRow
    BY <2>1 DEF AnyRow, Kinds
  <2>3. rows \in Seq(AnyRow)
    BY DEF TypeOK, AnyRow
  <2>4. rows' \in Seq(AnyRow) /\ Len(rows') = Len(rows) + 1
    BY <1>2, <2>2, <2>3, AppendProperties DEF WriteInsight
  <2>5. DOMAIN rows \subseteq DOMAIN rows'
    BY <2>3, <2>4, LenProperties
  <2>6. QED
    BY <1>2, <2>4, <2>5 DEF WriteInsight, Ends, TypeOK, AnyRow
<1>3. QED
  BY <1>1, <1>2

LEMMA AbortTypes ==
    ASSUME TypeOK, NEW r \in Requests, Abort(r)
    PROVE  TypeOK'
  BY DEF Abort, Ends, TypeOK, tables

-----------------------------------------------------------------------------
LEMMA TypeInit == Init => TypeOK
  BY PlatformAssumption DEF Init, TypeOK

LEMMA TypeNext == TypeOK /\ [Next]_vars => TypeOK'
<1> SUFFICES ASSUME TypeOK, [Next]_vars PROVE TypeOK'
  OBVIOUS
<1>1. CASE Setup
  BY <1>1, SetupTypes
<1>2. CASE Use
  BY <1>2, UseTypes
<1>3. ASSUME NEW u \in Users, NEW k \in DOMAIN rows, RevokeApiKey(u, k) PROVE TypeOK'
  BY <1>3, RevokeTypes
<1>4. ASSUME NEW r \in Requests, MemberStep(r) PROVE TypeOK'
  <2>1. ASSUME NEW u \in Users, NEW m \in Users, NEW t \in TenantIds, NEW w \in WorkIds,
               NEW role \in Roles, CheckMember(r, u, t, w, m, role)
        PROVE  TypeOK'
    BY <2>1, CheckMemberTypes
  <2>2. CASE SelectMember(r)
    BY <2>2, SelectMemberTypes
  <2>3. CASE WriteMember(r)
    BY <2>3, WriteMemberTypes
  <2>4. CASE \/ \E u \in Users, t \in TenantIds, w \in WorkIds : CheckInvitation(r, u, t, w)
             \/ WriteInvitation(r)
    BY <2>4, InvitationTypes
  <2>5. QED
    BY <1>4, <2>1, <2>2, <2>3, <2>4 DEF MemberStep
<1>5. ASSUME NEW r \in Requests, NEW u \in Users, NEW t \in TenantIds, NEW p \in Plans,
             NEW s \in Statuses, SelectSubscription(r, u, t, p, s)
      PROVE  TypeOK'
  BY <1>5, SelectSubscriptionTypes
<1>6. ASSUME NEW r \in Requests, WriteSubscription(r) PROVE TypeOK'
  BY <1>6, WriteSubscriptionTypes
<1>7. ASSUME NEW r \in Requests, (\E t \in TenantIds : ListInsights(r, t)) \/ WriteInsight(r)
      PROVE  TypeOK'
  BY <1>7, InsightTypes
<1>8. ASSUME NEW r \in Requests, Abort(r) PROVE TypeOK'
  BY <1>8, AbortTypes
<1>9. CASE UNCHANGED vars
  BY <1>9 DEF vars, tables, TypeOK
<1>10. QED
  BY <1>1, <1>2, <1>3, <1>4, <1>5, <1>6, <1>7, <1>8, <1>9 DEF Next

\* The rows of every table, the audit events and what requests keep are
\* well-formed, for any users, plans and number of requests
\* (saas_repository.py).
THEOREM TypeCorrect == Spec => []TypeOK
<1>1. QED
  BY TypeInit, TypeNext, PTL DEF Spec

-----------------------------------------------------------------------------
(* Steps that leave memberships, subscriptions and requests alone *)

\* What is written by those who use a workspace.
Used == {"payment", "usage", "apikey", "channel", "event", "calendar", "feedback"}

LEMMA UseAdds ==
    ASSUME TypeOK, Use
    PROVE  /\ UNCHANGED job
           /\ \E kind \in Used, n \in Nat, t \in TenantIds, w \in WorkIds \cup {NoWork}, u \in Users :
                 Add(kind, n, t, w, u)
<1> PICK u \in Users, t \in TenantIds :
       \/ RecordPayment(u, t)
       \/ \E w \in WorkIds \cup {NoWork} :
             \/ RecordUsage(u, t, w) \/ CreateApiKey(u, t, w)
             \/ CreateNotificationChannel(u, t, w) \/ CreateFeedback(u, t, w)
       \/ \E k \in DOMAIN rows : DispatchNotification(u, t, k)
       \/ \E w \in WorkIds, days \in 1..MaxDays : GenerateContentCalendar(u, t, w, days)
  BY DEF Use
<1>1. UNCHANGED job
  BY DEF RecordPayment, RecordUsage, CreateApiKey, CreateNotificationChannel, CreateFeedback,
         DispatchNotification, GenerateContentCalendar
<1>2. \E kind \in Used, n \in Nat, w \in WorkIds \cup {NoWork} : Add(kind, n, t, w, u)
  <2>1. CASE RecordPayment(u, t)
    BY <2>1 DEF RecordPayment, Used
  <2>2. ASSUME NEW w \in WorkIds \cup {NoWork},
               \/ RecordUsage(u, t, w) \/ CreateApiKey(u, t, w)
               \/ CreateNotificationChannel(u, t, w) \/ CreateFeedback(u, t, w)
        PROVE  \E kind \in Used, n \in Nat : Add(kind, n, t, w, u)
    BY <2>2 DEF RecordUsage, CreateApiKey, CreateNotificationChannel, CreateFeedback, Used
  <2>3. ASSUME NEW k \in DOMAIN rows, DispatchNotification(u, t, k)
        PROVE  \E w \in WorkIds \cup {NoWork} : Add("event", 1, t, w, u)
    <3>1. rows[k].workspace \in WorkIds \cup {NoWork}
      BY RowTyped DEF AnyRow
    <3>2. QED
      BY <2>3, <3>1 DEF DispatchNotification
  <2>4. ASSUME NEW w \in WorkIds, NEW days \in 1..MaxDays, GenerateContentCalendar(u, t, w, days)
        PROVE  \E n \in Nat : Add("calendar", n, t, w, u)
    BY <2>4, PlatformAssumption DEF GenerateContentCalendar
  <2>5. {"calendar", "event"} \subseteq Used
    BY DEF Used
  <2>6. QED
    BY <2>1, <2>2, <2>3, <2>4, <2>5
<1>3. QED
  BY <1>1, <1>2

LEMMA UseFrame ==
    ASSUME TypeOK,
           Use \/ \E u \in Users, k \in DOMAIN rows : RevokeApiKey(u, k)
    PROVE  /\ UNCHANGED <<workspaces, members, subscriptions, job>>
           /\ \E ev \in AnyEvent :
                 /\ audit' = Append(audit, ev)
                 /\ ev.action \notin {"workspace_member_upserted", "invitation"}
<1>1. CASE Use
  <2>1. PICK kind \in Used, n \in Nat, t \in TenantIds, w \in WorkIds \cup {NoWork}, u \in Users :
            Add(kind, n, t, w, u)
    BY <1>1, UseAdds
  <2> DEFINE ev == [Event(kind, t, w, u) EXCEPT !.count = n]
  <2>2. ev \in AnyEvent /\ ev.action = kind
    <3>1. Event(kind, t, w, u) \in AnyEvent /\ Event(kind, t, w, u).action = kind
      BY DEF Event, AnyEvent, Roles, Actions, Kinds, Used
    <3>2. QED
      BY <3>1 DEF AnyEvent
  <2>3. audit' = Append(audit, ev)
    BY <2>1 DEF Add, Audited
  <2>4. kind \notin {"workspace_member_upserted", "invitation"}
    BY DEF Used
  <2>5. UNCHANGED <<workspaces, members, subscriptions, job>>
    BY <1>1, <2>1, UseAdds DEF Add
  <2>6. QED
    BY <2>2, <2>3, <2>4, <2>5
<1>2. ASSUME NEW u \in Users, NEW k \in DOMAIN rows, RevokeApiKey(u, k)
      PROVE  /\ UNCHANGED <<workspaces, members, subscriptions, job>>
             /\ \E ev \in AnyEvent :
                   /\ audit' = Append(audit, ev)
                   /\ ev.action \notin {"workspace_member_upserted", "invitation"}
  <2>1. PICK t \in TenantIds, w \in WorkIds \cup {NoWork} :
            t = rows[k].tenant /\ w = rows[k].workspace
    BY RowTyped DEF AnyRow
  <2>2. Event("api_key_revoked", t, w, u) \in AnyEvent
    BY DEF Event, AnyEvent, Roles, Actions
  <2>3. Event("api_key_revoked", t, w, u).action \notin {"workspace_member_upserted", "invitation"}
    BY DEF Event
  <2>4. QED
    BY <1>2, <2>1, <2>2, <2>3 DEF RevokeApiKey, Audited
<1>3. QED
  BY <1>1, <1>2

\* The job of a request after a step of request r.
LEMMA JobAfter ==
    ASSUME TypeOK, NEW r \in Requests, NEW q \in Requests, NEW j, job' = [job EXCEPT ![r] = j]
    PROVE  job'[q] = IF q = r THEN j ELSE job[q]
  BY DEF TypeOK

-----------------------------------------------------------------------------
(* Limits *)

\* A request that updates a subscription has read limits and plan together.
LimitsInv ==
    /\ LimitsFollowPlan
    /\ \A r \in Requests :
          At(r, "subscription") /\ job[r].id # 0 =>
              job[r].read \in PlanRow /\ job[r].read.limits = Limits(job[r].read.plan)

\* The columns that one UPDATE leaves belong together: it writes the limits
\* exactly when it writes the plan, as plans differ in their limits.
LEMMA FlushKeepsLimits ==
    ASSUME NEW now \in PlanRow, NEW read \in PlanRow, NEW new \in PlanRow,
           now.limits = Limits(now.plan), read.limits = Limits(read.plan),
           new.limits = Limits(new.plan)
    PROVE  Flushed(now, read, new).limits = Limits(Flushed(now, read, new).plan)
<1>1. new.plan \in Plans /\ read.plan \in Plans
  BY DEF PlanRow
<1>2. new.limits = read.limits <=> new.plan = read.plan
  BY <1>1, LimitsAssumption DEF Limits
<1>3. QED
  BY <1>2, FlushedRow

LEMMA LimitsNext == TypeOK /\ LimitsInv /\ [Next]_vars => LimitsInv'
<1> SUFFICES ASSUME TypeOK, LimitsInv, [Next]_vars PROVE LimitsInv'
  OBVIOUS
<1>0. subscriptions \in Seq(PlanRow)
  BY DEF TypeOK
<1>a. ASSUME UNCHANGED subscriptions,
             \A q \in Requests : job'[q] = job[q] \/ job'[q] = NoJob \/ job'[q].op # "subscription"
      PROVE  LimitsInv'
  BY <1>a DEF LimitsInv, LimitsFollowPlan, At, Idle, Limits
<1>b. ASSUME NEW r \in Requests, NEW j, job' = [job EXCEPT ![r] = j],
             j = NoJob \/ j.op # "subscription", UNCHANGED subscriptions
      PROVE  LimitsInv'
  BY <1>a, <1>b, JobAfter
<1>1. CASE Setup
  BY <1>a, <1>1 DEF Setup, CreateTenant, CreateOrganization, CreateWorkspace
<1>2. CASE Use \/ \E u \in Users, k \in DOMAIN rows : RevokeApiKey(u, k)
  BY <1>a, <1>2, UseFrame
<1>3. ASSUME NEW r \in Requests, MemberStep(r) PROVE LimitsInv'
  <2>1. ASSUME NEW u \in Users, NEW m \in Users, NEW t \in TenantIds, NEW w \in WorkIds,
               NEW role \in Roles, CheckMember(r, u, t, w, m, role)
        PROVE  LimitsInv'
    BY <1>b, <2>1 DEF CheckMember, Note, tables
  <2>2. CASE SelectMember(r)
    <3>1. job[r] \in MemberJobs
      BY <2>2, JobKinds DEF SelectMember
    <3> DEFINE j == [job[r] EXCEPT !.op = "member",
                                   !.read = Seen(RowOf(job[r].workspace, job[r].user))]
    <3>2. j.op = "member"
      BY <3>1 DEF MemberJobs
    <3>3. QED
      BY <1>b, <2>2, <3>2 DEF SelectMember, Note, tables
  <2>3. CASE WriteMember(r)
    BY <1>b, <2>3 DEF WriteMember, Ends
  <2>4. ASSUME NEW u \in Users, NEW t \in TenantIds, NEW w \in WorkIds, CheckInvitation(r, u, t, w)
        PROVE  LimitsInv'
    BY <1>b, <2>4 DEF CheckInvitation, Note, tables
  <2>5. CASE WriteInvitation(r)
    BY <1>b, <2>5 DEF WriteInvitation, Ends, Add
  <2>6. QED
    BY <1>3, <2>1, <2>2, <2>3, <2>4, <2>5 DEF MemberStep
<1>4. ASSUME NEW r \in Requests, NEW u \in Users, NEW t \in TenantIds, NEW p \in Plans,
             NEW s \in Statuses, SelectSubscription(r, u, t, p, s)
      PROVE  LimitsInv'
  <2>1. PICK i \in Subscribed(t) \cup {0} :
           job' = [job EXCEPT ![r] = [op |-> "subscription", actor |-> u, tenant |-> t,
                      plan |-> p, status |-> s, id |-> i,
                      read |-> IF i = 0 THEN NoJob ELSE subscriptions[i]]]
    BY <1>4 DEF SelectSubscription, Note
  <2>2. i # 0 => i \in DOMAIN subscriptions /\ subscriptions[i] \in PlanRow
    BY <1>0, ElementOfSeq, LenProperties DEF Subscribed
  <2>3. UNCHANGED subscriptions
    BY <1>4 DEF SelectSubscription, tables
  <2>4. \A q \in Requests : q # r => job'[q] = job[q]
    BY <2>1 DEF TypeOK
  <2>5. job'[r].id # 0 => job'[r].read \in PlanRow
                          /\ job'[r].read.limits = Limits(job'[r].read.plan)
    BY <2>1, <2>2 DEF TypeOK, LimitsInv, LimitsFollowPlan
  <2>6. QED
    BY <2>3, <2>4, <2>5 DEF LimitsInv, LimitsFollowPlan, At, Idle, Limits
<1>5. ASSUME NEW r \in Requests, WriteSubscription(r) PROVE LimitsInv'
  <2>1. job[r] \in PlanJobs /\ Wanted(r) \in PlanRow /\ Wanted(r).limits = Limits(Wanted(r).plan)
    BY <1>5, WriteSubscriptionTypes, WantedTyped DEF Wanted
  <2>2. LimitsFollowPlan'
    <3>1. CASE subscriptions' = Append(subscriptions, Wanted(r))
      BY <1>0, <2>1, <3>1, AppendProperties, LenProperties DEF LimitsInv, LimitsFollowPlan, Limits
    <3>2. CASE /\ job[r].id # 0
               /\ subscriptions' = [subscriptions EXCEPT
                    ![job[r].id] = Flushed(subscriptions[job[r].id], job[r].read, Wanted(r))]
      <4>1. job[r].read \in PlanRow /\ job[r].read.limits = Limits(job[r].read.plan)
        BY <1>5, <3>2 DEF LimitsInv, WriteSubscription
      <4>2. ASSUME job[r].id \in DOMAIN subscriptions
            PROVE  LET row == Flushed(subscriptions[job[r].id], job[r].read, Wanted(r))
                   IN  row.limits = Limits(row.plan)
        <5>1. subscriptions[job[r].id] \in PlanRow
          BY <1>0, <4>2
        <5>2. subscriptions[job[r].id].limits = Limits(subscriptions[job[r].id].plan)
          BY <4>2 DEF LimitsInv, LimitsFollowPlan
        <5>3. QED
          BY <2>1, <4>1, <5>1, <5>2, FlushKeepsLimits
      <4>3. QED
        BY <3>2, <4>2 DEF LimitsInv, LimitsFollowPlan, Limits
    <3>3. QED
      BY <1>5, <3>1, <3>2, WriteSubscriptionTypes
  <2>3. \A q \in Requests : job'[q] = job[q] \/ job'[q] = NoJob
    BY <1>5 DEF WriteSubscription, Ends, TypeOK
  <2>4. QED
    BY <2>2, <2>3 DEF LimitsInv, At, Idle, Limits
<1>6. ASSUME NEW r \in Requests, NEW t \in TenantIds, ListInsights(r, t) PROVE LimitsInv'
  BY <1>b, <1>6 DEF ListInsights, Note, tables
<1>7. ASSUME NEW r \in Requests, WriteInsight(r) PROVE LimitsInv'
  BY <1>b, <1>7 DEF WriteInsight, Ends
<1>8. ASSUME NEW r \in Requests, Abort(r) PROVE LimitsInv'
  BY <1>b, <1>8 DEF Abort, Ends, tables
<1>9. CASE UNCHANGED vars
  BY <1>a, <1>9 DEF vars, tables
<1>10. QED
  BY <1>1, <1>2, <1>3, <1>4, <1>5, <1>6, <1>7, <1>8, <1>9 DEF Next

\* Whatever updates of a subscription cross, its limits are those of its plan
\* (upsert_subscription, _plan_defaults): for any plans with distinct limits.
THEOREM LimitsMatch == Spec => []LimitsFollowPlan
<1>1. Init => LimitsInv
  BY DEF Init, LimitsInv, LimitsFollowPlan, At, Idle
<1>2. LimitsInv => LimitsFollowPlan
  BY DEF LimitsInv
<1>3. QED
  BY <1>1, <1>2, LimitsNext, TypeCorrect, PTL DEF Spec

-----------------------------------------------------------------------------
(* Memberships *)

\* A request works on a workspace of its tenant, and on the row it has read.
MemberInv ==
    /\ OneMembership
    /\ \A r \in Requests :
          At(r, "select") \/ At(r, "member") => Owns(job[r].tenant, job[r].workspace)
    /\ \A r \in Requests :
          At(r, "member") /\ job[r].read.id # 0 =>
              /\ job[r].read.id \in DOMAIN members
              /\ members[job[r].read.id].workspace = job[r].workspace
              /\ members[job[r].read.id].user = job[r].user

\* What WriteMember does to each row.
LEMMA WriteMemberRows ==
    ASSUME TypeOK, MemberInv, NEW r \in Requests, WriteMember(r)
    PROVE  /\ \A i \in DOMAIN members :
                 /\ i \in DOMAIN members'
                 /\ members'[i].tenant = members[i].tenant
                 /\ members'[i].workspace = members[i].workspace
                 /\ members'[i].user = members[i].user
                 /\ members'[i].role = members[i].role
                    \/ /\ members'[i].role = job[r].role
                       /\ members[i].workspace = job[r].workspace /\ members[i].user = job[r].user
           /\ \A i \in DOMAIN members' :
                 \/ i \in DOMAIN members
                 \/ /\ i = Len(members) + 1
                    /\ members'[i].tenant = job[r].tenant
                    /\ members'[i].workspace = job[r].workspace
                    /\ members'[i].user = job[r].user /\ members'[i].role = job[r].role
                    /\ RowOf(job[r].workspace, job[r].user) = 0
<1>1. members \in Seq(MemberRow) /\ job[r] \in MemberJobs
  BY JobKinds DEF TypeOK, WriteMember
<1> DEFINE row == [tenant |-> job[r].tenant, workspace |-> job[r].workspace,
                   user |-> job[r].user, role |-> job[r].role]
<1>2. row \in MemberRow
  BY <1>1 DEF MemberRow, MemberJobs
<1>3. CASE UNCHANGED members
  BY <1>3
<1>4. CASE RowOf(job[r].workspace, job[r].user) = 0 /\ members' = Append(members, row)
  <2>1. /\ \A i \in DOMAIN members : i \in DOMAIN members' /\ members'[i] = members[i]
        /\ DOMAIN members' = DOMAIN members \cup {Len(members) + 1}
        /\ members'[Len(members) + 1] = row
    BY <1>1, <1>2, <1>4, AppendProperties, LenProperties
  <2>2. QED
    BY <1>4, <2>1
<1>5. CASE job[r].read.id # 0
           /\ members' = [members EXCEPT ![job[r].read.id].role = job[r].role]
  <2>1. /\ job[r].read.id \in DOMAIN members
        /\ members[job[r].read.id].workspace = job[r].workspace
        /\ members[job[r].read.id].user = job[r].user
    BY <1>5 DEF MemberInv, WriteMember
  <2>2. DOMAIN members' = DOMAIN members
    BY <1>5
  <2>3. \A i \in DOMAIN members : i # job[r].read.id => members'[i] = members[i]
    BY <1>5
  <2>4. PICK k \in DOMAIN members : k = job[r].read.id
    BY <2>1
  <2>5. members'[k] = [members[k] EXCEPT !.role = job[r].role]
    BY <1>5, <2>4
  <2>6. members[k] \in MemberRow
    BY <1>1
  <2>7. /\ members'[k].tenant = members[k].tenant /\ members'[k].user = members[k].user
        /\ members'[k].workspace = members[k].workspace /\ members'[k].role = job[r].role
    BY <2>5, <2>6 DEF MemberRow
  <2>8. QED
    BY <2>1, <2>2, <2>3, <2>4, <2>7
<1>6. QED
  BY <1>3, <1>4, <1>5, WriteMemberCases

LEMMA MemberNext == TypeOK /\ MemberInv /\ [Next]_vars => MemberInv'
<1> SUFFICES ASSUME TypeOK, MemberInv, [Next]_vars PROVE MemberInv'
  OBVIOUS
<1>0. members \in Seq(MemberRow) /\ workspaces \in Seq(AnyWork)
  BY DEF TypeOK, AnyWork
<1>a. ASSUME UNCHANGED <<members, workspaces>>,
             \A q \in Requests : \/ job'[q] = job[q] \/ job'[q] = NoJob
                               \/ job'[q].op \notin {"select", "member"}
      PROVE  MemberInv'
  BY <1>a DEF MemberInv, OneMembership, At, Idle, Owns
<1>b. ASSUME NEW r \in Requests, NEW j, job' = [job EXCEPT ![r] = j],
             j = NoJob \/ j.op \notin {"select", "member"}, UNCHANGED <<members, workspaces>>
      PROVE  MemberInv'
  BY <1>a, <1>b, JobAfter
<1>c. ASSUME NEW r \in Requests, NEW j \in MemberJobs, job' = [job EXCEPT ![r] = j],
             Owns(j.tenant, j.workspace), UNCHANGED <<members, workspaces>>,
             j.op = "member" /\ j.read.id # 0 => j.read.id = RowOf(j.workspace, j.user)
      PROVE  MemberInv'
  <2>1. \A q \in Requests : q # r => job'[q] = job[q]
    BY <1>c DEF TypeOK
  <2>2. job'[r] = j
    BY <1>c DEF TypeOK
  <2>3. j.op = "member" /\ j.read.id # 0 =>
            /\ j.read.id \in DOMAIN members
            /\ members[j.read.id].workspace = j.workspace /\ members[j.read.id].user = j.user
    BY <1>0, <1>c, RowOfFound
  <2>4. QED
    BY <1>c, <2>1, <2>2, <2>3 DEF MemberInv, OneMembership, At, Idle, Owns
<1>1. CASE Setup
  <2>1. ASSUME NEW u \in Users, NEW s \in Slugs, CreateTenant(u, s) PROVE MemberInv'
    BY <1>a, <2>1 DEF CreateTenant
  <2>2. ASSUME NEW u \in Users, NEW t \in TenantIds, CreateOrganization(u, t) PROVE MemberInv'
    BY <1>a, <2>2 DEF CreateOrganization
  <2>3. ASSUME NEW u \in Users, NEW t \in TenantIds, NEW o \in TenantIds, NEW s \in Slugs,
               CreateWorkspace(u, t, o, s)
        PROVE  MemberInv'
    <3> DEFINE n == Len(workspaces) + 1
               row == [tenant |-> t, workspace |-> n, user |-> u, role |-> "owner"]
               work == [tenant |-> t, organization |-> o, slug |-> s]
    <3>1. members' = Append(members, row) /\ workspaces' = Append(workspaces, work)
      BY <2>3 DEF CreateWorkspace
    <3>2. n \in WorkIds
      BY <2>3, LenProperties, PlatformAssumption DEF TypeOK, CreateWorkspace, WorkIds
    <3>3. row \in MemberRow /\ work \in AnyWork
      BY <3>2 DEF MemberRow, AnyWork, Roles, TenantIds
    <3>4. /\ DOMAIN workspaces = 1..(n - 1) /\ n \in Nat
          /\ DOMAIN workspaces' = DOMAIN workspaces \cup {n} /\ workspaces'[n] = work
          /\ \A w \in DOMAIN workspaces : workspaces'[w] = workspaces[w]
      BY <1>0, <3>1, <3>3, AppendProperties, LenProperties
    <3>5. /\ DOMAIN members' = DOMAIN members \cup {Len(members) + 1}
          /\ members'[Len(members) + 1] = row
          /\ \A i \in DOMAIN members : members'[i] = members[i]
      BY <1>0, <3>1, <3>3, AppendProperties, LenProperties
    <3>6. \A x, w : Owns(x, w) => Owns(x, w)'
      BY <3>4 DEF Owns
    <3>7. \A i \in DOMAIN members : members[i].workspace # n
      BY <3>4 DEF MemberInv, OneMembership, Owns
    <3>8. PICK k : k = n /\ Owns(t, k)'
      BY <3>4 DEF Owns
    <3>9. OneMembership'
      <4>1. /\ members'[Len(members) + 1].tenant = t /\ members'[Len(members) + 1].workspace = k
            /\ members'[Len(members) + 1].user = u
        BY <3>5, <3>8
      <4>2. \A i \in DOMAIN members' :
               /\ members'[i].workspace \in DOMAIN workspaces'
               /\ workspaces'[members'[i].workspace].tenant = members'[i].tenant
        BY <3>5, <3>6, <3>8, <4>1 DEF MemberInv, OneMembership, Owns
      <4>3. \A i, j \in DOMAIN members' :
               members'[i].workspace = members'[j].workspace /\ members'[i].user = members'[j].user
                   => i = j
        BY <3>5, <3>7, <3>8, <4>1 DEF MemberInv, OneMembership
      <4>4. QED
        BY <4>2, <4>3 DEF OneMembership, Owns
    <3>10. UNCHANGED job
      BY <2>3 DEF CreateWorkspace
    <3>11. QED
      BY <3>5, <3>6, <3>9, <3>10 DEF MemberInv, At, Idle
  <2>4. QED
    BY <1>1, <2>1, <2>2, <2>3 DEF Setup
<1>2. CASE Use \/ \E u \in Users, k \in DOMAIN rows : RevokeApiKey(u, k)
  BY <1>a, <1>2, UseFrame
<1>3. ASSUME NEW r \in Requests, MemberStep(r) PROVE MemberInv'
  <2>1. ASSUME NEW u \in Users, NEW m \in Users, NEW t \in TenantIds, NEW w \in WorkIds,
               NEW role \in Roles, CheckMember(r, u, t, w, m, role)
        PROVE  MemberInv'
    <3>1. PICK j : j = [op |-> IF m = u THEN "member" ELSE "select", actor |-> u, tenant |-> t,
                  workspace |-> w, user |-> m, role |-> role, read |-> Seen(RowOf(w, u))]
      OBVIOUS
    <3>2. job' = [job EXCEPT ![r] = j] /\ Owns(t, w) /\ UNCHANGED <<members, workspaces>>
      BY <2>1, <3>1 DEF CheckMember, Note, tables
    <3>3. j \in MemberJobs
      BY <2>1, <3>2, CheckMemberTypes DEF TypeOK
    <3>4. j.op = "member" => j.read.id = RowOf(j.workspace, j.user)
      BY <3>1 DEF Seen
    <3>5. j.tenant = t /\ j.workspace = w
      BY <3>1
    <3>6. QED
      BY <1>c, <3>2, <3>3, <3>4, <3>5
  <2>2. CASE SelectMember(r)
    <3>1. PICK j : j = [job[r] EXCEPT !.op = "member",
                                   !.read = Seen(RowOf(job[r].workspace, job[r].user))]
      OBVIOUS
    <3>2. job[r] \in MemberJobs
      BY <2>2, JobKinds DEF SelectMember
    <3>3. job' = [job EXCEPT ![r] = j] /\ UNCHANGED <<members, workspaces>>
      BY <2>2, <3>1 DEF SelectMember, Note, tables
    <3>4. j \in MemberJobs
      BY <2>2, <3>3, SelectMemberTypes DEF TypeOK
    <3>5. /\ j.workspace = job[r].workspace /\ j.user = job[r].user /\ j.tenant = job[r].tenant
          /\ j.read = Seen(RowOf(job[r].workspace, job[r].user))
      BY <3>1, <3>2 DEF MemberJobs
    <3>6. j.read.id = RowOf(j.workspace, j.user)
      BY <3>5 DEF Seen
    <3>7. Owns(j.tenant, j.workspace)
      BY <2>2, <3>5 DEF MemberInv, SelectMember
    <3>8. QED
      BY <1>c, <3>3, <3>4, <3>6, <3>7
  <2>3. CASE WriteMember(r)
    <3>1. \A q \in Requests : job'[q] = job[q] \/ job'[q] = NoJob
      BY <2>3 DEF WriteMember, Ends, TypeOK
    <3>2. UNCHANGED workspaces
      BY <2>3 DEF WriteMember
    <3>3. OneMembership'
      <4>1. \A i \in DOMAIN members' : Owns(members'[i].tenant, members'[i].workspace)
        BY <2>3, WriteMemberRows DEF MemberInv, OneMembership, WriteMember
      <4>2. RowOf(job[r].workspace, job[r].user) = 0 =>
               \A i \in DOMAIN members : ~(/\ members[i].workspace = job[r].workspace
                                           /\ members[i].user = job[r].user)
        BY <1>0, RowOfNone
      <4>3. \A i, k \in DOMAIN members' :
               members'[i].workspace = members'[k].workspace /\ members'[i].user = members'[k].user
                   => i = k
        BY <2>3, <4>2, WriteMemberRows DEF MemberInv, OneMembership
      <4>4. QED
        BY <3>2, <4>1, <4>3 DEF OneMembership, Owns
    <3>4. QED
      BY <2>3, <3>1, <3>2, <3>3, WriteMemberRows DEF MemberInv, At, Idle, Owns
  <2>4. ASSUME NEW u \in Users, NEW t \in TenantIds, NEW w \in WorkIds, CheckInvitation(r, u, t, w)
        PROVE  MemberInv'
    BY <1>b, <2>4 DEF CheckInvitation, Note, tables
  <2>5. CASE WriteInvitation(r)
    BY <1>b, <2>5 DEF WriteInvitation, Ends, Add
  <2>6. QED
    BY <1>3, <2>1, <2>2, <2>3, <2>4, <2>5 DEF MemberStep
<1>4. ASSUME NEW r \in Requests, NEW u \in Users, NEW t \in TenantIds, NEW p \in Plans,
             NEW s \in Statuses, SelectSubscription(r, u, t, p, s)
      PROVE  MemberInv'
  BY <1>b, <1>4 DEF SelectSubscription, Note, tables
<1>5. ASSUME NEW r \in Requests, WriteSubscription(r) PROVE MemberInv'
  BY <1>b, <1>5 DEF WriteSubscription, Ends
<1>6. ASSUME NEW r \in Requests, NEW t \in TenantIds, ListInsights(r, t) PROVE MemberInv'
  BY <1>b, <1>6 DEF ListInsights, Note, tables
<1>7. ASSUME NEW r \in Requests, WriteInsight(r) PROVE MemberInv'
  BY <1>b, <1>7 DEF WriteInsight, Ends
<1>8. ASSUME NEW r \in Requests, Abort(r) PROVE MemberInv'
  BY <1>b, <1>8 DEF Abort, Ends, tables
<1>9. CASE UNCHANGED vars
  BY <1>a, <1>9 DEF vars, tables
<1>10. QED
  BY <1>1, <1>2, <1>3, <1>4, <1>5, <1>6, <1>7, <1>8, <1>9 DEF Next

LEMMA MemberInit == Init => MemberInv
  BY DEF Init, MemberInv, OneMembership, At, Idle

\* A user has one membership of a workspace, under the tenant of the workspace
\* (upsert_member and uq_workspace_member), for any number of requests at once.
THEOREM MembershipIsUnique == Spec => []OneMembership
<1>1. MemberInv => OneMembership
  BY DEF MemberInv
<1>2. QED
  BY <1>1, MemberInit, MemberNext, TypeCorrect, PTL DEF Spec

-----------------------------------------------------------------------------
(* Grants *)

Watched == {"workspace_member_upserted", "invitation"}

\* An event makes a user an administrator; a timeline knows of such an event; each
\* grant in a timeline has an administrator before it.
Makes(ev, w, u) ==
    /\ ev.action \in Granting
    /\ ev.workspace = w /\ ev.user = u /\ ev.role \in Admins
Knows(log, w, u) == \E n \in DOMAIN log : Makes(log[n], w, u)
Chain(log) ==
    \A i \in DOMAIN log : log[i].action \in Watched =>
        \E j \in 1..(i - 1) : Makes(log[j], log[i].workspace, log[i].actor)

\* Administrators, as the table has them and as a request has found them, are
\* in the audit timeline.
GrantInv ==
    /\ Chain(audit)
    /\ \A i \in DOMAIN members :
          members[i].role \in Admins => Knows(audit, members[i].workspace, members[i].user)
    /\ \A r \in Requests :
          At(r, "select") \/ At(r, "member") \/ At(r, "invitation") =>
              Knows(audit, job[r].workspace, job[r].actor)

\* A timeline that grows forgets nothing, and keeps its chain if an administrator
\* stands behind the new event.
LEMMA TimelineGrows ==
    ASSUME NEW log \in Seq(AnyEvent), NEW ev \in AnyEvent
    PROVE  /\ \A w, u : Knows(log, w, u) \/ Makes(ev, w, u) => Knows(Append(log, ev), w, u)
           /\ /\ Chain(log)
              /\ ev.action \in Watched => Knows(log, ev.workspace, ev.actor)
              => Chain(Append(log, ev))
<1> DEFINE new == Append(log, ev)
<1>1. /\ DOMAIN log = 1..Len(log) /\ Len(log) \in Nat
      /\ DOMAIN new = 1..(Len(log) + 1)
      /\ new[Len(log) + 1] = ev
      /\ \A n \in DOMAIN log : new[n] = log[n]
  BY AppendProperties, LenProperties
<1> HIDE DEF new
<1>2. \A w, u : Knows(log, w, u) \/ Makes(ev, w, u) => Knows(new, w, u)
  BY <1>1 DEF Knows
<1>3. ASSUME Chain(log), ev.action \in Watched => Knows(log, ev.workspace, ev.actor)
      PROVE  Chain(new)
  <2> SUFFICES ASSUME NEW i \in DOMAIN new, new[i].action \in Watched
               PROVE  \E n \in 1..(i - 1) : Makes(new[n], new[i].workspace, new[i].actor)
    BY DEF Chain
  <2>1. CASE i \in DOMAIN log
    <3>1. PICK n \in 1..(i - 1) : Makes(log[n], log[i].workspace, log[i].actor)
      BY <1>1, <1>3, <2>1 DEF Chain
    <3>2. n \in DOMAIN log
      BY <1>1, <2>1
    <3>3. QED
      BY <1>1, <2>1, <3>1, <3>2
  <2>2. CASE i \notin DOMAIN log
    <3>1. i = Len(log) + 1 /\ new[i] = ev /\ DOMAIN log = 1..(i - 1)
      BY <1>1, <2>2
    <3>2. PICK n \in DOMAIN log : Makes(log[n], ev.workspace, ev.actor)
      BY <1>3, <3>1 DEF Knows
    <3>3. QED
      BY <1>1, <3>1, <3>2
  <2>3. QED
    BY <2>1, <2>2
<1>4. QED
  BY <1>2, <1>3 DEF new

\* Whoever passes the check of the role is in the timeline.
LEMMA AdminIsTold ==
    ASSUME TypeOK, GrantInv, NEW u \in Users, NEW w \in WorkIds, IsAdmin(u, w)
    PROVE  Knows(audit, w, u)
<1>1. members \in Seq(MemberRow)
  BY DEF TypeOK
<1>2. /\ RowOf(w, u) \in DOMAIN members
      /\ members[RowOf(w, u)].workspace = w /\ members[RowOf(w, u)].user = u
  BY <1>1, RowOfFound DEF IsAdmin
<1>3. QED
  BY <1>2 DEF GrantInv, IsAdmin

LEMMA GrantNext == TypeOK /\ MemberInv /\ GrantInv /\ [Next]_vars => GrantInv'
<1> SUFFICES ASSUME TypeOK, MemberInv, GrantInv, [Next]_vars PROVE GrantInv'
  OBVIOUS
<1>0. /\ members \in Seq(MemberRow) /\ audit \in Seq(AnyEvent)
      /\ Chain(audit)
  BY DEF TypeOK, GrantInv, AnyEvent
<1> DEFINE Asks(j) == j # NoJob /\ j.op \in {"select", "member", "invitation"}
<1>a. ASSUME UNCHANGED audit, UNCHANGED members,
             \A q \in Requests : \/ job'[q] = job[q] \/ ~Asks(job'[q])
                               \/ Knows(audit, job'[q].workspace, job'[q].actor)
      PROVE  GrantInv'
  BY <1>a DEF GrantInv, At, Idle
<1>b. ASSUME NEW ev \in AnyEvent, audit' = Append(audit, ev), UNCHANGED members,
             ev.action \in Watched => Knows(audit, ev.workspace, ev.actor),
             \A q \in Requests : job'[q] = job[q] \/ job'[q] = NoJob
      PROVE  GrantInv'
  <2>1. /\ Chain(audit')
        /\ \A w, u : Knows(audit, w, u) => Knows(audit', w, u)
    BY <1>0, <1>b, TimelineGrows
  <2>2. QED
    BY <1>b, <2>1 DEF GrantInv, At, Idle
<1>1. ASSUME NEW u \in Users, NEW s \in Slugs, CreateTenant(u, s) PROVE GrantInv'
  <2>1. PICK ev : ev = Event("tenant_created", Len(tenants) + 1, NoWork, u)
    OBVIOUS
  <2>2. Len(tenants) + 1 \in TenantIds
    BY <1>1, LenProperties, PlatformAssumption DEF TypeOK, CreateTenant, TenantIds
  <2>3. ev \in AnyEvent /\ ev.action \notin Watched
    BY <2>1, <2>2 DEF Event, AnyEvent, Roles, Actions, Watched
  <2>4. audit' = Append(audit, ev)
    BY <1>1, <2>1 DEF CreateTenant, Audited
  <2>5. QED
    BY <1>1, <1>b, <2>3, <2>4 DEF CreateTenant
<1>2. ASSUME NEW u \in Users, NEW t \in TenantIds, CreateOrganization(u, t) PROVE GrantInv'
  <2>1. PICK ev : ev = Event("organization_created", t, NoWork, u)
    OBVIOUS
  <2>2. ev \in AnyEvent /\ ev.action \notin Watched
    BY <2>1 DEF Event, AnyEvent, Roles, Actions, Watched
  <2>3. audit' = Append(audit, ev)
    BY <1>2, <2>1 DEF CreateOrganization, Audited
  <2>4. QED
    BY <1>2, <1>b, <2>2, <2>3 DEF CreateOrganization
<1>3. ASSUME NEW u \in Users, NEW t \in TenantIds, NEW o \in TenantIds, NEW s \in Slugs,
             CreateWorkspace(u, t, o, s)
      PROVE  GrantInv'
  <2>1. PICK w : w = Len(workspaces) + 1
    OBVIOUS
  <2>2. w \in WorkIds
    BY <1>3, <2>1, LenProperties, PlatformAssumption DEF TypeOK, CreateWorkspace, WorkIds
  <2>3. PICK ev : ev = Event("workspace_created", t, w, u)
    OBVIOUS
  <2>4. /\ ev \in AnyEvent /\ ev.action = "workspace_created"
        /\ ev.workspace = w /\ ev.user = u /\ ev.role = "owner"
    BY <2>2, <2>3 DEF Event, AnyEvent, Roles, Actions
  <2>5. audit' = Append(audit, ev)
    BY <1>3, <2>1, <2>3 DEF CreateWorkspace, Audited
  <2>6. Makes(ev, w, u)
    BY <2>4 DEF Makes, Granting, Admins
  <2>7. Chain(audit')
    BY <1>0, <2>4, <2>5, TimelineGrows DEF Watched
  <2>8. /\ \A x, y : Knows(audit, x, y) => Knows(audit', x, y)
        /\ Knows(audit', w, u)
    BY <1>0, <2>4, <2>5, <2>6, TimelineGrows
  <2> DEFINE row == [tenant |-> t, workspace |-> w, user |-> u, role |-> "owner"]
  <2>9. row \in MemberRow /\ members' = Append(members, row)
    BY <1>3, <2>1, <2>2 DEF MemberRow, Roles, CreateWorkspace
  <2>10. /\ DOMAIN members' = DOMAIN members \cup {Len(members) + 1}
         /\ members'[Len(members) + 1] = row
         /\ \A i \in DOMAIN members : members'[i] = members[i]
    BY <1>0, <2>9, AppendProperties, LenProperties
  <2>11. members'[Len(members) + 1].workspace = w /\ members'[Len(members) + 1].user = u
    BY <2>10
  <2>12. UNCHANGED job
    BY <1>3 DEF CreateWorkspace
  <2>13. \A i \in DOMAIN members' :
            members'[i].role \in Admins => Knows(audit', members'[i].workspace, members'[i].user)
    BY <2>8, <2>10, <2>11 DEF GrantInv
  <2>14. QED
    BY <2>7, <2>8, <2>12, <2>13 DEF GrantInv, At, Idle
<1>4. CASE Use \/ \E u \in Users, k \in DOMAIN rows : RevokeApiKey(u, k)
  <2>1. PICK ev \in AnyEvent : audit' = Append(audit, ev) /\ ev.action \notin Watched
    BY <1>4, UseFrame DEF Watched
  <2>2. UNCHANGED <<members, job>>
    BY <1>4, UseFrame
  <2>3. QED
    BY <1>b, <2>1, <2>2
<1>5. ASSUME NEW r \in Requests, NEW u \in Users, NEW m \in Users, NEW t \in TenantIds,
             NEW w \in WorkIds, NEW role \in Roles, CheckMember(r, u, t, w, m, role)
      PROVE  GrantInv'
  <2>1. PICK j : j = [op |-> IF m = u THEN "member" ELSE "select", actor |-> u, tenant |-> t,
                      workspace |-> w, user |-> m, role |-> role, read |-> Seen(RowOf(w, u))]
    OBVIOUS
  <2>2. job' = [job EXCEPT ![r] = j] /\ UNCHANGED <<members, audit>> /\ IsAdmin(u, w)
    BY <1>5, <2>1 DEF CheckMember, Note, tables
  <2>3. \A q \in Requests : job'[q] = job[q] \/ job'[q] = j
    BY <2>2 DEF TypeOK
  <2>4. Knows(audit, j.workspace, j.actor)
    BY <2>1, <2>2, AdminIsTold
  <2>5. QED
    BY <1>a, <2>2, <2>3, <2>4
<1>6. ASSUME NEW r \in Requests, SelectMember(r) PROVE GrantInv'
  <2>1. PICK j : j = [job[r] EXCEPT !.op = "member",
                                 !.read = Seen(RowOf(job[r].workspace, job[r].user))]
    OBVIOUS
  <2>2. job[r] \in MemberJobs
    BY <1>6, JobKinds DEF SelectMember
  <2>3. j.workspace = job[r].workspace /\ j.actor = job[r].actor
    BY <2>1, <2>2 DEF MemberJobs
  <2>4. job' = [job EXCEPT ![r] = j] /\ UNCHANGED <<members, audit>>
    BY <1>6, <2>1 DEF SelectMember, Note, tables
  <2>5. \A q \in Requests : job'[q] = job[q] \/ job'[q] = j
    BY <2>4 DEF TypeOK
  <2>6. Knows(audit, j.workspace, j.actor)
    BY <1>6, <2>3 DEF GrantInv, SelectMember
  <2>7. QED
    BY <1>a, <2>4, <2>5, <2>6
<1>7. ASSUME NEW r \in Requests, WriteMember(r) PROVE GrantInv'
  <2>1. \A q \in Requests : job'[q] = job[q] \/ job'[q] = NoJob
    BY <1>7 DEF WriteMember, Ends, TypeOK
  <2>2. CASE UNCHANGED <<members, audit>>
    BY <1>a, <2>1, <2>2
  <2>3. CASE audit' = Append(audit, MemberEvent(job[r]))
    <3>1. job[r] \in MemberJobs /\ Knows(audit, job[r].workspace, job[r].actor)
      BY <1>7, JobKinds DEF GrantInv, WriteMember
    <3>2. PICK ev \in AnyEvent : ev = MemberEvent(job[r])
      BY <3>1, MemberEventTyped
    <3>3. /\ ev.action = "workspace_member_upserted" /\ ev.workspace = job[r].workspace
          /\ ev.actor = job[r].actor /\ ev.user = job[r].user /\ ev.role = job[r].role
      BY <3>2 DEF MemberEvent
    <3>4. ev.role \in Admins => Makes(ev, ev.workspace, ev.user)
      BY <3>3 DEF Makes, Granting
    <3>5. Chain(audit')
      BY <1>0, <2>3, <3>1, <3>2, <3>3, TimelineGrows
    <3>6. /\ \A x, y : Knows(audit, x, y) => Knows(audit', x, y)
          /\ job[r].role \in Admins => Knows(audit', job[r].workspace, job[r].user)
      BY <1>0, <2>3, <3>2, <3>3, <3>4, TimelineGrows
    <3>7. \A i \in DOMAIN members' :
             members'[i].role \in Admins => Knows(audit', members'[i].workspace, members'[i].user)
      BY <1>7, <3>6, WriteMemberRows DEF GrantInv
    <3>8. QED
      BY <2>1, <3>5, <3>6, <3>7 DEF GrantInv, At, Idle
  <2>4. QED
    BY <1>7, <2>2, <2>3 DEF WriteMember, Audited
<1>8. ASSUME NEW r \in Requests, NEW u \in Users, NEW t \in TenantIds, NEW w \in WorkIds,
             CheckInvitation(r, u, t, w)
      PROVE  GrantInv'
  <2>1. PICK j : j = [op |-> "invitation", actor |-> u, tenant |-> t, workspace |-> w]
    OBVIOUS
  <2>2. job' = [job EXCEPT ![r] = j] /\ UNCHANGED <<members, audit>> /\ IsAdmin(u, w)
    BY <1>8, <2>1 DEF CheckInvitation, Note, tables
  <2>3. \A q \in Requests : job'[q] = job[q] \/ job'[q] = j
    BY <2>2 DEF TypeOK
  <2>4. Knows(audit, j.workspace, j.actor)
    BY <2>1, <2>2, AdminIsTold
  <2>5. QED
    BY <1>a, <2>2, <2>3, <2>4
<1>9. ASSUME NEW r \in Requests, WriteInvitation(r) PROVE GrantInv'
  <2>1. job[r] \in InviteJobs /\ Knows(audit, job[r].workspace, job[r].actor)
    BY <1>9, JobKinds DEF GrantInv, WriteInvitation
  <2>2. PICK t \in TenantIds, w \in WorkIds, u \in Users :
            t = job[r].tenant /\ w = job[r].workspace /\ u = job[r].actor
    BY <2>1 DEF InviteJobs
  <2>3. PICK ev : ev = [Event("invitation", t, w, u) EXCEPT !.count = 1]
    OBVIOUS
  <2>4. ev \in AnyEvent /\ ev.workspace = w /\ ev.actor = u
    BY <2>3 DEF Event, AnyEvent, Roles, Actions, Kinds
  <2>5. audit' = Append(audit, ev) /\ UNCHANGED members
    BY <1>9, <2>2, <2>3 DEF WriteInvitation, Add, Audited
  <2>6. \A q \in Requests : job'[q] = job[q] \/ job'[q] = NoJob
    BY <1>9 DEF WriteInvitation, Ends, TypeOK
  <2>7. Knows(audit, ev.workspace, ev.actor)
    BY <2>1, <2>2, <2>4
  <2>8. QED
    BY <1>b, <2>4, <2>5, <2>6, <2>7
<1>10. ASSUME NEW r \in Requests, NEW u \in Users, NEW t \in TenantIds, NEW p \in Plans,
              NEW s \in Statuses, SelectSubscription(r, u, t, p, s)
       PROVE  GrantInv'
  <2>1. UNCHANGED <<members, audit>>
    BY <1>10 DEF SelectSubscription, tables
  <2>2. PICK j : j.op = "subscription" /\ job' = [job EXCEPT ![r] = j]
    BY <1>10 DEF SelectSubscription, Note
  <2>3. \A q \in Requests : job'[q] = job[q] \/ ~Asks(job'[q])
    BY <2>2 DEF TypeOK
  <2>4. QED
    BY <1>a, <2>1, <2>3
<1>11. ASSUME NEW r \in Requests, WriteSubscription(r) PROVE GrantInv'
  <2>1. job[r] \in PlanJobs
    BY <1>11, JobKinds DEF WriteSubscription
  <2>2. PICK t \in TenantIds, u \in Users : t = job[r].tenant /\ u = job[r].actor
    BY <2>1 DEF PlanJobs
  <2>3. PICK ev : ev = Event("subscription_upserted", t, NoWork, u)
    OBVIOUS
  <2>4. ev \in AnyEvent /\ ev.action \notin Watched
    BY <2>3 DEF Event, AnyEvent, Roles, Actions, Watched
  <2>5. audit' = Append(audit, ev) /\ UNCHANGED members
    BY <1>11, <2>2, <2>3 DEF WriteSubscription, Audited
  <2>6. \A q \in Requests : job'[q] = job[q] \/ job'[q] = NoJob
    BY <1>11 DEF WriteSubscription, Ends, TypeOK
  <2>7. QED
    BY <1>b, <2>4, <2>5, <2>6
<1>12. ASSUME NEW r \in Requests, NEW t \in TenantIds, ListInsights(r, t) PROVE GrantInv'
  <2>1. UNCHANGED <<members, audit>>
    BY <1>12 DEF ListInsights, tables
  <2>2. PICK j : j.op = "insight" /\ job' = [job EXCEPT ![r] = j]
    BY <1>12 DEF ListInsights, Note
  <2>3. \A q \in Requests : job'[q] = job[q] \/ ~Asks(job'[q])
    BY <2>2 DEF TypeOK
  <2>4. QED
    BY <1>a, <2>1, <2>3
<1>13. ASSUME NEW r \in Requests, WriteInsight(r) \/ Abort(r) PROVE GrantInv'
  <2>1. UNCHANGED <<members, audit>>
    BY <1>13 DEF WriteInsight, Abort, tables
  <2>2. \A q \in Requests : job'[q] = job[q] \/ ~Asks(job'[q])
    BY <1>13 DEF WriteInsight, Abort, Ends, TypeOK
  <2>3. QED
    BY <1>a, <2>1, <2>2
<1>14. CASE UNCHANGED vars
  BY <1>a, <1>14 DEF vars, tables
<1>15. CASE Setup
  BY <1>1, <1>2, <1>3, <1>15 DEF Setup
<1>16. ASSUME NEW r \in Requests, MemberStep(r) PROVE GrantInv'
  BY <1>5, <1>6, <1>7, <1>8, <1>9, <1>16 DEF MemberStep
<1>17. QED
  BY <1>4, <1>10, <1>11, <1>12, <1>13, <1>14, <1>15, <1>16 DEF Next

LEMMA GrantInit == Init => GrantInv
  BY DEF Init, GrantInv, Chain, At, Idle

\* Every membership and every invitation goes back to an administrator the
\* audit timeline shows (_assert_workspace_admin, upsert_member and
\* create_invitation), for any number of requests that cross.
THEOREM GrantsAreTraced == Spec => []GrantsFromAdmins
<1>1. GrantInv => GrantsFromAdmins
  BY DEF GrantInv, GrantsFromAdmins, Chain, Watched, Makes, MakesAdmin
<1>2. Spec => []MemberInv
  BY MemberInit, MemberNext, TypeCorrect, PTL DEF Spec
<1>3. QED
  BY <1>1, <1>2, GrantInit, GrantNext, TypeCorrect, PTL DEF Spec

-----------------------------------------------------------------------------
(* Rows and the events that tell of them *)

Told == Kinds \ {"insight"}

Agree(k, t, w) ==
    /\ IsFiniteSet(ToldBy(k, t, w))
    /\ Cardinality(RowsOf(k, t, w)) = Cardinality(ToldBy(k, t, w))

Agreed == \A k \in Told, t \in TenantIds, w \in WorkIds \cup {NoWork} : Agree(k, t, w)

LEMMA Finite ==
    ASSUME TypeOK, NEW k, NEW t, NEW w
    PROVE  IsFiniteSet(RowsOf(k, t, w)) /\ Cardinality(RowsOf(k, t, w)) \in Nat
<1>1. rows \in Seq(AnyRow) /\ Len(rows) \in Nat /\ DOMAIN rows = 1 .. Len(rows)
  BY LenProperties DEF TypeOK, AnyRow
<1>2. IsFiniteSet(1 .. Len(rows))
  BY <1>1, FS_Interval
<1>3. IsFiniteSet(RowsOf(k, t, w))
  BY <1>1, <1>2, FS_Subset DEF RowsOf
<1>4. QED
  BY <1>3, FS_CardinalityType

\* An event of another sort tells of none of these rows.
LEMMA EventElsewhere ==
    ASSUME TypeOK, NEW ev \in AnyEvent, audit' = Append(audit, ev), NEW k, NEW t, NEW w,
           <<ev.action, ev.tenant, ev.workspace>> # <<k, t, w>>
    PROVE  ToldBy(k, t, w)' = ToldBy(k, t, w)
<1>1. audit \in Seq(AnyEvent) /\ Len(audit) \in Nat /\ DOMAIN audit = 1 .. Len(audit)
  BY LenProperties DEF TypeOK, AnyEvent
<1>2. /\ DOMAIN audit' = 1 .. (Len(audit) + 1) /\ audit'[Len(audit) + 1] = ev
      /\ \A i \in 1 .. Len(audit) : audit'[i] = audit[i]
  BY <1>1, AppendProperties, LenProperties
<1>3. EventsOf(k, t, w)' = EventsOf(k, t, w)
  BY <1>1, <1>2 DEF EventsOf
<1>4. \A i \in EventsOf(k, t, w) : audit'[i] = audit[i]
  BY <1>1, <1>2 DEF EventsOf
<1>5. QED
  BY <1>3, <1>4 DEF ToldBy

\* An event of its sort tells of as many rows more as it counts.
LEMMA EventCounts ==
    ASSUME TypeOK, NEW ev \in AnyEvent, audit' = Append(audit, ev), NEW k, NEW t, NEW w,
           <<ev.action, ev.tenant, ev.workspace>> = <<k, t, w>>, IsFiniteSet(ToldBy(k, t, w))
    PROVE  /\ IsFiniteSet(ToldBy(k, t, w)')
           /\ Cardinality(ToldBy(k, t, w)') = Cardinality(ToldBy(k, t, w)) + ev.count
<1> DEFINE old  == EventsOf(k, t, w)
           told == ToldBy(k, t, w)
           last == Len(audit) + 1
           more == {last} \X (1 .. ev.count)
<1>1. audit \in Seq(AnyEvent) /\ Len(audit) \in Nat /\ DOMAIN audit = 1 .. Len(audit)
  BY LenProperties DEF TypeOK, AnyEvent
<1>2. /\ DOMAIN audit' = 1 .. last /\ audit'[last] = ev
      /\ \A i \in 1 .. Len(audit) : audit'[i] = audit[i]
  BY <1>1, AppendProperties, LenProperties
<1>3. EventsOf(k, t, w)' = old \cup {last} /\ last \notin old
  BY <1>1, <1>2 DEF EventsOf
<1>4. (\A i \in old : audit'[i] = audit[i]) /\ audit'[last] = ev
  BY <1>1, <1>2 DEF EventsOf
<1>5. ToldBy(k, t, w)' = told \cup more
  <2> HIDE DEF old, last
  <2>1. \A x : x \in ToldBy(k, t, w)' <=> \E i \in old \cup {last} : x \in {i} \X (1 .. audit'[i].count)
    BY <1>3 DEF ToldBy
  <2>2. \A x : x \in told <=> \E i \in old : x \in {i} \X (1 .. audit[i].count)
    BY DEF ToldBy, old
  <2>3. \A x : x \in ToldBy(k, t, w)' <=> x \in told \/ x \in more
    BY <1>4, <2>1, <2>2
  <2>4. QED
    BY <2>3
<1>6. told \cap more = {}
  <2>1. \A x \in told : x[1] \in old
    BY DEF ToldBy
  <2>2. \A x \in more : x[1] = last
    OBVIOUS
  <2> HIDE DEF told, more, last, old
  <2>3. QED
    BY <1>3, <2>1, <2>2
<1>7. ev.count \in Nat
  BY DEF AnyEvent
<1>8. IsFiniteSet(more) /\ Cardinality(more) = ev.count
  <2>1. IsFiniteSet({last}) /\ Cardinality({last}) = 1
    BY FS_Singleton
  <2>2. IsFiniteSet(1 .. ev.count) /\ Cardinality(1 .. ev.count) = ev.count
    <3> DEFINE n == ev.count
    <3>1. n \in Nat /\ n - 1 + 1 = n /\ (1 > n => n = 0)
      BY <1>7
    <3> HIDE DEF n
    <3>2. IsFiniteSet(1 .. n) /\ Cardinality(1 .. n) = n
      BY <3>1, FS_Interval
    <3>3. QED
      BY <3>2 DEF n
  <2> HIDE DEF last
  <2>3. /\ IsFiniteSet({last} \X (1 .. ev.count))
        /\ Cardinality({last} \X (1 .. ev.count)) = Cardinality({last}) * Cardinality(1 .. ev.count)
    BY <2>1, <2>2, FS_Product
  <2>4. QED
    BY <1>7, <2>1, <2>2, <2>3
<1>9. IsFiniteSet(told) /\ Cardinality(told) \in Nat
  BY FS_CardinalityType
<1> HIDE DEF told, more
<1>10. /\ IsFiniteSet(told \cup more)
       /\ Cardinality(told \cup more) = Cardinality(told) + Cardinality(more) - Cardinality(told \cap more)
  BY <1>8, <1>9, FS_Union
<1>11. Cardinality(told \cap more) = 0
  BY <1>6, FS_EmptySet
<1>12. Cardinality(told) + Cardinality(more) - 0 = Cardinality(told) + ev.count
  BY <1>7, <1>8, <1>9
<1>13. QED
  BY <1>5, <1>10, <1>11, <1>12 DEF told

\* A step without rows that an event tells of, nor an event that tells of any.
LEMMA TellsNothing ==
    ASSUME TypeOK, Agreed,
           \/ UNCHANGED audit
           \/ \E ev \in AnyEvent : audit' = Append(audit, ev) /\ ev.action \notin Told,
           \A k \in Told, t \in TenantIds, w \in WorkIds \cup {NoWork} :
              RowsOf(k, t, w)' = RowsOf(k, t, w)
    PROVE  Agreed'
<1> SUFFICES ASSUME NEW k \in Told, NEW t \in TenantIds, NEW w \in WorkIds \cup {NoWork}
             PROVE  Agree(k, t, w)'
  BY DEF Agreed
<1>1. Agree(k, t, w)
  BY DEF Agreed
<1>2. CASE UNCHANGED audit
  BY <1>1, <1>2 DEF Agree, ToldBy, EventsOf
<1>3. ASSUME NEW ev \in AnyEvent, audit' = Append(audit, ev), ev.action \notin Told
      PROVE  Agree(k, t, w)'
  <2>1. <<ev.action, ev.tenant, ev.workspace>> # <<k, t, w>>
    BY <1>3
  <2>2. QED
    BY <1>1, <1>3, <2>1, EventElsewhere DEF Agree
<1>4. QED
  BY <1>2, <1>3

\* Rows come with the event that counts them.
LEMMA AddTells ==
    ASSUME TypeOK, Agreed, NEW kind \in Told, NEW n \in Nat, NEW t \in TenantIds,
           NEW w \in WorkIds \cup {NoWork}, NEW u \in Users, Add(kind, n, t, w, u)
    PROVE  Agreed'
<1> DEFINE row == [kind |-> kind, tenant |-> t, workspace |-> w]
<1>1. PICK ev : ev = [Event(kind, t, w, u) EXCEPT !.count = n]
  OBVIOUS
<1>2. /\ ev \in AnyEvent /\ ev.count = n
      /\ <<ev.action, ev.tenant, ev.workspace>> = <<kind, t, w>>
  <2>1. Event(kind, t, w, u) \in AnyEvent
    BY EventTyped DEF Told, Actions
  <2>2. QED
    BY <1>1, <2>1 DEF Event, AnyEvent
<1>3. audit' = Append(audit, ev)
  BY <1>1 DEF Add, Audited
<1>4. rows \in Seq(AnyRow) /\ Len(rows) \in Nat /\ DOMAIN rows = 1 .. Len(rows)
  BY LenProperties DEF TypeOK, AnyRow
<1>5. row \in AnyRow
  BY DEF AnyRow, Told
<1>6. /\ Times(n, row) \in Seq(AnyRow) /\ Len(Times(n, row)) = n
      /\ \A i \in 1 .. n : Times(n, row)[i] = row
  BY <1>5, TimesTyped DEF Times
<1>7. rows' = rows \o Times(n, row)
  BY DEF Add
<1> HIDE DEF row
<1>8. /\ DOMAIN rows' = 1 .. (Len(rows) + n)
      /\ \A i \in 1 .. (Len(rows) + n) :
            rows'[i] = IF i <= Len(rows) THEN rows[i] ELSE row
  <2>1. /\ rows' \in Seq(AnyRow) /\ Len(rows') = Len(rows) + Len(Times(n, row))
        /\ \A i \in 1 .. Len(rows) + Len(Times(n, row)) :
              rows'[i] = IF i <= Len(rows) THEN rows[i] ELSE Times(n, row)[i - Len(rows)]
    BY <1>4, <1>6, <1>7, ConcatProperties
  <2>2. DOMAIN rows' = 1 .. Len(rows')
    BY <2>1, LenProperties
  <2>3. \A i \in 1 .. (Len(rows) + n) : i > Len(rows) => i - Len(rows) \in 1 .. n
    BY <1>4
  <2>4. QED
    BY <1>4, <1>6, <2>1, <2>2, <2>3
<1> SUFFICES ASSUME NEW k \in Told, NEW x \in TenantIds, NEW v \in WorkIds \cup {NoWork}
             PROVE  Agree(k, x, v)'
  BY DEF Agreed
<1>9. Agree(k, x, v)
  BY DEF Agreed
<1>10. CASE <<k, x, v>> = <<kind, t, w>>
  <2>1. RowsOf(k, x, v)' = RowsOf(k, x, v) \cup ((Len(rows) + 1) .. (Len(rows) + n))
    BY <1>4, <1>8, <1>10 DEF RowsOf, row
  <2>2. RowsOf(k, x, v) \cap ((Len(rows) + 1) .. (Len(rows) + n)) = {}
    BY <1>4 DEF RowsOf
  <2>3. /\ IsFiniteSet((Len(rows) + 1) .. (Len(rows) + n))
        /\ Cardinality((Len(rows) + 1) .. (Len(rows) + n)) = n
    <3>1. /\ Len(rows) + 1 \in Int /\ Len(rows) + n \in Int
          /\ Len(rows) + n - (Len(rows) + 1) + 1 = n
          /\ Len(rows) + 1 > Len(rows) + n => n = 0
      BY <1>4
    <3> DEFINE first == Len(rows) + 1
               final == Len(rows) + n
    <3>2. first \in Int /\ final \in Int
      BY <3>1
    <3>3. /\ final - first + 1 = n
          /\ first > final => n = 0
      BY <3>1
    <3> HIDE DEF first, final
    <3>4. /\ IsFiniteSet(first .. final)
          /\ Cardinality(first .. final) = IF first > final THEN 0 ELSE final - first + 1
      BY <3>2, FS_Interval
    <3>5. IsFiniteSet(first .. final) /\ Cardinality(first .. final) = n
      BY <3>3, <3>4
    <3>6. QED
      BY <3>5 DEF first, final
  <2>4. IsFiniteSet(RowsOf(k, x, v)) /\ Cardinality(RowsOf(k, x, v)) \in Nat
    BY Finite
  <2>5. Cardinality(RowsOf(k, x, v)') = Cardinality(RowsOf(k, x, v)) + n
    <3>1. Cardinality(RowsOf(k, x, v) \cup ((Len(rows) + 1) .. (Len(rows) + n)))
            = Cardinality(RowsOf(k, x, v)) + Cardinality((Len(rows) + 1) .. (Len(rows) + n))
              - Cardinality(RowsOf(k, x, v) \cap ((Len(rows) + 1) .. (Len(rows) + n)))
      BY <2>3, <2>4, FS_Union
    <3>2. Cardinality(RowsOf(k, x, v) \cap ((Len(rows) + 1) .. (Len(rows) + n))) = 0
      BY <2>2, FS_EmptySet
    <3>3. QED
      BY <2>1, <2>3, <2>4, <3>1, <3>2
  <2>6. /\ IsFiniteSet(ToldBy(k, x, v)')
        /\ Cardinality(ToldBy(k, x, v)') = Cardinality(ToldBy(k, x, v)) + n
    BY <1>2, <1>3, <1>9, <1>10, EventCounts DEF Agree
  <2>7. QED
    BY <1>9, <2>5, <2>6 DEF Agree
<1>11. CASE <<k, x, v>> # <<kind, t, w>>
  <2>1. row # [kind |-> k, tenant |-> x, workspace |-> v]
    BY <1>11 DEF row
  <2>2. RowsOf(k, x, v)' = RowsOf(k, x, v)
    BY <1>4, <1>8, <2>1 DEF RowsOf
  <2>3. ToldBy(k, x, v)' = ToldBy(k, x, v)
    BY <1>2, <1>3, <1>11, EventElsewhere
  <2>4. QED
    BY <1>9, <2>2, <2>3 DEF Agree
<1>12. QED
  BY <1>10, <1>11

LEMMA TellsNext == TypeOK /\ Agreed /\ [Next]_vars => Agreed'
<1> SUFFICES ASSUME TypeOK, Agreed, [Next]_vars PROVE Agreed'
  OBVIOUS
<1>a. ASSUME UNCHANGED rows,
             \/ UNCHANGED audit
             \/ \E ev \in AnyEvent : audit' = Append(audit, ev) /\ ev.action \notin Told
      PROVE  Agreed'
  BY <1>a, TellsNothing DEF RowsOf
<1>1. CASE Setup
  <2>0. UNCHANGED rows
    BY <1>1 DEF Setup, CreateTenant, CreateOrganization, CreateWorkspace
  <2>1. ASSUME NEW u \in Users, NEW s \in Slugs, CreateTenant(u, s)
        PROVE  \E ev \in AnyEvent : audit' = Append(audit, ev) /\ ev.action \notin Told
    <3>1. Len(tenants) + 1 \in TenantIds
      BY <2>1, LenProperties, PlatformAssumption DEF TypeOK, CreateTenant, TenantIds
    <3>2. Event("tenant_created", Len(tenants) + 1, NoWork, u) \in AnyEvent
      BY <3>1, EventTyped DEF Actions
    <3>3. QED
      BY <2>1, <3>2 DEF CreateTenant, Audited, Event, Told, Kinds
  <2>2. ASSUME NEW u \in Users, NEW t \in TenantIds, CreateOrganization(u, t)
        PROVE  \E ev \in AnyEvent : audit' = Append(audit, ev) /\ ev.action \notin Told
    <3>1. Event("organization_created", t, NoWork, u) \in AnyEvent
      BY EventTyped DEF Actions
    <3>2. QED
      BY <2>2, <3>1 DEF CreateOrganization, Audited, Event, Told, Kinds
  <2>3. ASSUME NEW u \in Users, NEW t \in TenantIds, NEW o \in TenantIds, NEW s \in Slugs,
               CreateWorkspace(u, t, o, s)
        PROVE  \E ev \in AnyEvent : audit' = Append(audit, ev) /\ ev.action \notin Told
    <3>1. Len(workspaces) + 1 \in WorkIds
      BY <2>3, LenProperties, PlatformAssumption DEF TypeOK, CreateWorkspace, WorkIds
    <3>2. Event("workspace_created", t, Len(workspaces) + 1, u) \in AnyEvent
      BY <3>1, EventTyped DEF Actions
    <3>3. QED
      BY <2>3, <3>2 DEF CreateWorkspace, Audited, Event, Told, Kinds
  <2>4. QED
    BY <1>1, <1>a, <2>0, <2>1, <2>2, <2>3 DEF Setup
<1>2. CASE Use
  <2>1. PICK kind \in Used, n \in Nat, t \in TenantIds, w \in WorkIds \cup {NoWork}, u \in Users :
            Add(kind, n, t, w, u)
    BY <1>2, UseAdds
  <2>2. kind \in Told
    BY DEF Used, Told, Kinds
  <2>3. QED
    BY <2>1, <2>2, AddTells
<1>3. ASSUME NEW u \in Users, NEW k \in DOMAIN rows, RevokeApiKey(u, k) PROVE Agreed'
  <2>1. rows[k].tenant \in TenantIds /\ rows[k].workspace \in WorkIds \cup {NoWork}
    BY RowTyped DEF AnyRow
  <2>2. Event("api_key_revoked", rows[k].tenant, rows[k].workspace, u) \in AnyEvent
    BY <2>1, EventTyped DEF Actions
  <2>3. QED
    BY <1>3, <1>a, <2>2 DEF RevokeApiKey, Audited, Event, Told, Kinds
<1>4. ASSUME NEW r \in Requests, MemberStep(r) PROVE Agreed'
  <2>1. CASE WriteMember(r)
    <3>1. MemberEvent(job[r]) \in AnyEvent /\ MemberEvent(job[r]).action \notin Told
      BY <2>1, JobKinds, MemberEventTyped DEF WriteMember, MemberEvent, Told, Kinds
    <3>2. UNCHANGED rows /\ (UNCHANGED audit \/ audit' = Append(audit, MemberEvent(job[r])))
      BY <2>1 DEF WriteMember, Audited
    <3>3. QED
      BY <1>a, <3>1, <3>2
  <2>2. CASE WriteInvitation(r)
    <3>1. job[r] \in InviteJobs
      BY <2>2, JobKinds DEF WriteInvitation
    <3>2. job[r].tenant \in TenantIds /\ job[r].workspace \in WorkIds /\ job[r].actor \in Users
      BY <3>1 DEF InviteJobs
    <3>3. "invitation" \in Told
      BY DEF Told, Kinds
    <3>4. QED
      BY <2>2, <3>2, <3>3, AddTells DEF WriteInvitation
  <2>3. QED
    BY <1>4, <1>a, <2>1, <2>2 DEF MemberStep, CheckMember, SelectMember, CheckInvitation, tables
<1>5. ASSUME NEW r \in Requests, WriteSubscription(r) PROVE Agreed'
  <2>1. job[r].tenant \in TenantIds /\ job[r].actor \in Users
    BY <1>5, JobKinds DEF WriteSubscription, PlanJobs
  <2>2. Event("subscription_upserted", job[r].tenant, NoWork, job[r].actor) \in AnyEvent
    BY <2>1, EventTyped DEF Actions
  <2>3. QED
    BY <1>5, <1>a, <2>2 DEF WriteSubscription, Audited, Event, Told, Kinds
<1>6. ASSUME NEW r \in Requests, WriteInsight(r) PROVE Agreed'
  <2>1. PICK row : /\ row = [kind |-> "insight", tenant |-> job[r].tenant, workspace |-> NoWork]
                   /\ rows' = Append(rows, row)
    BY <1>6 DEF WriteInsight
  <2>2. rows \in Seq(AnyRow) /\ Len(rows) \in Nat /\ DOMAIN rows = 1 .. Len(rows)
    BY LenProperties DEF TypeOK, AnyRow
  <2>3. row \in AnyRow
    BY <1>6, <2>1, JobKinds DEF WriteInsight, InsightJobs, AnyRow, Kinds
  <2>4. /\ DOMAIN rows' = 1 .. (Len(rows) + 1) /\ rows'[Len(rows) + 1] = row
        /\ \A i \in 1 .. Len(rows) : rows'[i] = rows[i]
    BY <2>1, <2>2, <2>3, AppendProperties, LenProperties
  <2>5. ASSUME NEW k \in Told, NEW t \in TenantIds, NEW w \in WorkIds \cup {NoWork}
        PROVE  RowsOf(k, t, w)' = RowsOf(k, t, w)
    <3>1. row # [kind |-> k, tenant |-> t, workspace |-> w]
      BY <2>1 DEF Told
    <3>2. QED
      BY <2>2, <2>4, <3>1 DEF RowsOf
  <2>6. QED
    BY <1>6, <2>5, TellsNothing DEF WriteInsight
<1>7. CASE UNCHANGED vars
  BY <1>7, <1>a DEF vars, tables
<1>8. QED
  BY <1>1, <1>2, <1>3, <1>4, <1>5, <1>6, <1>7, <1>a
  DEF Next, SelectSubscription, ListInsights, Abort, tables

\* Every payment, usage record, key, channel, message, calendar item, feedback
\* and invitation is counted by the audit event of its tenant and workspace,
\* written in the same transaction (_audit), and nothing else is.
THEOREM AuditIsComplete == Spec => []AuditTellsRows
<1>1. Init => Agreed
  <2> SUFFICES ASSUME Init, NEW k \in Told, NEW t \in TenantIds, NEW w \in WorkIds \cup {NoWork}
               PROVE  Agree(k, t, w)
    BY DEF Agreed
  <2>1. RowsOf(k, t, w) = {} /\ ToldBy(k, t, w) = {}
    BY DEF Init, RowsOf, ToldBy, EventsOf
  <2>2. QED
    BY <2>1, FS_EmptySet DEF Agree
<1>2. Agreed => AuditTellsRows
  BY DEF Agreed, Agree, AuditTellsRows, Told
<1>3. QED
  BY <1>1, <1>2, TellsNext, TypeCorrect, PTL DEF Spec
=============================================================================
