------------------------- MODULE OrganizationProofs -------------------------
(***************************************************************************)
(* Proofs about an organization: Tenancy, what its administrators keep      *)
(* beside it (Workspaces, OrganizationConfiguration, Teams, SsoProviders),  *)
(* the commands (AuditTrail, MembershipMaintenance), the guards of its      *)
(* requests (RequestGuards), and their composition in MCOrganization.       *)
(*                                                                         *)
(* Each part has its inductive invariant: the types and the properties of   *)
(* its module, and what a call under way may still rely on.                 *)
(***************************************************************************)
EXTENDS MCOrganization, Sequences, FiniteSetTheorems, TLAPS

\* An organization with an owner, and an onboarding that says so.
Provisioned(o) ==
    /\ onboarding[o] = "READY"
    /\ \E u \in Users : mem[<<u, o>>].isTenantOwner /\ mem[<<u, o>>].status # "ABSENT"

\* A default membership is an active one at home; a role is one of its tenant
\* that exists; and who lost a role to a race is known to have lost it.
MembershipInv ==
    /\ \A u \in Users, o \in Orgs :
          /\ mem[<<u, o>>].isDefault => o = Home[u] /\ mem[<<u, o>>].status = "ACTIVE"
          /\ mem[<<u, o>>].status # "ABSENT" /\ mem[<<u, o>>].role = NoRole => <<u, o>> \in orphans
    /\ RolesStayInTenant
    /\ role[SystemRole] # "absent"
    /\ \A u \in Users, o \in Orgs, status \in MembershipStatus :
          <<u, o, status>> \in checked => status = "SUSPENDED"

\* What a transition may still do is what the lifecycle allows now, and it may
\* activate what is provisioned only.
LifecycleInv ==
    /\ \A u \in Users, o \in Orgs : mem[<<u, o>>].isTenantOwner => user[u] # "absent"
    /\ \A a \in Admins : request[a].kind = "provision" => user[request[a].owner] # "absent"
    /\ \A a \in Admins : request[a].kind = "transition" =>
          /\ request[a].may \subseteq Successors(org[request[a].org])
          /\ "ACTIVE" \in request[a].may => Provisioned(request[a].org)
    /\ \A o \in Orgs : org[o] \in {"ACTIVE", "SUSPENDED"} => Provisioned(o)

----------------------------------------------------------------------------
\* Tenancy: types.
LEMMA RecordTypes ==
    /\ NoRequest \in Request /\ NoRequest.kind = "none"
    /\ NoMembership \in Membership /\ Founding \in Membership
    /\ Home \in [Users -> Orgs] /\ SystemRole \in Roles /\ NoRole \notin Roles
    /\ TenantRoles \subseteq Roles
<1>1. NoRequest.org \in Orgs /\ NoRequest.owner \in Users
  BY TenancyAssumption DEF NoRequest
<1>2. NoRequest = [kind |-> "none", org |-> NoRequest.org, may |-> {}, owner |-> NoRequest.owner]
  BY DEF NoRequest
<1>3. NoRequest \in Request /\ NoRequest.kind = "none"
  BY <1>1, <1>2 DEF Request
<1> QED
  BY <1>3, TenancyAssumption DEF NoMembership, Founding, Membership, MembershipStatus, Roles

\* A request that fails, or is bumped, is none any more, or reports its failure.
LEMMA FailedType ==
    ASSUME NEW req \in Request
    PROVE  Failed(req) \in Request /\ Failed(req).kind \in {"none", "failed"}
<1>1. \A o \in Orgs : [NoRequest EXCEPT !.kind = "failed", !.org = o] \in Request
  BY RecordTypes DEF Request
<1>2. \A o \in Orgs : [NoRequest EXCEPT !.kind = "failed", !.org = o].kind = "failed"
  BY RecordTypes DEF Request
<1>3. req.org \in Orgs
  BY DEF Request
<1> QED
  BY <1>1, <1>2, <1>3, RecordTypes DEF Failed

\* Bumping an organization ends the transactions that are to write it.
LEMMA BumpedType ==
    ASSUME TypeOK, NEW O
    PROVE  /\ Bumped(O) \in [Admins -> Request]
           /\ \A a \in Admins : Bumped(O)[a] = request[a] \/ Bumped(O)[a].kind \in {"none", "failed"}
           /\ \A a \in Admins : Bumped(O)[a].kind \in {"transition", "provision"}
                 => Bumped(O)[a] = request[a] /\ request[a].org \notin O
<1>1. ASSUME NEW a \in Admins
      PROVE  /\ Bumped(O)[a] \in Request
             /\ Bumped(O)[a] = request[a] \/ Bumped(O)[a].kind \in {"none", "failed"}
             /\ Bumped(O)[a].kind \in {"transition", "provision"}
                 => Bumped(O)[a] = request[a] /\ request[a].org \notin O
  <2>1. request[a] \in Request
    BY DEF TypeOK
  <2>2. Failed(request[a]) \in Request /\ Failed(request[a]).kind \in {"none", "failed"}
    BY <2>1, FailedType
  <2>3. CASE request[a].kind \in {"transition", "provision"} /\ request[a].org \in O
    BY <2>2, <2>3 DEF Bumped
  <2>4. CASE ~(request[a].kind \in {"transition", "provision"} /\ request[a].org \in O)
    BY <2>1, <2>4 DEF Bumped
  <2> QED
    BY <2>3, <2>4
<1>2. Bumped(O) = [a \in Admins |-> Bumped(O)[a]]
  BY DEF Bumped
<1> QED
  BY <1>1, <1>2

\* Members: what the actions write into a membership is one.
LEMMA MembershipTypes ==
    ASSUME NEW m \in Membership, NEW r \in Roles \cup {NoRole}
    PROVE  /\ [m EXCEPT !.role = r] \in Membership
           /\ [m EXCEPT !.status = "SUSPENDED", !.isDefault = FALSE] \in Membership
           /\ [m EXCEPT !.status = "ACTIVE", !.isDefault = TRUE] \in Membership
           /\ [m EXCEPT !.isDefault = FALSE] \in Membership
           /\ [m EXCEPT !.status = "ACTIVE", !.role = r] \in Membership
           /\ [m EXCEPT !.status = "ACTIVE", !.isTenantOwner = TRUE, !.role = r] \in Membership
           /\ [Founding EXCEPT !.isTenantOwner = FALSE, !.role = r] \in Membership
  BY RecordTypes DEF Membership, MembershipStatus

\* Tenancy: the actions on users, memberships and roles keep the types.
LEMMA TenantTypeStep ==
    ASSUME TypeOK, TenantRequest
    PROVE  TypeOK'
<1>0. /\ user \in [Users -> Presence] /\ role \in [Roles -> Presence]
      /\ mem \in [Users \X Orgs -> Membership] /\ orphans \subseteq Users \X Orgs
      /\ checked \subseteq TenantRoles \cup (Users \X Orgs \X MembershipStatus)
      /\ request \in [Admins -> Request] /\ \A O : Bumped(O) \in [Admins -> Request]
  BY BumpedType DEF TypeOK
<1> DEFINE typed(u, m, r, q, c, w) ==
              /\ u \in [Users -> Presence] /\ r \in [Roles -> Presence]
              /\ m \in [Users \X Orgs -> Membership] /\ w \subseteq Users \X Orgs
              /\ c \subseteq TenantRoles \cup (Users \X Orgs \X MembershipStatus)
              /\ q \in [Admins -> Request]
<1>1. ASSUME typed(user', mem', role', request', checked', orphans'), UNCHANGED <<org, onboarding>>
      PROVE  TypeOK'
  BY <1>1 DEF TypeOK
<1>2. ASSUME NEW u \in Users, NEW r \in Roles, CreateUser(u, r) PROVE TypeOK'
  <2>1. PICK o \in Orgs : o = Home[u]
    BY RecordTypes
  <2>2. [Founding EXCEPT !.isTenantOwner = FALSE, !.role = r] \in Membership
    BY RecordTypes, MembershipTypes
  <2> QED
    BY <1>0, <1>1, <1>2, <2>1, <2>2 DEF CreateUser, Presence
<1>3. ASSUME NEW u \in Users, Deactivate(u) PROVE TypeOK'
  <2>1. PICK o \in Orgs : o = Home[u]
    BY RecordTypes
  <2>2. [mem[<<u, o>>] EXCEPT !.status = "SUSPENDED", !.isDefault = FALSE] \in Membership
    BY <1>0, MembershipTypes
  <2>3. \/ mem' = mem
        \/ mem' = [mem EXCEPT ![<<u, o>>] = [mem[<<u, o>>] EXCEPT !.status = "SUSPENDED", !.isDefault = FALSE]]
    BY <1>0, <1>3, <2>1 DEF Deactivate
  <2>4. mem' \in [Users \X Orgs -> Membership]
    BY <1>0, <2>2, <2>3
  <2>5. user' = [user EXCEPT ![u] = "inactive"] /\ request' = Bumped({o})
        /\ UNCHANGED <<role, org, onboarding, checked, orphans>>
    BY <1>3, <2>1 DEF Deactivate
  <2> QED
    BY <1>0, <1>1, <2>4, <2>5 DEF Presence
<1>4. ASSUME NEW u \in Users, Activate(u) PROVE TypeOK'
  <2>1. \A m \in Users \X Orgs : /\ [mem[m] EXCEPT !.status = "ACTIVE", !.isDefault = TRUE] \in Membership
                                 /\ [mem[m] EXCEPT !.isDefault = FALSE] \in Membership
    BY <1>0, MembershipTypes
  <2>2. mem' \in [Users \X Orgs -> Membership]
    BY <1>0, <1>4, <2>1 DEF Activate
  <2> QED
    BY <1>0, <1>1, <1>4, <2>2 DEF Activate, Presence
<1>5. ASSUME NEW u \in Users, NEW o \in Orgs, NEW r \in Roles, AssignRole(u, o, r) \/ SsoJoin(u, o, r)
      PROVE  TypeOK'
  <2>1. /\ [mem[<<u, o>>] EXCEPT !.role = r] \in Membership
        /\ [mem[<<u, o>>] EXCEPT !.status = "ACTIVE", !.role = r] \in Membership
    BY <1>0, MembershipTypes
  <2>2. CASE AssignRole(u, o, r)
    <3>1. mem' = [mem EXCEPT ![<<u, o>>] = [mem[<<u, o>>] EXCEPT !.role = r]]
      BY <1>0, <2>2 DEF AssignRole
    <3> QED
      BY <1>0, <1>1, <2>1, <2>2, <3>1 DEF AssignRole
  <2>3. CASE SsoJoin(u, o, r)
    BY <1>0, <1>1, <2>1, <2>3 DEF SsoJoin, Presence
  <2> QED
    BY <1>5, <2>2, <2>3
<1>6. ASSUME NEW u \in Users, NEW o \in Orgs, RevokeCheck(u, o) PROVE TypeOK'
  <2>1. <<u, o, mem[<<u, o>>].status>> \in Users \X Orgs \X MembershipStatus
    BY <1>0 DEF Membership
  <2> QED
    BY <1>0, <1>1, <1>6, <2>1 DEF RevokeCheck, Check, tenantVars
<1>7. ASSUME NEW u \in Users, NEW o \in Orgs, NEW status \in MembershipStatus, RevokeRole(u, o, status)
      PROVE  TypeOK'
  <2>1. [mem[<<u, o>>] EXCEPT !.role = NoRole] \in Membership
    BY <1>0, MembershipTypes
  <2>2. mem' = [mem EXCEPT ![<<u, o>>] = [mem[<<u, o>>] EXCEPT !.role = NoRole]]
    BY <1>0, <1>7 DEF RevokeRole
  <2>3. orphans' \subseteq Users \X Orgs
    BY <1>0, <1>7 DEF RevokeRole
  <2> QED
    BY <1>0, <1>1, <1>7, <2>1, <2>2, <2>3 DEF RevokeRole
<1>8. ASSUME NEW r \in TenantRoles, NEW p \in {"active", "inactive"}, DefineRole(r, p) PROVE TypeOK'
  <2>1. r \in Roles
    BY RecordTypes
  <2> QED
    BY <1>0, <1>1, <1>8, <2>1 DEF DefineRole, Presence
<1>9. ASSUME NEW r \in TenantRoles, RemoveCheck(r) PROVE TypeOK'
  BY <1>0, <1>1, <1>9 DEF RemoveCheck, Check, tenantVars
<1>10. ASSUME NEW r \in TenantRoles, RemoveDelete(r) PROVE TypeOK'
  <2>1. r \in Roles
    BY RecordTypes
  <2>2. \A m \in Users \X Orgs : [mem[m] EXCEPT !.role = NoRole] \in Membership
    BY <1>0, MembershipTypes
  <2>3. mem' \in [Users \X Orgs -> Membership] /\ orphans' \subseteq Users \X Orgs
    BY <1>0, <1>10, <2>2 DEF RemoveDelete, Holders
  <2> QED
    BY <1>0, <1>1, <1>10, <2>1, <2>3 DEF RemoveDelete, Presence
<1> QED
  BY <1>2, <1>3, <1>4, <1>5, <1>6, <1>7, <1>8, <1>9, <1>10 DEF TenantRequest

\* ... and so do those on organizations, their set-up and their requests.
LEMMA PlatformTypeStep ==
    ASSUME TypeOK, PlatformRequest
    PROVE  TypeOK'
<1>0. /\ role \in [Roles -> Presence] /\ org \in [Orgs -> OrgStatus]
      /\ mem \in [Users \X Orgs -> Membership] /\ orphans \subseteq Users \X Orgs
      /\ onboarding \in [Orgs -> {"NOT_STARTED", "FAILED", "READY"}]
      /\ request \in [Admins -> Request] /\ \A O : Bumped(O) \in [Admins -> Request]
  BY BumpedType DEF TypeOK
<1>1. ASSUME UNCHANGED <<user, checked>>, role' \in [Roles -> Presence],
             mem' \in [Users \X Orgs -> Membership], orphans' \subseteq Users \X Orgs,
             org' \in [Orgs -> OrgStatus], onboarding' \in [Orgs -> {"NOT_STARTED", "FAILED", "READY"}],
             request' \in [Admins -> Request]
      PROVE  TypeOK'
  BY <1>1 DEF TypeOK
<1>2. CASE ToggleSystemRole
  BY <1>0, <1>1, <1>2, RecordTypes DEF ToggleSystemRole, Presence
<1>3. ASSUME NEW a \in Admins, NEW o \in Managed, BeginTransition(a, o) PROVE TypeOK'
  <2>1. o \in Orgs /\ Allowed(o) \in SUBSET OrgStatus
    BY <1>0, TenancyAssumption DEF Allowed, Successors, OrgStatus
  <2>2. [NoRequest EXCEPT !.kind = "transition", !.org = o, !.may = Allowed(o)] \in Request
    BY <2>1, RecordTypes DEF Request
  <2> QED
    BY <1>0, <1>1, <1>3, <2>2 DEF BeginTransition, Begin, tenantVars
<1>4. ASSUME NEW a \in Admins, NEW o \in Managed, NEW u \in Users, BeginProvision(a, o, u) PROVE TypeOK'
  <2>1. o \in Orgs
    BY TenancyAssumption
  <2>2. /\ [NoRequest EXCEPT !.kind = "provision", !.org = o, !.owner = u] \in Request
        /\ [NoRequest EXCEPT !.kind = "failed", !.org = o] \in Request
    BY <2>1, RecordTypes DEF Request
  <2> QED
    BY <1>0, <1>1, <1>4, <2>2 DEF BeginProvision, Begin, tenantVars
<1>5. ASSUME NEW a \in Admins, NEW target \in OrgStatus, Transition(a, target) PROVE TypeOK'
  BY <1>0, <1>1, <1>5, RecordTypes DEF Transition, tenantVars, Request
<1>6. ASSUME NEW a \in Admins, Provision(a) PROVE TypeOK'
  <2>1. PICK o \in Orgs, w \in Users : o = request[a].org /\ w = request[a].owner
    BY <1>0 DEF Request
  <2>2. [mem[<<w, o>>] EXCEPT !.status = "ACTIVE", !.isTenantOwner = TRUE, !.role = SystemRole] \in Membership
    BY <1>0, RecordTypes, MembershipTypes
  <2>3. /\ mem' = [mem EXCEPT ![<<w, o>>] =
                     [mem[<<w, o>>] EXCEPT !.status = "ACTIVE", !.isTenantOwner = TRUE, !.role = SystemRole]]
        /\ onboarding' = [onboarding EXCEPT ![o] = "READY"]
        /\ request' = [Bumped({o}) EXCEPT ![a] = NoRequest]
        /\ orphans' = orphans \ {<<w, o>>}
        /\ UNCHANGED <<user, role, org, checked>>
    BY <1>6, <2>1 DEF Provision
  <2> QED
    BY <1>0, <1>1, <2>2, <2>3, RecordTypes
<1>7. ASSUME NEW a \in Admins, RequestFails(a) PROVE TypeOK'
  <2>1. Failed(request[a]) \in Request
    BY <1>0, FailedType
  <2> QED
    BY <1>0, <1>1, <1>7, <2>1 DEF RequestFails, tenantVars
<1>8. ASSUME NEW a \in Admins, RecordFailure(a) PROVE TypeOK'
  <2>1. PICK o \in Orgs : o = request[a].org
    BY <1>0 DEF Request
  <2> QED
    BY <1>0, <1>1, <1>8, <2>1, RecordTypes DEF RecordFailure, tenantVars
<1> QED
  BY <1>2, <1>3, <1>4, <1>5, <1>6, <1>7, <1>8 DEF PlatformRequest

\* Tenancy: every step keeps the types.
LEMMA TenancyTypeStep ==
    ASSUME TypeOK, [Next]_vars
    PROVE  TypeOK'
<1>1. CASE UNCHANGED vars
  BY <1>1 DEF vars, TypeOK
<1> QED
  BY <1>1, TenantTypeStep, PlatformTypeStep DEF Next

\* Tenancy: what a step does to a membership, to the roles and to what was read.
LEMMA MembershipStep ==
    ASSUME TypeOK, MembershipInv, [Next]_vars
    PROVE  MembershipInv'
<1>0. /\ role \in [Roles -> Presence] /\ mem \in [Users \X Orgs -> Membership]
      /\ SystemRole \in Roles /\ SystemRole \notin TenantRoles /\ NoRole \notin Roles
      /\ Home \in [Users -> Orgs] /\ TenantRoles \subseteq Roles
      /\ request \in [Admins -> Request]
  BY RecordTypes, TenancyAssumption DEF TypeOK
<1> DEFINE reads == \A u \in Users, o \in Orgs, status \in MembershipStatus :
                       <<u, o, status>> \in checked' => status = "SUSPENDED"
           sound(u, o, m, r, w) ==
              /\ m.isDefault => o = Home[u] /\ m.status = "ACTIVE"
              /\ m.status # "ABSENT" /\ m.role = NoRole => <<u, o>> \in w
              /\ m.role # NoRole => m.role \in RolesOf(o) /\ r[m.role] # "absent"
<1>1. ASSUME \A u \in Users, o \in Orgs : sound(u, o, mem'[<<u, o>>], role', orphans'),
             role'[SystemRole] # "absent", reads
      PROVE  MembershipInv'
  BY <1>1 DEF MembershipInv, RolesStayInTenant
<1>2. /\ \A u \in Users, o \in Orgs : sound(u, o, mem[<<u, o>>], role, orphans)
      /\ role[SystemRole] # "absent"
  BY DEF MembershipInv, RolesStayInTenant
<1>3. checked' \subseteq checked => reads
  BY DEF MembershipInv
<1>4. \A u \in Users, o \in Orgs : mem[<<u, o>>] \in Membership
  BY <1>0
<1> HIDE DEF reads
<1>5. ASSUME NEW u \in Users, NEW r \in Roles, CreateUser(u, r) PROVE MembershipInv'
  <2>1. PICK o \in Orgs : o = Home[u]
    BY <1>0
  <2>2. PICK m \in Membership : m = [Founding EXCEPT !.isTenantOwner = FALSE, !.role = r]
    BY RecordTypes, MembershipTypes
  <2>3. m.status = "ACTIVE" /\ m.role = r
    BY <2>2, RecordTypes DEF Founding
  <2>4. mem' = [mem EXCEPT ![<<u, o>>] = m] /\ Assignable(r, o)
    BY <1>5, <2>1, <2>2 DEF CreateUser
  <2>5. sound(u, o, m, role, orphans)
    BY <1>0, <2>1, <2>3, <2>4 DEF Assignable
  <2>6. UNCHANGED <<role, orphans, checked>>
    BY <1>5 DEF CreateUser
  <2> QED
    BY <1>0, <1>1, <1>2, <1>3, <2>4, <2>5, <2>6
<1>6. ASSUME NEW u \in Users, Deactivate(u) PROVE MembershipInv'
  <2>1. PICK o \in Orgs : o = Home[u]
    BY <1>0
  <2>2. PICK m \in Membership : m = [mem[<<u, o>>] EXCEPT !.status = "SUSPENDED", !.isDefault = FALSE]
    BY <1>4, MembershipTypes
  <2>3. mem[<<u, o>>].status = "ACTIVE" => sound(u, o, m, role, orphans)
    BY <1>2, <1>4, <2>2 DEF Membership
  <2>4. \/ mem' = mem
        \/ mem[<<u, o>>].status = "ACTIVE" /\ mem' = [mem EXCEPT ![<<u, o>>] = m]
    BY <1>0, <1>6, <2>1, <2>2 DEF Deactivate
  <2>5. UNCHANGED <<role, orphans, checked>>
    BY <1>6 DEF Deactivate
  <2> QED
    BY <1>0, <1>1, <1>2, <1>3, <2>3, <2>4, <2>5
<1>7. ASSUME NEW u \in Users, Activate(u) PROVE MembershipInv'
  <2>1. UNCHANGED <<role, orphans, checked>> /\ mem[<<u, Home[u]>>].status # "ABSENT"
    BY <1>7 DEF Activate
  <2>2. ASSUME NEW v \in Users, NEW o \in Orgs
        PROVE  sound(v, o, mem'[<<v, o>>], role, orphans)
    <3>1. mem'[<<v, o>>] = IF <<v, o>> = <<u, Home[u]>>
                           THEN [mem[<<v, o>>] EXCEPT !.status = "ACTIVE", !.isDefault = TRUE]
                           ELSE IF v = u THEN [mem[<<v, o>>] EXCEPT !.isDefault = FALSE]
                           ELSE mem[<<v, o>>]
      BY <1>7 DEF Activate
    <3>2. PICK m \in Membership : m = mem[<<v, o>>] /\ sound(v, o, m, role, orphans)
      BY <1>2, <1>4
    <3>3. CASE <<v, o>> = <<u, Home[u]>>
      <4>1. mem'[<<v, o>>] = [m EXCEPT !.status = "ACTIVE", !.isDefault = TRUE] /\ m.status # "ABSENT"
        BY <2>1, <3>1, <3>2, <3>3
      <4> QED
        BY <3>2, <3>3, <4>1 DEF Membership
    <3>4. CASE <<v, o>> # <<u, Home[u]>> /\ v = u
      BY <3>1, <3>2, <3>4 DEF Membership
    <3>5. CASE v # u
      BY <3>1, <3>2, <3>5
    <3> QED
      BY <3>3, <3>4, <3>5
  <2> QED
    BY <1>1, <1>2, <1>3, <2>1, <2>2
<1>8. ASSUME NEW u \in Users, NEW o \in Orgs, NEW r \in Roles, AssignRole(u, o, r) \/ SsoJoin(u, o, r)
      PROVE  MembershipInv'
  <2>1. PICK m \in Membership : m = mem[<<u, o>>] /\ sound(u, o, m, role, orphans)
    BY <1>2, <1>4
  <2>2. Assignable(r, o) /\ orphans' = orphans \ {<<u, o>>} /\ UNCHANGED <<role, checked>>
    BY <1>8 DEF AssignRole, SsoJoin
  <2>3. r \in RolesOf(o) /\ role[r] # "absent" /\ r # NoRole
    BY <1>0, <2>2 DEF Assignable
  <2>4. PICK n \in Membership : /\ n = [m EXCEPT !.role = r] \/ n = [m EXCEPT !.status = "ACTIVE", !.role = r]
                                /\ mem' = [mem EXCEPT ![<<u, o>>] = n]
    <3>1. CASE AssignRole(u, o, r)
      <4>1. mem' = [mem EXCEPT ![<<u, o>>] = [m EXCEPT !.role = r]]
        BY <1>0, <2>1, <3>1 DEF AssignRole
      <4> QED
        BY <2>1, <4>1, MembershipTypes
    <3>2. CASE SsoJoin(u, o, r)
      BY <2>1, <3>2, MembershipTypes DEF SsoJoin
    <3> QED
      BY <1>8, <3>1, <3>2
  <2>5. sound(u, o, n, role, orphans')
    BY <2>1, <2>3, <2>4 DEF Membership
  <2>6. \A v \in Users, p \in Orgs : <<v, p>> # <<u, o>> =>
           mem'[<<v, p>>] = mem[<<v, p>>] /\ (<<v, p>> \in orphans => <<v, p>> \in orphans')
    BY <1>0, <2>2, <2>4
  <2>7. mem'[<<u, o>>] = n
    BY <1>0, <2>4
  <2>8. ASSUME NEW v \in Users, NEW p \in Orgs PROVE sound(v, p, mem'[<<v, p>>], role', orphans')
    <3>1. CASE <<v, p>> = <<u, o>>
      BY <2>2, <2>5, <2>7, <3>1
    <3>2. CASE <<v, p>> # <<u, o>>
      BY <1>2, <2>2, <2>6, <3>2
    <3> QED
      BY <3>1, <3>2
  <2> QED
    BY <1>1, <1>2, <1>3, <2>2, <2>8
<1>9. ASSUME NEW u \in Users, NEW o \in Orgs, RevokeCheck(u, o) PROVE MembershipInv'
  <2>1. /\ checked' = checked \cup {<<u, o, "SUSPENDED">>} /\ UNCHANGED <<mem, role, orphans>>
    BY <1>9 DEF RevokeCheck, Check, tenantVars
  <2>2. reads
    BY <2>1 DEF reads, MembershipInv
  <2> QED
    BY <1>1, <1>2, <2>1, <2>2
<1>10. ASSUME NEW u \in Users, NEW o \in Orgs, NEW status \in MembershipStatus, RevokeRole(u, o, status)
       PROVE  MembershipInv'
  <2>1. /\ status = "SUSPENDED" /\ checked' \subseteq checked /\ role' = role
        /\ orphans' = orphans \cup {<<u, o>>}
        /\ mem' = [mem EXCEPT ![<<u, o>>] = [mem[<<u, o>>] EXCEPT !.role = NoRole]]
    BY <1>0, <1>10 DEF RevokeRole, MembershipInv
  <2>2. PICK m \in Membership : m = mem[<<u, o>>] /\ sound(u, o, m, role, orphans)
    BY <1>2, <1>4
  <2>3. sound(u, o, [m EXCEPT !.role = NoRole], role, orphans')
    BY <2>1, <2>2 DEF Membership
  <2>4. ASSUME NEW v \in Users, NEW p \in Orgs PROVE sound(v, p, mem'[<<v, p>>], role', orphans')
    <3>1. CASE <<v, p>> = <<u, o>>
      <4>1. mem'[<<v, p>>] = [m EXCEPT !.role = NoRole] /\ v = u /\ p = o
        BY <1>0, <2>1, <2>2, <3>1
      <4> QED
        BY <2>1, <2>3, <4>1
    <3>2. CASE <<v, p>> # <<u, o>>
      <4>1. mem'[<<v, p>>] = mem[<<v, p>>]
        BY <1>0, <2>1, <3>2
      <4> QED
        BY <1>2, <2>1, <4>1
    <3> QED
      BY <3>1, <3>2
  <2> QED
    BY <1>1, <1>2, <1>3, <2>1, <2>4
<1>11. ASSUME NEW r \in TenantRoles, NEW p \in {"active", "inactive"}, DefineRole(r, p) PROVE MembershipInv'
  <2>1. role' = [role EXCEPT ![r] = p] /\ UNCHANGED <<mem, checked, orphans>>
    BY <1>11 DEF DefineRole
  <2>2. \A s \in Roles : role[s] # "absent" => role'[s] # "absent"
    BY <1>0, <2>1
  <2>3. \A o \in Orgs : RolesOf(o) \subseteq Roles
    BY <1>0 DEF RolesOf, Roles
  <2> QED
    BY <1>0, <1>1, <1>2, <1>3, <2>1, <2>2, <2>3
<1>12. CASE ToggleSystemRole
  <2>1. UNCHANGED <<mem, checked, orphans>>
    BY <1>12 DEF ToggleSystemRole
  <2>2. \A s \in Roles : role[s] # "absent" => role'[s] # "absent"
    BY <1>0, <1>12 DEF ToggleSystemRole
  <2>3. \A o \in Orgs : RolesOf(o) \subseteq Roles
    BY <1>0 DEF RolesOf, Roles
  <2> QED
    BY <1>0, <1>1, <1>2, <1>3, <2>1, <2>2, <2>3
<1>13. ASSUME NEW r \in TenantRoles, RemoveCheck(r) PROVE MembershipInv'
  <2>1. checked' = checked \cup {r} /\ UNCHANGED <<mem, role, orphans>>
    BY <1>13 DEF RemoveCheck, Check, tenantVars
  <2>2. r \notin Users \X Orgs \X MembershipStatus
    BY TenancyAssumption DEF MembershipStatus
  <2>3. \A u \in Users, o \in Orgs, status \in MembershipStatus : <<u, o, status>> # r
    BY <2>2
  <2>4. reads
    BY <2>1, <2>3 DEF reads, MembershipInv
  <2> QED
    BY <1>1, <1>2, <2>1, <2>4
<1>14. ASSUME NEW r \in TenantRoles, RemoveDelete(r) PROVE MembershipInv'
  <2>1. /\ role' = [role EXCEPT ![r] = "absent"] /\ checked' \subseteq checked
        /\ orphans' = orphans \cup Holders(r)
        /\ \A m \in Users \X Orgs :
              mem'[m] = IF mem[m].role = r THEN [mem[m] EXCEPT !.role = NoRole] ELSE mem[m]
    BY <1>14 DEF RemoveDelete, Holders
  <2>2. \A s \in Roles \ {r} : role'[s] = role[s]
    BY <1>0, <2>1
  <2>3. ASSUME NEW u \in Users, NEW o \in Orgs PROVE sound(u, o, mem'[<<u, o>>], role', orphans')
    <3>1. PICK m \in Membership : m = mem[<<u, o>>] /\ sound(u, o, m, role, orphans)
      BY <1>2, <1>4
    <3>2. CASE m.role = r
      <4>1. mem'[<<u, o>>] = [m EXCEPT !.role = NoRole] /\ <<u, o>> \in orphans'
        BY <2>1, <3>1, <3>2 DEF Holders
      <4> QED
        BY <3>1, <4>1 DEF Membership
    <3>3. CASE m.role # r
      <4>1. mem'[<<u, o>>] = m
        BY <2>1, <3>1, <3>3
      <4>2. RolesOf(o) \subseteq Roles
        BY <1>0 DEF RolesOf, Roles
      <4> QED
        BY <2>1, <2>2, <3>1, <3>3, <4>1, <4>2
    <3> QED
      BY <3>2, <3>3
  <2>4. role'[SystemRole] # "absent"
    BY <1>0, <1>2, <2>2
  <2> QED
    BY <1>1, <1>3, <2>1, <2>3, <2>4
<1>15. ASSUME NEW a \in Admins, Provision(a) PROVE MembershipInv'
  <2>1. PICK o \in Orgs, w \in Users : o = request[a].org /\ w = request[a].owner
    BY <1>0 DEF Request
  <2>2. PICK m \in Membership : m = mem[<<w, o>>] /\ sound(w, o, m, role, orphans)
    BY <1>2, <1>4
  <2>3. PICK n \in Membership : n = [m EXCEPT !.status = "ACTIVE", !.isTenantOwner = TRUE, !.role = SystemRole]
    BY <1>0, MembershipTypes
  <2>4. /\ mem' = [mem EXCEPT ![<<w, o>>] = n] /\ orphans' = orphans \ {<<w, o>>}
        /\ UNCHANGED <<role, checked>>
    BY <1>15, <2>1, <2>2, <2>3 DEF Provision
  <2>5. sound(w, o, n, role, orphans')
    BY <1>0, <1>2, <2>2, <2>3 DEF Membership, RolesOf
  <2>6. ASSUME NEW v \in Users, NEW p \in Orgs PROVE sound(v, p, mem'[<<v, p>>], role', orphans')
    <3>1. CASE <<v, p>> = <<w, o>>
      <4>1. mem'[<<v, p>>] = n /\ v = w /\ p = o
        BY <1>0, <2>4, <3>1
      <4> QED
        BY <2>4, <2>5, <4>1
    <3>2. CASE <<v, p>> # <<w, o>>
      <4>1. mem'[<<v, p>>] = mem[<<v, p>>]
        BY <1>0, <2>4, <3>2
      <4> QED
        BY <1>2, <2>4, <3>2, <4>1
    <3> QED
      BY <3>1, <3>2
  <2> QED
    BY <1>1, <1>2, <1>3, <2>4, <2>6
<1>16. ASSUME UNCHANGED <<mem, role, checked, orphans>> PROVE MembershipInv'
  BY <1>1, <1>2, <1>3, <1>16
<1>17. ASSUME NEW a \in Admins,
              \/ \E o \in Managed : BeginTransition(a, o)
              \/ \E o \in Managed, u \in Users : BeginProvision(a, o, u)
              \/ \E target \in OrgStatus : Transition(a, target)
              \/ RequestFails(a) \/ RecordFailure(a)
       PROVE  MembershipInv'
  BY <1>16, <1>17 DEF BeginTransition, BeginProvision, Begin, Transition, RequestFails, RecordFailure,
     tenantVars
<1>18. CASE UNCHANGED vars
  BY <1>16, <1>18 DEF vars
<1> QED
  BY <1>5, <1>6, <1>7, <1>8, <1>9, <1>10, <1>11, <1>12, <1>13, <1>14, <1>15, <1>17, <1>18
     DEF Next, TenantRequest, PlatformRequest

\* Tenancy: what the requests of a tenant write leaves an owner an owner, and a
\* member a member.
Keeps(m, n) == n.isTenantOwner = m.isTenantOwner /\ (m.status # "ABSENT" => n.status # "ABSENT")

\* Tenancy: the writes to a membership.
LEMMA MembersKept ==
    ASSUME NEW m \in Membership
    PROVE  /\ Keeps(m, [m EXCEPT !.status = "SUSPENDED", !.isDefault = FALSE])
           /\ Keeps(m, [m EXCEPT !.status = "ACTIVE", !.isDefault = TRUE])
           /\ Keeps(m, [m EXCEPT !.isDefault = FALSE])
           /\ \A s : Keeps(m, [m EXCEPT !.role = s]) /\ Keeps(m, [m EXCEPT !.status = "ACTIVE", !.role = s])
  BY DEF Keeps, Membership

\* Tenancy: the onboarding and the owner of an organization in business stay,
\* whoever writes its status, its members or a late failure.
LEMMA LifecycleStep ==
    ASSUME TypeOK, LifecycleInv, [Next]_vars
    PROVE  LifecycleInv' /\ \A o \in Orgs : org'[o] # org[o] => org'[o] \in Successors(org[o])
<1>0. /\ mem \in [Users \X Orgs -> Membership] /\ org \in [Orgs -> OrgStatus]
      /\ request \in [Admins -> Request] /\ Home \in [Users -> Orgs] /\ Managed \subseteq Orgs
      /\ user \in [Users -> Presence]
      /\ onboarding \in [Orgs -> {"NOT_STARTED", "FAILED", "READY"}]
  BY TenancyAssumption DEF TypeOK
<1> DEFINE owners == \A u \in Users, o \in Orgs :
                        /\ mem'[<<u, o>>].isTenantOwner => user'[u] # "absent"
                        /\ mem[<<u, o>>].isTenantOwner /\ mem[<<u, o>>].status # "ABSENT"
                             => mem'[<<u, o>>].isTenantOwner /\ mem'[<<u, o>>].status # "ABSENT"
           accounts == \A u \in Users : user[u] # "absent" => user'[u] # "absent"
           requests == \A a \in Admins : request'[a].kind \in {"transition", "provision"}
                          => request'[a] = request[a]
           still == org' = org /\ onboarding' = onboarding
<1>1. \A a \in Admins : request[a] \in Request
  BY <1>0
<1>2. ASSUME owners, onboarding' = onboarding PROVE \A o \in Orgs : Provisioned(o) => Provisioned(o)'
  BY <1>2 DEF Provisioned
<1>3. ASSUME owners, accounts, requests, still
      PROVE  LifecycleInv' /\ org' = org
  <2>1. \A o \in Orgs : Provisioned(o) => Provisioned(o)'
    BY <1>2, <1>3
  <2>2. \A a \in Admins : request'[a].kind = "provision" => user'[request'[a].owner] # "absent"
    BY <1>1, <1>3 DEF LifecycleInv, Request
  <2>3. ASSUME NEW a \in Admins, request'[a].kind = "transition"
        PROVE  (/\ request[a].may \subseteq Successors(org[request[a].org])
                /\ "ACTIVE" \in request[a].may => Provisioned(request[a].org))'
    <3>1. request'[a] = request[a] /\ request[a].kind = "transition"
      BY <1>3, <2>3
    <3>2. PICK o \in Orgs : o = request[a].org
      BY <1>1 DEF Request
    <3>3. request[a].may \subseteq Successors(org[o]) /\ ("ACTIVE" \in request[a].may => Provisioned(o))
      BY <3>1, <3>2 DEF LifecycleInv
    <3>4. "ACTIVE" \in request'[a].may => Provisioned(o)'
      BY <2>1, <3>1, <3>3
    <3>5. request'[a].org = o /\ org'[o] = org[o]
      BY <1>3, <3>1, <3>2
    <3> QED
      BY <3>1, <3>3, <3>4, <3>5 DEF Provisioned
  <2>4. \A u \in Users, o \in Orgs : mem'[<<u, o>>].isTenantOwner => user'[u] # "absent"
    BY <1>3
  <2>5. \A o \in Orgs : org'[o] \in {"ACTIVE", "SUSPENDED"} => Provisioned(o)'
    BY <1>3, <2>1 DEF LifecycleInv
  <2> QED
    BY <1>3, <2>2, <2>3, <2>4, <2>5 DEF LifecycleInv
<1>4. \A u \in Users, o \in Orgs : mem[<<u, o>>] \in Membership /\ (mem[<<u, o>>].isTenantOwner => user[u] # "absent")
  BY <1>0 DEF LifecycleInv
<1>5. \A O : (\A a \in Admins : Bumped(O)[a].kind \in {"transition", "provision"} => Bumped(O)[a] = request[a])
  BY BumpedType
<1> HIDE DEF still
<1>6. ASSUME TenantRequest PROVE owners /\ accounts /\ requests /\ still
  <2>1. still
    BY <1>6 DEF TenantRequest, CreateUser, Deactivate, Activate, AssignRole, RevokeCheck, Check, RevokeRole,
       DefineRole, RemoveCheck, RemoveDelete, SsoJoin, still
  <2>2. request' = request \/ \E O : request' = Bumped(O)
    BY <1>6 DEF TenantRequest, CreateUser, Deactivate, Activate, AssignRole, RevokeCheck, Check, RevokeRole,
       DefineRole, RemoveCheck, RemoveDelete, SsoJoin
  <2>3. requests
    BY <1>5, <2>2
  <2>4. accounts
    <3>1. user' = user \/ \E u \in Users, p \in {"active", "inactive"} : user' = [user EXCEPT ![u] = p]
      BY <1>6 DEF TenantRequest, CreateUser, Deactivate, Activate, AssignRole, RevokeCheck, Check, RevokeRole,
         DefineRole, RemoveCheck, RemoveDelete, SsoJoin, tenantVars
    <3> QED
      BY <1>0, <3>1
  <2>5. owners
    <3>1. ASSUME NEW u \in Users, NEW r \in Roles, CreateUser(u, r) PROVE owners
      <4>1. PICK p \in Orgs : p = Home[u]
        BY <1>0
      <4>2. PICK n \in Membership : n = [Founding EXCEPT !.isTenantOwner = FALSE, !.role = r]
        BY RecordTypes, MembershipTypes
      <4>3. mem' = [mem EXCEPT ![<<u, p>>] = n] /\ ~n.isTenantOwner /\ user[u] = "absent"
        BY <3>1, <4>1, <4>2, RecordTypes DEF CreateUser, Founding
      <4>4. \A v \in Users, o \in Orgs : <<v, o>> # <<u, p>> => mem'[<<v, o>>] = mem[<<v, o>>]
        BY <1>0, <4>3
      <4>5. mem'[<<u, p>>] = n
        BY <1>0, <4>3
      <4> QED
        BY <1>4, <2>4, <4>3, <4>4, <4>5
    <3>2. ASSUME \A v \in Users, o \in Orgs :
                    \/ mem'[<<v, o>>] = mem[<<v, o>>]
                    \/ Keeps(mem[<<v, o>>], mem'[<<v, o>>])
          PROVE  owners
      BY <1>4, <2>4, <3>2 DEF Keeps
    <3>3. ASSUME NEW u \in Users, Deactivate(u) PROVE owners
      <4>1. PICK p \in Orgs : p = Home[u]
        BY <1>0
      <4>2. \/ mem' = mem
            \/ mem' = [mem EXCEPT ![<<u, p>>] = [mem[<<u, p>>] EXCEPT !.status = "SUSPENDED", !.isDefault = FALSE]]
        BY <1>0, <3>3, <4>1 DEF Deactivate
      <4>3. PICK m \in Membership, n \in Membership :
               m = mem[<<u, p>>] /\ n = [m EXCEPT !.status = "SUSPENDED", !.isDefault = FALSE]
        <5>1. SystemRole \in Roles
          BY RecordTypes
        <5> QED
          BY <1>4, <5>1, MembershipTypes
      <4>4. Keeps(m, n) /\ (mem' = mem \/ mem' = [mem EXCEPT ![<<u, p>>] = n])
        BY <4>2, <4>3, MembersKept
      <4> QED
        BY <1>0, <3>2, <4>3, <4>4
    <3>4. ASSUME NEW u \in Users, Activate(u) PROVE owners
      <4>1. \A v \in Users, o \in Orgs :
               \/ mem'[<<v, o>>] = mem[<<v, o>>]
               \/ mem'[<<v, o>>] = [mem[<<v, o>>] EXCEPT !.status = "ACTIVE", !.isDefault = TRUE]
               \/ mem'[<<v, o>>] = [mem[<<v, o>>] EXCEPT !.isDefault = FALSE]
        BY <3>4 DEF Activate
      <4>2. ASSUME NEW v \in Users, NEW o \in Orgs
            PROVE  mem'[<<v, o>>] = mem[<<v, o>>] \/ Keeps(mem[<<v, o>>], mem'[<<v, o>>])
        <5>1. PICK m \in Membership : m = mem[<<v, o>>]
          BY <1>4
        <5> QED
          BY <4>1, <5>1, MembersKept
      <4> QED
        BY <3>2, <4>2
    <3>5. ASSUME NEW u \in Users, NEW p \in Orgs, NEW r \in Roles,
                 AssignRole(u, p, r) \/ SsoJoin(u, p, r) \/ \E st \in MembershipStatus : RevokeRole(u, p, st)
          PROVE  owners
      <4>1. \/ \E s : mem' = [mem EXCEPT ![<<u, p>>] = [mem[<<u, p>>] EXCEPT !.role = s]]
            \/ \E s : mem' = [mem EXCEPT ![<<u, p>>] = [mem[<<u, p>>] EXCEPT !.status = "ACTIVE", !.role = s]]
        BY <1>0, <3>5 DEF AssignRole, SsoJoin, RevokeRole
      <4>2. PICK m \in Membership : m = mem[<<u, p>>]
        BY <1>4
      <4>3. \E n : Keeps(m, n) /\ mem' = [mem EXCEPT ![<<u, p>>] = n]
        BY <4>1, <4>2, MembersKept
      <4> QED
        BY <1>0, <3>2, <4>2, <4>3
    <3>6. ASSUME NEW r \in TenantRoles, RemoveDelete(r) PROVE owners
      <4>1. \A v \in Users, o \in Orgs :
               \/ mem'[<<v, o>>] = mem[<<v, o>>]
               \/ mem'[<<v, o>>] = [mem[<<v, o>>] EXCEPT !.role = NoRole]
        BY <3>6 DEF RemoveDelete
      <4>2. ASSUME NEW v \in Users, NEW o \in Orgs
            PROVE  mem'[<<v, o>>] = mem[<<v, o>>] \/ Keeps(mem[<<v, o>>], mem'[<<v, o>>])
        <5>1. PICK m \in Membership : m = mem[<<v, o>>]
          BY <1>4
        <5> PICK s : s = NoRole
          OBVIOUS
        <5>2. Keeps(m, [m EXCEPT !.role = s])
          BY MembersKept
        <5> QED
          BY <4>1, <5>1, <5>2
      <4> QED
        BY <3>2, <4>2
    <3>7. ASSUME UNCHANGED mem PROVE owners
      BY <3>2, <3>7
    <3>8. TenantRoles \subseteq Roles /\ SystemRole \in Roles
      BY RecordTypes
    <3> HIDE DEF owners
    <3> QED
      BY <1>6, <3>1, <3>3, <3>4, <3>5, <3>6, <3>7, <3>8
         DEF TenantRequest, RevokeCheck, Check, DefineRole, RemoveCheck, tenantVars
  <2> QED
    BY <2>1, <2>3, <2>4, <2>5
<1> HIDE DEF requests, owners, accounts
<1> DEFINE clear(q, o) == \A b \in Admins : q[b].kind \in {"transition", "provision"}
                             => q[b] = request[b] /\ request[b].org # o
<1>6a. ASSUME NEW a \in Admins, NEW o PROVE clear([Bumped({o}) EXCEPT ![a] = NoRequest], o)
  <2>1. /\ Bumped({o}) \in [Admins -> Request]
        /\ \A b \in Admins : Bumped({o})[b].kind \in {"transition", "provision"}
              => Bumped({o})[b] = request[b] /\ request[b].org # o
    BY BumpedType
  <2> QED
    BY <2>1, RecordTypes
<1>7. UNCHANGED tenantVars => owners /\ accounts
  BY <1>4 DEF owners, accounts, tenantVars
<1>8. CASE ToggleSystemRole
  <2>1. still /\ requests /\ user' = user /\ mem' = mem
    BY <1>5, <1>8 DEF ToggleSystemRole, still, requests
  <2>2. owners /\ accounts
    BY <1>4, <2>1 DEF owners, accounts
  <2> QED
    BY <1>3, <2>1, <2>2
<1> DEFINE sound(q) == /\ q \in Request
                       /\ q.kind = "provision" => user[q.owner] # "absent"
                       /\ q.kind = "transition" => /\ q.may \subseteq Successors(org[q.org])
                                                   /\ "ACTIVE" \in q.may => Provisioned(q.org)
<1>9. \A a \in Admins : sound(request[a])
  BY <1>1 DEF LifecycleInv
<1>10. ASSUME UNCHANGED <<tenantVars, org, onboarding>>, \A a \in Admins : sound(request'[a])
       PROVE  LifecycleInv' /\ org' = org
  BY <1>10 DEF LifecycleInv, Provisioned, tenantVars
<1>11. ASSUME NEW o \in Orgs, owners, accounts,
              \A p \in Orgs : p # o => org'[p] = org[p] /\ onboarding'[p] = onboarding[p],
              \A a \in Admins : request'[a].kind \in {"transition", "provision"}
                 => request'[a] = request[a] /\ request[a].org # o,
              org'[o] \in {"ACTIVE", "SUSPENDED"} => Provisioned(o)'
       PROVE  LifecycleInv'
  <2>1. \A p \in Orgs : p # o /\ Provisioned(p) => Provisioned(p)'
    BY <1>11 DEF owners, Provisioned
  <2>2. \A a \in Admins : request'[a].kind = "provision" => user'[request'[a].owner] # "absent"
    BY <1>1, <1>11 DEF LifecycleInv, Request, accounts
  <2>3. ASSUME NEW a \in Admins, request'[a].kind = "transition"
        PROVE  (/\ request[a].may \subseteq Successors(org[request[a].org])
                /\ "ACTIVE" \in request[a].may => Provisioned(request[a].org))'
    <3>1. request'[a] = request[a] /\ request[a].kind = "transition" /\ request[a].org # o
      BY <1>11, <2>3
    <3>2. PICK p \in Orgs : p = request[a].org
      BY <1>1 DEF Request
    <3>3. request[a].may \subseteq Successors(org[p]) /\ ("ACTIVE" \in request[a].may => Provisioned(p))
      BY <3>1, <3>2 DEF LifecycleInv
    <3>4. "ACTIVE" \in request'[a].may => Provisioned(p)'
      BY <2>1, <3>1, <3>2, <3>3
    <3>5. request'[a].org = p /\ org'[p] = org[p]
      BY <1>11, <3>1, <3>2
    <3> QED
      BY <3>1, <3>3, <3>4, <3>5 DEF Provisioned
  <2>4. \A u \in Users, p \in Orgs : mem'[<<u, p>>].isTenantOwner => user'[u] # "absent"
    BY <1>11 DEF owners
  <2>5. \A p \in Orgs : org'[p] \in {"ACTIVE", "SUSPENDED"} => Provisioned(p)'
    BY <1>11, <2>1 DEF LifecycleInv
  <2> QED
    BY <2>2, <2>3, <2>4, <2>5 DEF LifecycleInv
<1>12. ASSUME NEW a \in Admins, NEW o \in Managed, BeginTransition(a, o)
       PROVE  LifecycleInv' /\ org' = org
  <2>1. o \in Orgs /\ Allowed(o) \in SUBSET OrgStatus /\ Allowed(o) \subseteq Successors(org[o])
    BY <1>0 DEF Allowed, Successors, OrgStatus
  <2>2. PICK q \in Request : /\ q = [NoRequest EXCEPT !.kind = "transition", !.org = o, !.may = Allowed(o)]
                             /\ q.kind = "transition" /\ q.org = o /\ q.may = Allowed(o)
    <3>1. [NoRequest EXCEPT !.kind = "transition", !.org = o, !.may = Allowed(o)] \in Request
      BY <2>1, RecordTypes DEF Request
    <3> PICK q \in Request : q = [NoRequest EXCEPT !.kind = "transition", !.org = o, !.may = Allowed(o)]
      BY <3>1
    <3> HIDE DEF sound
    <3>2. q.kind = "transition" /\ q.org = o /\ q.may = Allowed(o)
      BY RecordTypes DEF Request
    <3> QED
      BY <3>2
  <2>3. "ACTIVE" \in Allowed(o) => Provisioned(o)
    BY <2>1 DEF Allowed, Owned, ActiveOwners, Provisioned
  <2>4. sound(q)
    BY <2>1, <2>2, <2>3
  <2>5. UNCHANGED <<tenantVars, org, onboarding>> /\ request' = [request EXCEPT ![a] = q]
    BY <1>12, <2>2 DEF BeginTransition, Begin
  <2> HIDE DEF sound
  <2> QED
    BY <1>0, <1>9, <1>10, <2>4, <2>5
<1>13. ASSUME NEW a \in Admins, NEW o \in Managed, NEW u \in Users, BeginProvision(a, o, u)
       PROVE  LifecycleInv' /\ org' = org
  <2>1. PICK q \in Request : /\ UNCHANGED <<tenantVars, org, onboarding>> /\ request' = [request EXCEPT ![a] = q]
                             /\ q.kind \in {"provision", "failed"}
                             /\ q.kind = "provision" => user[u] = "active" /\ q.owner = u
    <3>1. o \in Orgs
      BY <1>0
    <3>2. \A x : [NoRequest EXCEPT !.kind = "provision", !.org = o, !.owner = u] \in Request
              /\ [NoRequest EXCEPT !.kind = "failed", !.org = o] \in Request
      BY <3>1, RecordTypes DEF Request
    <3>3. PICK q1 \in Request, q2 \in Request :
             /\ q1 = [NoRequest EXCEPT !.kind = "provision", !.org = o, !.owner = u]
             /\ q2 = [NoRequest EXCEPT !.kind = "failed", !.org = o]
             /\ q1.kind = "provision" /\ q1.owner = u /\ q2.kind = "failed"
      BY <3>2, RecordTypes DEF Request
    <3>4. CASE user[u] = "active" /\ role[SystemRole] = "active"
      BY <1>13, <3>3, <3>4 DEF BeginProvision, Begin
    <3>5. CASE ~(user[u] = "active" /\ role[SystemRole] = "active")
      BY <1>13, <3>3, <3>5 DEF BeginProvision, Begin
    <3> QED
      BY <3>4, <3>5
  <2>2. sound(q)
    BY <2>1
  <2> HIDE DEF sound
  <2> QED
    BY <1>0, <1>9, <1>10, <2>1, <2>2
<1>14. ASSUME NEW a \in Admins, NEW target \in OrgStatus, Transition(a, target)
       PROVE  LifecycleInv' /\ \A o \in Orgs : org'[o] # org[o] => org'[o] \in Successors(org[o])
  <2>1. PICK o \in Orgs : o = request[a].org
    BY <1>1 DEF Request
  <2>2. target \in request[a].may /\ request[a].kind = "transition" /\ org' = [org EXCEPT ![o] = target]
        /\ request' = [Bumped({o}) EXCEPT ![a] = NoRequest] /\ UNCHANGED <<tenantVars, onboarding>>
    BY <1>14, <2>1 DEF Transition
  <2>3. target \in Successors(org[o]) /\ (target = "ACTIVE" => Provisioned(o))
    BY <2>1, <2>2 DEF LifecycleInv
  <2>4. target = "SUSPENDED" => Provisioned(o)
    BY <1>0, <2>3 DEF LifecycleInv, Successors, OrgStatus
  <2>5. org'[o] = target /\ \A p \in Orgs : p # o => org'[p] = org[p]
    BY <1>0, <2>2
  <2>6. \A b \in Admins : request'[b].kind \in {"transition", "provision"}
                 => request'[b] = request[b] /\ request[b].org # o
    <3>1. clear([Bumped({o}) EXCEPT ![a] = NoRequest], o)
      BY <1>6a
    <3> QED
      BY <3>1, <2>2, Zenon
  <2>7. Provisioned(o) => Provisioned(o)'
    BY <2>2 DEF Provisioned, tenantVars
  <2> QED
    BY <1>7, <1>11, <2>2, <2>3, <2>4, <2>5, <2>6, <2>7
<1>15. ASSUME NEW a \in Admins, Provision(a) PROVE LifecycleInv' /\ org' = org
  <2>1. PICK o \in Orgs, w \in Users : o = request[a].org /\ w = request[a].owner
    BY <1>1 DEF Request
  <2>2. PICK m \in Membership : m = mem[<<w, o>>]
    BY <1>4
  <2>3. PICK n \in Membership : /\ n = [m EXCEPT !.status = "ACTIVE", !.isTenantOwner = TRUE, !.role = SystemRole]
                                /\ n.isTenantOwner /\ n.status = "ACTIVE"
    <3>1. SystemRole \in Roles
      BY RecordTypes
    <3> PICK n \in Membership : n = [m EXCEPT !.status = "ACTIVE", !.isTenantOwner = TRUE, !.role = SystemRole]
      BY <3>1, MembershipTypes
    <3>2. n.isTenantOwner /\ n.status = "ACTIVE"
      BY DEF Membership
    <3> QED
      BY <3>2
  <2>4. /\ mem' = [mem EXCEPT ![<<w, o>>] = n] /\ onboarding' = [onboarding EXCEPT ![o] = "READY"]
        /\ request' = [Bumped({o}) EXCEPT ![a] = NoRequest]
        /\ user' = user /\ org' = org /\ request[a].kind = "provision"
    BY <1>15, <2>1, <2>2, <2>3 DEF Provision
  <2>5. user[w] # "absent"
    BY <2>1, <2>4 DEF LifecycleInv
  <2>6. mem'[<<w, o>>] = n /\ \A u \in Users, p \in Orgs : <<u, p>> # <<w, o>> => mem'[<<u, p>>] = mem[<<u, p>>]
    BY <1>0, <2>4
  <2>7. owners /\ accounts
    <3>1. \A u \in Users, p \in Orgs : mem'[<<u, p>>] = mem[<<u, p>>] \/ (u = w /\ p = o /\ mem'[<<u, p>>] = n)
      BY <2>6
    <3> QED
      BY <1>4, <2>3, <2>4, <2>5, <3>1 DEF owners, accounts
  <2>8. Provisioned(o)'
    BY <1>0, <2>3, <2>4, <2>6 DEF Provisioned
  <2>9. \A b \in Admins : request'[b].kind \in {"transition", "provision"}
                 => request'[b] = request[b] /\ request[b].org # o
    <3>1. clear([Bumped({o}) EXCEPT ![a] = NoRequest], o)
      BY <1>6a
    <3> QED
      BY <3>1, <2>4, Zenon
  <2>10. \A p \in Orgs : p # o => org'[p] = org[p] /\ onboarding'[p] = onboarding[p]
    BY <1>0, <2>4
  <2> QED
    BY <1>11, <2>4, <2>7, <2>8, <2>9, <2>10
<1>16. ASSUME NEW a \in Admins, RequestFails(a) PROVE LifecycleInv' /\ org' = org
  <2>1. PICK q \in Request : q = Failed(request[a]) /\ q.kind \in {"none", "failed"}
    BY <1>1, FailedType
  <2>2. UNCHANGED <<tenantVars, org, onboarding>> /\ request' = [request EXCEPT ![a] = q] /\ sound(q)
    BY <1>16, <2>1 DEF RequestFails
  <2> HIDE DEF sound
  <2> QED
    BY <1>0, <1>9, <1>10, <2>2
<1>17. ASSUME NEW a \in Admins, RecordFailure(a) PROVE LifecycleInv' /\ org' = org
  <2>1. PICK o \in Orgs : o = request[a].org
    BY <1>1 DEF Request
  <2>2. owners /\ accounts /\ UNCHANGED <<tenantVars, org>>
    BY <1>7, <1>17 DEF RecordFailure
  <2>3. CASE /\ org[o] = "PENDING_SETUP" /\ onboarding' = [onboarding EXCEPT ![o] = "FAILED"]
             /\ request' = [Bumped({o}) EXCEPT ![a] = NoRequest]
    <3>1. \A b \in Admins : request'[b].kind \in {"transition", "provision"}
                 => request'[b] = request[b] /\ request[b].org # o
      <4>1. clear([Bumped({o}) EXCEPT ![a] = NoRequest], o)
        BY <1>6a
      <4> QED
        BY <4>1, <2>3, Zenon
    <3> QED
      BY <1>0, <1>11, <2>2, <2>3, <3>1
  <2>4. CASE UNCHANGED onboarding /\ request' = [request EXCEPT ![a] = NoRequest]
    <3>1. sound(NoRequest)
      BY RecordTypes
    <3> HIDE DEF sound
    <3> QED
      BY <1>0, <1>9, <1>10, <2>2, <2>4, <3>1
  <2> QED
    BY <1>17, <2>1, <2>3, <2>4 DEF RecordFailure
<1>18. CASE UNCHANGED vars
  BY <1>9, <1>10, <1>18 DEF vars, tenantVars
<1> HIDE DEF sound
<1> QED
  BY <1>3, <1>6, <1>8, <1>12, <1>13, <1>14, <1>15, <1>16, <1>17, <1>18 DEF Next, PlatformRequest
-----------------------------------------------------------------------------
(* RequestGuards, as Guard.                                                *)

\* The request r has still to pass a guard.
IsUnderWay(r) == r.at \notin {"idle", "tenant admitted", "platform admitted"}

\* What it has read is what the rows u are.
AsRead(r, u) ==
    /\ r.at \in {"membership", "organization", "role", "context"} => u.role = r.role
    /\ r.at \in {"organization", "role", "context"} => u.organization
    /\ r.at \in {"role", "context"} => u.roleActive[r.role]
    /\ r.at = "context" => u.granted[r.role] = r.context
    /\ r.at = "authority" => u.authority

\* By the rows u, it would pass those it has still to read.
Admissible(r, u) ==
    CASE r.at \in {"tenant", "account"} -> Guard!Grounds(u, r.policy)
      [] r.at \in {"membership", "organization", "role", "context"} ->
           /\ r.at = "membership" => u.organization
           /\ r.at \in {"membership", "organization"} => u.roleActive[r.role]
           /\ r.policy.actions # {} =>
                u.active /\ Guard!Allows(r.policy, IF r.at = "context" THEN r.context ELSE u.granted[r.role])
      [] r.at \in {"platform", "identified"} -> u.active /\ u.authority
      [] r.at = "authority" -> u.active

\* At one of the moments S, all the rows that decide let it in.
Together(r, S) ==
    IF r.at \in Guard!Platform \cup {"platform admitted"} THEN \E u \in S : u.active /\ u.authority
    ELSE \E u \in S : Guard!Grounds(u, r.policy)

\* What it has passed was good at one of the moments S.
Passed(r, S) ==
    /\ r.at \in {"tenant", "account"} => r.role = None
    /\ r.at \in {"account", "membership", "organization", "role", "context", "identified", "authority"} =>
         \E a \in S : a.active
    /\ r.at \in {"membership", "organization", "role", "context"} =>
         r.role # None /\ \E m \in S : m.role = r.role
    /\ r.at \in {"organization", "role", "context"} => \E o \in S : o.organization
    /\ r.at \in {"role", "context"} => \E x \in S : x.roleActive[r.role]
    /\ r.at = "context" => \E g \in S : g.granted[r.role] = r.context
    /\ r.at = "authority" => \E g \in S : g.authority

\* AdmittedOnGrounds, of the request r and the moments S.
LetIn(r, S) ==
    /\ r.at = "platform admitted" =>
         /\ r.mixed \/ \E u \in S : u.active /\ u.authority
         /\ \E a, u \in S : a.active /\ u.authority
    /\ r.at = "tenant admitted" =>
         /\ r.mixed \/ \E u \in S : Guard!Grounds(u, r.policy)
         /\ \E m, o, x, g, a \in S :
              /\ m.role # None /\ o.organization /\ x.roleActive[m.role] /\ a.active
              /\ r.policy.actions # {} => Guard!Allows(r.policy, g.granted[m.role])

\* A request that is not mixed and would be let in has grounds; one that is not
\* stale has read what the rows are; and what it has passed was good.
Standing(r, u, S) ==
    /\ IsUnderWay(r) =>
         /\ u \in S
         /\ ~r.stale => AsRead(r, u)
         /\ ~r.mixed /\ Admissible(r, u) => Together(r, S)
         /\ Passed(r, S)
    /\ LetIn(r, S)

\* The inductive invariant.
GuardsInv == Guard!GuardsTypeOK /\ Standing(arrival, person, seen)

\* RequestGuards: its initial state.
LEMMA GuardsStart == Guard!GuardsInit => GuardsInv
<1> SUFFICES ASSUME Guard!GuardsInit PROVE GuardsInv
  OBVIOUS
<1>1. arrival \in Guard!Request /\ arrival.at = "idle"
  BY DEF Guard!GuardsInit, Guard!Idle, Guard!Arriving, Guard!Open, Guard!Policy, Guard!Request
<1>2. Guard!GuardsTypeOK
  BY <1>1, OrganizationAssumption DEF Guard!GuardsInit, Guard!GuardsTypeOK, Guard!GuardsAssumption
<1> QED
  BY <1>1, <1>2 DEF GuardsInv, Standing, IsUnderWay, LetIn

\* RequestGuards: who has read the rows as they are, and would be let in by
\* them, has grounds now.
LEMMA GroundsNow ==
    ASSUME NEW r \in Guard!Request, IsUnderWay(r), NEW S, NEW u \in S,
           AsRead(r, u), Admissible(r, u), Passed(r, S)
    PROVE  Together(r, S)
<1>1. r.at \in {"tenant", "account", "membership", "organization", "role", "context", "platform",
                "identified", "authority"}
  BY DEF Guard!Request, IsUnderWay
<1>2. CASE r.at \in {"platform", "identified", "authority"}
  BY <1>2 DEF AsRead, Admissible, Together, Guard!Platform
<1>3. CASE r.at \in {"tenant", "account"}
  BY <1>3 DEF Admissible, Together, Guard!Platform
<1>4. CASE r.at \in {"membership", "organization", "role", "context"}
  <2>1. Guard!Grounds(u, r.policy)
    BY <1>4 DEF AsRead, Admissible, Passed, Guard!Grounds
  <2> QED
    BY <1>4, <2>1 DEF Together, Guard!Platform
<1> QED
  BY <1>1, <1>2, <1>3, <1>4

\* RequestGuards: a request goes on, and leaves the rows.
LEMMA GoesOn ==
    ASSUME GuardsInv, NEW r \in Guard!Request, arrival' = r, Standing(r, person, seen),
           UNCHANGED <<person, seen, turns>>
    PROVE  GuardsInv'
  BY DEF GuardsInv, Guard!GuardsTypeOK

\* RequestGuards: the guards, one read each.
LEMMA GuardsPass ==
    ASSUME GuardsInv,
           \/ Guard!ReadAccount \/ Guard!ReadMembership \/ Guard!ReadOrganization \/ Guard!ReadRole
           \/ Guard!ReadGrants \/ Guard!PermissionsGuard \/ Guard!ReadPlatformUser
           \/ Guard!ReadAuthority \/ Guard!ReadAuthorityUser
    PROVE  GuardsInv'
<1> DEFINE Places == {"account", "organization", "role", "tenant admitted", "identified", "authority",
                      "platform admitted"}
<1>0. person \in Guard!User /\ arrival \in Guard!Request
  BY DEF GuardsInv, Guard!GuardsTypeOK
<1> PICK r \in Guard!Request, u \in Guard!User : r = arrival /\ u = person
  BY <1>0
<1>1. Standing(r, u, seen)
  BY DEF GuardsInv
<1>2. ASSUME NEW from, NEW to \in Places, Guard!Passes(from, to)
      PROVE  /\ r.at = from
             /\ \E s \in Guard!Request :
                   /\ arrival' = s /\ s.at = to /\ s.policy = r.policy /\ s.role = r.role
                   /\ s.context = r.context /\ s.stale = r.stale /\ s.mixed = r.mixed
             /\ UNCHANGED <<person, seen, turns>>
  <2>1. [r EXCEPT !.at = to] \in Guard!Request
        /\ LET s == [r EXCEPT !.at = to]
           IN  /\ s.at = to /\ s.policy = r.policy /\ s.role = r.role
               /\ s.context = r.context /\ s.stale = r.stale /\ s.mixed = r.mixed
    BY DEF Guard!Request
  <2> QED
    BY <1>2, <2>1 DEF Guard!Passes
<1>3. CASE Guard!ReadAccount
  <2>1. Guard!Passes("tenant", "account") /\ u.active
    BY <1>3 DEF Guard!ReadAccount
  <2>2. PICK s \in Guard!Request :
          /\ arrival' = s /\ s.at = "account" /\ s.policy = r.policy /\ s.role = r.role
          /\ s.context = r.context /\ s.stale = r.stale /\ s.mixed = r.mixed
    BY <1>2, <2>1
  <2>3. r.at = "tenant" /\ UNCHANGED <<person, seen, turns>>
    BY <1>2, <2>1
  <2>4. Standing(s, u, seen)
    BY <1>1, <2>1, <2>2, <2>3 DEF Standing, IsUnderWay, AsRead, Admissible, Together, Passed, LetIn, Guard!Platform
  <2> QED
    BY <2>2, <2>3, <2>4, GoesOn
<1>4. CASE Guard!ReadOrganization
  <2>1. Guard!Passes("membership", "organization") /\ u.organization
    BY <1>4 DEF Guard!ReadOrganization
  <2>2. PICK s \in Guard!Request :
          /\ arrival' = s /\ s.at = "organization" /\ s.policy = r.policy /\ s.role = r.role
          /\ s.context = r.context /\ s.stale = r.stale /\ s.mixed = r.mixed
    BY <1>2, <2>1
  <2>3. r.at = "membership" /\ UNCHANGED <<person, seen, turns>>
    BY <1>2, <2>1
  <2>4. Standing(s, u, seen)
    BY <1>1, <2>1, <2>2, <2>3 DEF Standing, IsUnderWay, AsRead, Admissible, Together, Passed, LetIn, Guard!Platform
  <2> QED
    BY <2>2, <2>3, <2>4, GoesOn
<1>5. CASE Guard!ReadRole
  <2>1. Guard!Passes("organization", "role") /\ u.roleActive[r.role]
    BY <1>5 DEF Guard!ReadRole
  <2>2. PICK s \in Guard!Request :
          /\ arrival' = s /\ s.at = "role" /\ s.policy = r.policy /\ s.role = r.role
          /\ s.context = r.context /\ s.stale = r.stale /\ s.mixed = r.mixed
    BY <1>2, <2>1
  <2>3. r.at = "organization" /\ UNCHANGED <<person, seen, turns>>
    BY <1>2, <2>1
  <2>4. Standing(s, u, seen)
    BY <1>1, <2>1, <2>2, <2>3 DEF Standing, IsUnderWay, AsRead, Admissible, Together, Passed, LetIn, Guard!Platform
  <2> QED
    BY <2>2, <2>3, <2>4, GoesOn
<1>6. CASE Guard!ReadMembership
  <2>1. r.at = "account" /\ u.role # None /\ u.role \in MigratedRoles
        /\ arrival' = [r EXCEPT !.at = "membership", !.role = u.role] /\ UNCHANGED <<person, seen, turns>>
    BY <1>6 DEF Guard!ReadMembership, Guard!User
  <2>2. PICK s : s = [r EXCEPT !.at = "membership", !.role = u.role]
    OBVIOUS
  <2>3. s \in Guard!Request /\ s.at = "membership" /\ s.policy = r.policy /\ s.role = u.role
        /\ s.context = r.context /\ s.stale = r.stale /\ s.mixed = r.mixed
    BY <2>1, <2>2 DEF Guard!Request
  <2>4. Admissible(s, u) => Admissible(r, u)
    BY <2>1, <2>3 DEF Admissible, Guard!Grounds
  <2>5. Standing(s, u, seen)
    BY <1>1, <2>1, <2>3, <2>4 DEF Standing, IsUnderWay, AsRead, Together, Passed, LetIn, Guard!Platform
  <2> QED
    BY <2>1, <2>2, <2>3, <2>5, GoesOn
<1>7. CASE Guard!ReadGrants
  <2>0. r.at = "role" /\ r.role # None /\ r.role \in MigratedRoles
    BY <1>1, <1>7 DEF Guard!ReadGrants, Standing, IsUnderWay, Passed, Guard!Request
  <2>00. PICK c \in SUBSET Permissions : c = u.granted[r.role]
    BY <2>0 DEF Guard!User
  <2>1. arrival' = [r EXCEPT !.at = "context", !.context = c] /\ UNCHANGED <<person, seen, turns>>
    BY <1>7, <2>00 DEF Guard!ReadGrants
  <2>2. PICK s : s = [r EXCEPT !.at = "context", !.context = c]
    OBVIOUS
  <2>3. s \in Guard!Request /\ s.at = "context" /\ s.policy = r.policy /\ s.role = r.role
        /\ s.context = c /\ s.stale = r.stale /\ s.mixed = r.mixed
    BY <2>2 DEF Guard!Request
  <2>4. Admissible(s, u) => Admissible(r, u)
    BY <2>0, <2>00, <2>3 DEF Admissible
  <2>5. Standing(s, u, seen)
    BY <1>1, <2>0, <2>00, <2>3, <2>4 DEF Standing, IsUnderWay, AsRead, Together, Passed, LetIn, Guard!Platform
  <2> QED
    BY <2>1, <2>2, <2>3, <2>5, GoesOn
<1>8. CASE Guard!PermissionsGuard
  <2>1. Guard!Passes("context", "tenant admitted")
        /\ (r.policy.actions # {} => u.active /\ Guard!Allows(r.policy, r.context))
    BY <1>8 DEF Guard!PermissionsGuard, Guard!StillActive
  <2>2. PICK s \in Guard!Request :
          /\ arrival' = s /\ s.at = "tenant admitted" /\ s.policy = r.policy /\ s.role = r.role
          /\ s.context = r.context /\ s.stale = r.stale /\ s.mixed = r.mixed
    BY <1>2, <2>1
  <2>3. r.at = "context" /\ UNCHANGED <<person, seen, turns>>
    BY <1>2, <2>1
  <2>4. Passed(r, seen) /\ (~r.mixed /\ Admissible(r, u) => Together(r, seen))
    BY <1>1, <2>3 DEF Standing, IsUnderWay
  <2>5. r.mixed \/ \E x \in seen : Guard!Grounds(x, r.policy)
    BY <2>1, <2>3, <2>4 DEF Admissible, Together, Guard!Platform
  <2>6. PICK m, o, x, g, a \in seen :
          /\ m.role = r.role /\ m.role # None /\ o.organization /\ x.roleActive[r.role]
          /\ g.granted[r.role] = r.context /\ a.active
    BY <2>3, <2>4 DEF Passed
  <2>7. r.policy.actions # {} => Guard!Allows(r.policy, g.granted[m.role])
    BY <2>1, <2>6
  <2>8. Standing(s, u, seen)
    BY <2>2, <2>5, <2>6, <2>7 DEF Standing, IsUnderWay, LetIn
  <2> QED
    BY <2>2, <2>3, <2>8, GoesOn
<1>9. CASE Guard!ReadPlatformUser
  <2>1. Guard!Passes("platform", "identified") /\ u.active
    BY <1>9 DEF Guard!ReadPlatformUser
  <2>2. PICK s \in Guard!Request :
          /\ arrival' = s /\ s.at = "identified" /\ s.policy = r.policy /\ s.role = r.role
          /\ s.context = r.context /\ s.stale = r.stale /\ s.mixed = r.mixed
    BY <1>2, <2>1
  <2>3. r.at = "platform" /\ UNCHANGED <<person, seen, turns>>
    BY <1>2, <2>1
  <2>4. Standing(s, u, seen)
    BY <1>1, <2>1, <2>2, <2>3 DEF Standing, IsUnderWay, AsRead, Admissible, Together, Passed, LetIn, Guard!Platform
  <2> QED
    BY <2>2, <2>3, <2>4, GoesOn
<1>10. CASE Guard!ReadAuthority
  <2>1. Guard!Passes("identified", "authority") /\ u.authority
    BY <1>10 DEF Guard!ReadAuthority
  <2>2. PICK s \in Guard!Request :
          /\ arrival' = s /\ s.at = "authority" /\ s.policy = r.policy /\ s.role = r.role
          /\ s.context = r.context /\ s.stale = r.stale /\ s.mixed = r.mixed
    BY <1>2, <2>1
  <2>3. r.at = "identified" /\ UNCHANGED <<person, seen, turns>>
    BY <1>2, <2>1
  <2>4. Standing(s, u, seen)
    BY <1>1, <2>1, <2>2, <2>3 DEF Standing, IsUnderWay, AsRead, Admissible, Together, Passed, LetIn, Guard!Platform
  <2> QED
    BY <2>2, <2>3, <2>4, GoesOn
<1>11. CASE Guard!ReadAuthorityUser
  <2>1. Guard!Passes("authority", "platform admitted") /\ u.active
    BY <1>11 DEF Guard!ReadAuthorityUser
  <2>2. PICK s \in Guard!Request :
          /\ arrival' = s /\ s.at = "platform admitted" /\ s.policy = r.policy /\ s.role = r.role
          /\ s.context = r.context /\ s.stale = r.stale /\ s.mixed = r.mixed
    BY <1>2, <2>1
  <2>3. r.at = "authority" /\ UNCHANGED <<person, seen, turns>>
    BY <1>2, <2>1
  <2>4. Standing(s, u, seen)
    BY <1>1, <2>1, <2>2, <2>3 DEF Standing, IsUnderWay, Admissible, Together, Passed, LetIn, Guard!Platform
  <2> QED
    BY <2>2, <2>3, <2>4, GoesOn
<1> QED
  BY <1>3, <1>4, <1>5, <1>6, <1>7, <1>8, <1>9, <1>10, <1>11

\* The rows v are u but for one row, of this role if it is a role's.
ButFor(row, whose, u, v) ==
    /\ row # "account" => v.active = u.active
    /\ row # "authority" => v.authority = u.authority
    /\ row # "membership" => v.role = u.role
    /\ row # "organization" => v.organization = u.organization
    /\ \A x \in MigratedRoles :
         /\ row # "role" \/ x # whose => v.roleActive[x] = u.roleActive[x]
         /\ row # "granted" \/ x # whose => v.granted[x] = u.granted[x]

\* The row is one that the request would look at.
Concerns(row, whose, r) == row \in {"role", "granted"} /\ r.role # None => whose = r.role

\* RequestGuards: a change of a row that was not read leaves what was read as
\* it is, and one of a row that is not to be read leaves what is to be found.
LEMMA OtherRows ==
    ASSUME NEW r \in Guard!Request, r = arrival, IsUnderWay(r), NEW u \in Guard!User, NEW v \in Guard!User,
           NEW row, NEW whose, ButFor(row, whose, u, v),
           r.at \in {"tenant", "account"} => r.role = None,
           r.at \in {"membership", "organization", "role", "context"} => r.role # None
    PROVE  /\ ~(row \in Guard!HaveRead /\ Concerns(row, whose, r)) /\ AsRead(r, u) => AsRead(r, v)
           /\ ~(row \in Guard!ToRead /\ Concerns(row, whose, r)) /\ Admissible(r, v) => Admissible(r, u)
<1>1. r.at \in {"tenant", "account", "membership", "organization", "role", "context", "platform",
                "identified", "authority"}
      /\ r.role \in MigratedRoles \cup {None}
  BY DEF Guard!Request, IsUnderWay
<1>2. CASE r.at \in {"tenant", "account"}
  <2>1. Guard!ToRead = {"membership", "organization", "role", "granted", "account"}
    BY <1>2 DEF Guard!ToRead
  <2>2. AsRead(r, v)
    BY <1>2 DEF AsRead
  <2>3. ASSUME row \notin Guard!ToRead, Admissible(r, v) PROVE Admissible(r, u)
    <3>1. v.active = u.active /\ v.role = u.role /\ v.organization = u.organization
      BY <2>1, <2>3 DEF ButFor
    <3>2. v.role # None /\ v.role \in MigratedRoles
      BY <1>2, <2>3 DEF Admissible, Guard!Grounds, Guard!User
    <3>3. v.roleActive[v.role] = u.roleActive[v.role] /\ v.granted[v.role] = u.granted[v.role]
      BY <2>1, <2>3, <3>2 DEF ButFor
    <3> QED
      BY <1>2, <2>3, <3>1, <3>2, <3>3 DEF Admissible, Guard!Grounds
  <2>4. Concerns(row, whose, r)
    BY <1>2 DEF Concerns
  <2> QED
    BY <2>2, <2>3, <2>4
<1>3. CASE r.at \in {"membership", "organization", "role", "context"}
  <2>1. r.role \in MigratedRoles
    BY <1>1, <1>3
  <2>2. ~(row \in {"role", "granted"} /\ Concerns(row, whose, r)) =>
          v.roleActive[r.role] = u.roleActive[r.role] /\ v.granted[r.role] = u.granted[r.role]
    BY <1>3, <2>1 DEF ButFor, Concerns
  <2>3. /\ row # "role" => v.roleActive[r.role] = u.roleActive[r.role]
        /\ row # "granted" => v.granted[r.role] = u.granted[r.role]
    BY <2>1 DEF ButFor
  <2>4. /\ row # "account" => v.active = u.active
        /\ row # "membership" => v.role = u.role
        /\ row # "organization" => v.organization = u.organization
    BY DEF ButFor
  <2>5. row \notin {"role", "granted"} => Concerns(row, whose, r)
    BY DEF Concerns
  <2>6. CASE r.at = "membership"
    <3>1. Guard!ToRead = {"organization", "role", "granted", "account"}
          /\ Guard!HaveRead = {"membership"}
      BY <2>6 DEF Guard!ToRead, Guard!HaveRead, Guard!Platform
    <3> QED
      BY <2>2, <2>3, <2>4, <2>5, <2>6, <3>1 DEF AsRead, Admissible
  <2>7. CASE r.at = "organization"
    <3>1. Guard!ToRead = {"role", "granted", "account"}
          /\ Guard!HaveRead = {"membership", "organization"}
      BY <2>7 DEF Guard!ToRead, Guard!HaveRead, Guard!Platform
    <3> QED
      BY <2>2, <2>3, <2>4, <2>5, <2>7, <3>1 DEF AsRead, Admissible
  <2>8. CASE r.at = "role"
    <3>1. Guard!ToRead = {"granted", "account"}
          /\ Guard!HaveRead = {"membership", "organization", "role"}
      BY <2>8 DEF Guard!ToRead, Guard!HaveRead, Guard!Platform
    <3> QED
      BY <2>2, <2>3, <2>4, <2>5, <2>8, <3>1 DEF AsRead, Admissible
  <2>9. CASE r.at = "context"
    <3>1. Guard!ToRead = {"account"}
          /\ Guard!HaveRead = {"membership", "organization", "role", "granted"}
      BY <2>9 DEF Guard!ToRead, Guard!HaveRead, Guard!Platform
    <3> QED
      BY <2>2, <2>3, <2>4, <2>5, <2>9, <3>1 DEF AsRead, Admissible
  <2> QED
    BY <1>3, <2>6, <2>7, <2>8, <2>9
<1>4. CASE r.at \in {"platform", "identified", "authority"}
  <2>1. /\ row # "account" => v.active = u.active
        /\ row # "authority" => v.authority = u.authority
        /\ row \in {"account", "authority"} => Concerns(row, whose, r)
    BY DEF ButFor, Concerns
  <2>2. CASE r.at \in {"platform", "identified"}
    <3>1. Guard!ToRead = {"authority", "account"}
      BY <2>2 DEF Guard!ToRead
    <3> QED
      BY <2>1, <2>2, <3>1 DEF AsRead, Admissible
  <2>3. CASE r.at = "authority"
    <3>1. Guard!ToRead = {"account"} /\ Guard!HaveRead = {"authority"}
      BY <2>3 DEF Guard!ToRead, Guard!HaveRead, Guard!Platform
    <3> QED
      BY <2>1, <2>3, <3>1 DEF AsRead, Admissible
  <2> QED
    BY <1>4, <2>2, <2>3
<1> QED
  BY <1>1, <1>2, <1>3, <1>4

\* RequestGuards: more moments take no ground away.
LEMMA MoreMoments ==
    ASSUME NEW r, NEW S, NEW T, S \subseteq T
    PROVE  /\ Together(r, S) => Together(r, T)
           /\ Passed(r, S) => Passed(r, T)
           /\ LetIn(r, S) => LetIn(r, T)
<1>1. (Together(r, S) => Together(r, T)) /\ (Passed(r, S) => Passed(r, T))
  BY DEF Together, Passed
<1>2. LetIn(r, S) => LetIn(r, T)
  BY DEF LetIn
<1> QED
  BY <1>1, <1>2

\* RequestGuards: a row becomes another.
LEMMA RowBecomes ==
    ASSUME GuardsInv, turns' \in 0..MaxTurns,
           NEW row, NEW whose, NEW v \in Guard!User, ButFor(row, whose, person, v),
           Guard!Becomes(row, whose, v)
    PROVE  GuardsInv'
<1>0. person \in Guard!User /\ arrival \in Guard!Request /\ seen \subseteq Guard!User /\ person' = v
  BY DEF GuardsInv, Guard!GuardsTypeOK, Guard!Becomes
<1> PICK r \in Guard!Request, u \in Guard!User : r = arrival /\ u = person
  BY <1>0
<1>1. Standing(r, u, seen)
  BY DEF GuardsInv
<1>2. CASE ~IsUnderWay(r)
  <2>1. arrival' = r /\ seen' = seen
    BY <1>2 DEF Guard!Becomes, Guard!UnderWay, IsUnderWay
  <2>2. Standing(r, v, seen)
    BY <1>1, <1>2 DEF Standing
  <2> QED
    BY <1>0, <2>1, <2>2 DEF GuardsInv, Guard!GuardsTypeOK
<1>3. CASE IsUnderWay(r)
  <2> DEFINE touches == row \in Guard!HaveRead /\ Concerns(row, whose, r)
             misses == row \in Guard!ToRead /\ Concerns(row, whose, r)
  <2>1. PICK a, b \in BOOLEAN : a = (r.stale \/ touches) /\ b = (r.mixed \/ (r.stale /\ misses))
    OBVIOUS
  <2>2. seen' = seen \cup {v} /\ arrival' = [r EXCEPT !.stale = a, !.mixed = b]
    BY <1>3, <2>1 DEF Guard!Becomes, Guard!UnderWay, IsUnderWay, Concerns, Guard!Request
  <2>3. PICK s : s = [r EXCEPT !.stale = a, !.mixed = b]
    OBVIOUS
  <2>4. s \in Guard!Request /\ s.at = r.at /\ s.policy = r.policy /\ s.role = r.role
        /\ s.context = r.context /\ s.stale = a /\ s.mixed = b
    BY <2>3 DEF Guard!Request
  <2>5. /\ u \in seen /\ (~r.stale => AsRead(r, u)) /\ Passed(r, seen)
        /\ (~r.mixed /\ Admissible(r, u) => Together(r, seen))
    BY <1>1, <1>3 DEF Standing
  <2>6. /\ r.at \in {"tenant", "account"} => r.role = None
        /\ r.at \in {"membership", "organization", "role", "context"} => r.role # None
    BY <2>5 DEF Passed
  <2>7. /\ ~touches /\ AsRead(r, u) => AsRead(r, v)
        /\ ~misses /\ Admissible(r, v) => Admissible(r, u)
    BY <1>3, <2>6, OtherRows
  <2>8. Passed(r, seen') /\ (Together(r, seen) => Together(r, seen')) /\ v \in seen'
    BY <2>2, <2>5, MoreMoments
  <2> HIDE DEF touches, misses
  <2>9. ~a => AsRead(r, v)
    BY <2>1, <2>5, <2>7
  <2>10. ASSUME ~b, Admissible(r, v) PROVE Together(r, seen')
    <3>1. CASE misses
      <4>1. ~r.stale /\ ~touches
        <5>1. ~r.stale
          BY <2>1, <2>10, <3>1
        <5>2. ~touches
          BY <3>1 DEF touches, misses, Guard!HaveRead
        <5> QED
          BY <5>1, <5>2
      <4>2. AsRead(r, v)
        BY <2>5, <2>7, <4>1
      <4> QED
        BY <1>3, <2>8, <2>10, <4>2, GroundsNow
    <3>2. CASE ~misses
      BY <2>1, <2>5, <2>7, <2>8, <2>10, <3>2
    <3> QED
      BY <3>1, <3>2
  <2>11. Standing(s, v, seen')
    <3>1. AsRead(s, v) <=> AsRead(r, v)
      BY <2>4 DEF AsRead
    <3>2. Admissible(s, v) <=> Admissible(r, v)
      BY <2>4 DEF Admissible
    <3>3. (Together(s, seen') <=> Together(r, seen')) /\ (Passed(s, seen') <=> Passed(r, seen'))
      BY <2>4 DEF Together, Passed
    <3>4. LetIn(s, seen')
      BY <1>3, <2>4 DEF LetIn, IsUnderWay
    <3> QED
      BY <2>4, <2>8, <2>9, <2>10, <3>1, <3>2, <3>3, <3>4 DEF Standing
  <2> QED
    BY <1>0, <2>2, <2>3, <2>4, <2>11 DEF GuardsInv, Guard!GuardsTypeOK
<1> QED
  BY <1>2, <1>3

\* RequestGuards: each change of a row.
LEMMA GuardsChange == GuardsInv /\ Guard!Change => GuardsInv'
<1> SUFFICES ASSUME GuardsInv, Guard!Change PROVE GuardsInv'
  OBVIOUS
<1>0. person \in Guard!User /\ turns' \in 0..MaxTurns
  <2>1. person \in Guard!User /\ turns \in 0..MaxTurns /\ MaxTurns \in Nat
    BY OrganizationAssumption DEF GuardsInv, Guard!GuardsTypeOK, Guard!GuardsAssumption
  <2>2. turns < MaxTurns /\ turns' = turns + 1
    BY Zenon DEF Guard!Change
  <2> QED
    BY <2>1, <2>2
<1> PICK u \in Guard!User : u = person
  BY <1>0
<1>1. ASSUME NEW active \in BOOLEAN, NEW email \in BOOLEAN,
             Guard!Becomes("account", None, [u EXCEPT !.active = active, !.email = email])
      PROVE  GuardsInv'
  <2>1. PICK v : v = [u EXCEPT !.active = active, !.email = email]
    OBVIOUS
  <2>2. v \in Guard!User /\ ButFor("account", None, u, v)
    BY <2>1 DEF Guard!User, ButFor
  <2> QED
    BY <1>0, <1>1, <2>1, <2>2, RowBecomes
<1>2. ASSUME Guard!Becomes("authority", None, [u EXCEPT !.authority = ~@]) PROVE GuardsInv'
  <2>1. PICK v : v = [u EXCEPT !.authority = ~@]
    OBVIOUS
  <2>2. v \in Guard!User /\ ButFor("authority", None, u, v)
    BY <2>1 DEF Guard!User, ButFor
  <2> QED
    BY <1>0, <1>2, <2>1, <2>2, RowBecomes
<1>3. ASSUME NEW whose \in MigratedRoles \cup {None}, Guard!Becomes("membership", None, [u EXCEPT !.role = whose])
      PROVE  GuardsInv'
  <2>1. PICK v : v = [u EXCEPT !.role = whose]
    OBVIOUS
  <2>2. v \in Guard!User /\ ButFor("membership", None, u, v)
    BY <2>1 DEF Guard!User, ButFor
  <2> QED
    BY <1>0, <1>3, <2>1, <2>2, RowBecomes
<1>4. ASSUME Guard!Becomes("organization", None, [u EXCEPT !.organization = ~@]) PROVE GuardsInv'
  <2>1. PICK v : v = [u EXCEPT !.organization = ~@]
    OBVIOUS
  <2>2. v \in Guard!User /\ ButFor("organization", None, u, v)
    BY <2>1 DEF Guard!User, ButFor
  <2> QED
    BY <1>0, <1>4, <2>1, <2>2, RowBecomes
<1>5. ASSUME NEW whose \in MigratedRoles,
             Guard!Becomes("role", whose, [u EXCEPT !.roleActive = [@ EXCEPT ![whose] = ~@]])
      PROVE  GuardsInv'
  <2>1. PICK v : v = [u EXCEPT !.roleActive = [@ EXCEPT ![whose] = ~@]]
    OBVIOUS
  <2>2. v \in Guard!User /\ ButFor("role", whose, u, v)
    BY <2>1 DEF Guard!User, ButFor
  <2> QED
    BY <1>0, <1>5, <2>1, <2>2, RowBecomes
<1>6. ASSUME NEW whose \in MigratedRoles, NEW given \in SUBSET Permissions,
             Guard!Becomes("granted", whose, [u EXCEPT !.granted = [@ EXCEPT ![whose] = given]])
      PROVE  GuardsInv'
  <2>1. PICK v : v = [u EXCEPT !.granted = [@ EXCEPT ![whose] = given]]
    OBVIOUS
  <2>2. v \in Guard!User /\ ButFor("granted", whose, u, v)
    BY <2>1 DEF Guard!User, ButFor
  <2> QED
    BY <1>0, <1>6, <2>1, <2>2, RowBecomes
<1> QED
  BY <1>1, <1>2, <1>3, <1>4, <1>5, <1>6 DEF Guard!Change

\* RequestGuards: each step of a request, and each change between two of them.
LEMMA GuardsStep == GuardsInv /\ [Guard!GuardsNext]_guardVars => GuardsInv'
<1> SUFFICES ASSUME GuardsInv, [Guard!GuardsNext]_guardVars PROVE GuardsInv'
  OBVIOUS
<1>0. person \in Guard!User /\ seen \subseteq Guard!User /\ turns \in 0..MaxTurns
  BY DEF GuardsInv, Guard!GuardsTypeOK
<1>1. ASSUME NEW policy \in Guard!Policy, NEW door \in {"tenant", "platform"}, Guard!Arrive(policy, door)
      PROVE  GuardsInv'
  <2>1. PICK s : s = Guard!Arriving(door, policy)
    OBVIOUS
  <2>2. s \in Guard!Request /\ s.at = door /\ s.policy = policy /\ s.role = None /\ ~s.stale /\ ~s.mixed
    BY <2>1 DEF Guard!Arriving, Guard!Request
  <2>3. arrival' = s /\ seen' = {person} /\ person' = person /\ turns' = turns
    BY <1>1, <2>1 DEF Guard!Arrive
  <2>4. Standing(s, person, {person})
    BY <2>2 DEF Standing, IsUnderWay, AsRead, Admissible, Together, Passed, LetIn, Guard!Platform
  <2> QED
    BY <1>0, <2>2, <2>3, <2>4 DEF GuardsInv, Guard!GuardsTypeOK
<1>2. CASE Guard!Leave
  <2>1. PICK s : s = Guard!Idle
    OBVIOUS
  <2>2. s \in Guard!Request /\ s.at = "idle"
    BY <2>1 DEF Guard!Idle, Guard!Arriving, Guard!Open, Guard!Policy, Guard!Request
  <2>3. arrival' = s /\ seen' = {} /\ person' = person /\ turns' = turns
    BY <1>2, <2>1 DEF Guard!Leave
  <2>4. Standing(s, person, {})
    BY <2>2 DEF Standing, IsUnderWay, LetIn
  <2> QED
    BY <1>0, <2>2, <2>3, <2>4 DEF GuardsInv, Guard!GuardsTypeOK
<1>3. CASE Guard!Change
  BY <1>3, GuardsChange
<1>4. CASE UNCHANGED guardVars
  BY <1>4 DEF guardVars, GuardsInv, Guard!GuardsTypeOK
<1>5. Guard!Open \in Guard!Policy
  BY DEF Guard!Open, Guard!Policy
<1> QED
  BY <1>1, <1>2, <1>3, <1>4, <1>5, GuardsPass DEF Guard!GuardsNext

-----------------------------------------------------------------------------
(* OrganizationConfiguration, as Configuration.                            *)

\* What a verification that nobody has written over knows of its domain.
Expects(r) ==
    /\ domain[r.domain] \in Configuration!DomainRow
    /\ r.fresh =>
         \/ r.step # "auditing" /\ domain[r.domain].status \in {"PENDING", "FAILED"}
         \/ r.step \in {"auditing", "failing"} /\ domain[r.domain].verifiedAt

\* The inductive invariant: the zones agree, and verifications know their rows.
ConfigurationInv ==
    /\ Configuration!ConfigurationTypeOK /\ Configuration!ZonesAgree
    /\ \A c \in Admins : configuring[c] # None /\ configuring[c].step # "creating" => Expects(configuring[c])

\* OrganizationConfiguration: its initial state.
LEMMA ConfigurationStart == Configuration!ConfigurationInit => ConfigurationInv
<1> SUFFICES ASSUME Configuration!ConfigurationInit PROVE ConfigurationInv
  OBVIOUS
<1>1. /\ zone \in Zones /\ settings \in {None, zone} /\ configurations = 0 /\ apart = FALSE
      /\ \A c \in Admins : configuring[c] = None
  BY DEF Configuration!ConfigurationInit
<1>2. Configuration!ConfigurationTypeOK
  <2>1. domain \in [Hosts -> Configuration!DomainRow \cup {None}]
        /\ configuring \in [Admins -> Configuration!VerifyCall \cup Configuration!BackfillCall \cup {None}]
    BY DEF Configuration!ConfigurationInit
  <2>2. configurations \in 0..3
    BY <1>1
  <2>3. apart \in BOOLEAN /\ settings \in Zones \cup {None}
    BY <1>1, Zenon
  <2> QED
    BY <1>1, <2>1, <2>2, <2>3, Zenon DEF Configuration!ConfigurationTypeOK
<1>3. Configuration!ZonesAgree
  BY <1>1 DEF Configuration!ZonesAgree
<1> QED
  BY <1>1, <1>2, <1>3 DEF ConfigurationInv

\* OrganizationConfiguration: the time zones.
LEMMA ZonesStep ==
    ASSUME ConfigurationInv, zone' \in Zones, settings' \in Zones \cup {None}, apart' \in BOOLEAN,
           configurations' \in 0..3, Configuration!ZonesAgree',
           domain' = domain, configuring' \in [Admins -> Configuration!VerifyCall
                                  \cup Configuration!BackfillCall \cup {None}],
           \A c \in Admins : \/ configuring'[c] = configuring[c] \/ configuring'[c] = None
                             \/ configuring'[c].step = "creating"
                             \/ Expects(configuring'[c])
    PROVE  ConfigurationInv'
<1>1. Configuration!ConfigurationTypeOK'
  BY DEF ConfigurationInv, Configuration!ConfigurationTypeOK
<1>2. ASSUME NEW c \in Admins, configuring'[c] # None, configuring'[c].step # "creating"
      PROVE  Expects(configuring[c])'
  <2>1. Expects(configuring'[c])
    BY <1>2 DEF ConfigurationInv
  <2> QED
    BY <2>1 DEF Expects
<1> QED
  BY <1>1, <1>2 DEF ConfigurationInv

\* OrganizationConfiguration: a write to a domain.
LEMMA WriteStep ==
    ASSUME ConfigurationInv, NEW w, NEW d \in Hosts, NEW row \in Configuration!DomainRow, NEW next,
           next \in Configuration!VerifyCall \cup {None},
           Configuration!WriteDomain(w, d, row, next), configurations' \in 0..3,
           UNCHANGED <<zone, settings, apart>>,
           next # None => /\ next.domain = d /\ next.step = "auditing" /\ row.verifiedAt
    PROVE  ConfigurationInv'
<1>0. /\ domain \in [Hosts -> Configuration!DomainRow \cup {None}]
      /\ configuring \in [Admins -> Configuration!VerifyCall \cup Configuration!BackfillCall \cup {None}]
  BY DEF ConfigurationInv, Configuration!ConfigurationTypeOK
<1>1. domain' = [domain EXCEPT ![d] = row]
  BY DEF Configuration!WriteDomain
<1>2. domain'[d] = row /\ \A e \in Hosts : e # d => domain'[e] = domain[e]
  BY <1>0, <1>1
<1>3. ASSUME NEW c \in Admins
      PROVE  /\ configuring'[c] \in Configuration!VerifyCall \cup Configuration!BackfillCall \cup {None}
             /\ configuring'[c] # None /\ configuring'[c].step # "creating" => Expects(configuring[c])'
  <2>1. PICK r : r = configuring[c]
    OBVIOUS
  <2>2. CASE c = w
    <3>1. configuring'[c] = next
      BY <2>2 DEF Configuration!WriteDomain
    <3> QED
      BY <1>2, <3>1 DEF Expects
  <2>3. CASE c # w /\ r # None /\ r.step # "creating" /\ r.domain = d
    <3>1. r \in Configuration!VerifyCall
      BY <1>0, <2>1, <2>3 DEF Configuration!BackfillCall
    <3>2. PICK s : s = [r EXCEPT !.fresh = FALSE] /\ configuring'[c] = s
      BY <2>1, <2>3 DEF Configuration!WriteDomain
    <3>3. s \in Configuration!VerifyCall /\ s.domain = d /\ ~s.fresh
      BY <2>3, <3>1, <3>2 DEF Configuration!VerifyCall
    <3> QED
      BY <1>2, <3>2, <3>3 DEF Expects
  <2>4. CASE c # w /\ ~(r # None /\ r.step # "creating" /\ r.domain = d)
    <3>1. configuring'[c] = r
      BY <2>1, <2>4 DEF Configuration!WriteDomain
    <3>2. ASSUME r # None, r.step # "creating" PROVE Expects(configuring[c])'
      <4>1. r \in Configuration!VerifyCall /\ r.domain # d /\ Expects(r)
        BY <1>0, <2>1, <2>4, <3>2 DEF Configuration!BackfillCall, ConfigurationInv
      <4>2. r.domain \in Hosts /\ domain'[r.domain] = domain[r.domain]
        BY <1>2, <4>1 DEF Configuration!VerifyCall
      <4> QED
        BY <3>1, <4>1, <4>2 DEF Expects
    <3> QED
      BY <1>0, <2>1, <3>1, <3>2
  <2> QED
    BY <2>1, <2>2, <2>3, <2>4
<1>4. configuring' \in [Admins -> Configuration!VerifyCall \cup Configuration!BackfillCall \cup {None}]
  BY <1>3 DEF Configuration!WriteDomain
<1> QED
  BY <1>0, <1>1, <1>3, <1>4 DEF ConfigurationInv, Configuration!ConfigurationTypeOK, Configuration!ZonesAgree

\* OrganizationConfiguration: each of its actions.
LEMMA ConfigurationStep == ConfigurationInv /\ [Configuration!ConfigurationNext]_configurationVars => ConfigurationInv'
<1> SUFFICES ASSUME ConfigurationInv, [Configuration!ConfigurationNext]_configurationVars PROVE ConfigurationInv'
  OBVIOUS
<1> DEFINE Calling == Configuration!VerifyCall \cup Configuration!BackfillCall \cup {None}
<1>0. /\ domain \in [Hosts -> Configuration!DomainRow \cup {None}]
      /\ zone \in Zones /\ settings \in Zones \cup {None} /\ apart \in BOOLEAN /\ configurations \in 0..3
      /\ configuring \in [Admins -> Calling] /\ Configuration!ZonesAgree
  BY DEF ConfigurationInv, Configuration!ConfigurationTypeOK
<1>1. ASSUME NEW z \in Zones \cup {None}, Configuration!UpdateSettings(z) PROVE ConfigurationInv'
  <2>1. Configuration!DefaultZone \in Zones
    BY OrganizationAssumption DEF Configuration!DefaultZone, Configuration!ConfigurationAssumption
  <2>2. zone' \in Zones /\ settings' \in Zones \cup {None} /\ apart' \in BOOLEAN /\ configurations' \in 0..3
        /\ Configuration!ZonesAgree'
    <3>1. CASE z # None
      BY <1>0, <1>1, <3>1 DEF Configuration!UpdateSettings, Configuration!ZonesAgree
    <3>2. CASE z = None /\ settings = None
      <4>1. apart' = TRUE /\ settings' = Configuration!DefaultZone /\ zone' = zone /\ configurations' = configurations + 1
            /\ configurations < 3
        BY <1>1, <3>2, Zenon DEF Configuration!UpdateSettings
      <4> QED
        BY <1>0, <2>1, <4>1 DEF Configuration!ZonesAgree
    <3>3. CASE z = None /\ settings # None
      BY <1>0, <1>1, <3>3 DEF Configuration!UpdateSettings, Configuration!ZonesAgree
    <3> QED
      BY <3>1, <3>2, <3>3
  <2> QED
    BY <1>0, <1>1, <2>2, ZonesStep DEF Configuration!UpdateSettings
<1>2. ASSUME NEW z \in Zones, Configuration!UpdateOrganization(z) PROVE ConfigurationInv'
  <2>2. zone' \in Zones /\ settings' \in Zones \cup {None} /\ apart' \in BOOLEAN /\ configurations' \in 0..3
        /\ Configuration!ZonesAgree'
    <3>1. CASE settings = None
      BY <1>0, <1>2, <3>1 DEF Configuration!UpdateOrganization, Configuration!ZonesAgree
    <3>2. CASE settings # None
      <4>1. apart' = TRUE /\ settings' = settings /\ zone' = z /\ configurations' = configurations + 1
            /\ configurations < 3
        BY <1>2, <3>2, Zenon DEF Configuration!UpdateOrganization
      <4> QED
        BY <1>0, <4>1 DEF Configuration!ZonesAgree
    <3> QED
      BY <3>1, <3>2
  <2> QED
    BY <1>0, <1>2, <2>2, ZonesStep DEF Configuration!UpdateOrganization
<1>3. ASSUME NEW d \in Hosts, Configuration!CreateDomain(d) PROVE ConfigurationInv'
  <2>1. PICK row \in Configuration!DomainRow : domain' = [domain EXCEPT ![d] = row]
    BY <1>3 DEF Configuration!CreateDomain, Configuration!DomainRow, Configuration!Statuses
  <2>2. ASSUME NEW c \in Admins, configuring[c] # None, configuring[c].step # "creating"
        PROVE  Expects(configuring[c])'
    <3>1. PICK r : r = configuring[c] /\ configuring'[c] = r
      BY <1>3 DEF Configuration!CreateDomain
    <3>2. r \in Configuration!VerifyCall /\ Expects(r)
      BY <1>0, <2>2, <3>1 DEF Configuration!BackfillCall, ConfigurationInv
    <3>3. r.domain \in Hosts
      BY <3>2 DEF Configuration!VerifyCall
    <3>4. CASE r.domain # d
      BY <1>0, <2>1, <3>1, <3>2, <3>3, <3>4 DEF Expects
    <3>5. CASE r.domain = d
      BY <1>3, <3>2, <3>5, OrganizationAssumption
         DEF Configuration!CreateDomain, Expects, Configuration!ConfigurationAssumption
    <3> QED
      BY <3>4, <3>5
  <2> QED
    BY <1>0, <1>3, <2>1, <2>2
       DEF Configuration!CreateDomain, ConfigurationInv, Configuration!ConfigurationTypeOK, Configuration!ZonesAgree
<1>4. ASSUME NEW d \in Hosts, NEW status \in Configuration!Statuses, Configuration!UpdateDomain(d, status)
      PROVE  ConfigurationInv'
  <2>1. PICK row \in Configuration!DomainRow : Configuration!WriteDomain(None, d, row, None)
    <3>1. PICK old \in Configuration!DomainRow : old = domain[d]
      BY <1>0, <1>4 DEF Configuration!UpdateDomain
    <3>2. [status |-> status, verifiedAt |-> status # "PENDING" /\ old.verifiedAt] \in Configuration!DomainRow
      BY DEF Configuration!DomainRow
    <3> QED
      BY <1>4, <3>1, <3>2 DEF Configuration!UpdateDomain
  <2>2. configurations' \in 0..3 /\ UNCHANGED <<zone, settings, apart>>
    BY <1>0, <1>4 DEF Configuration!UpdateDomain
  <2> QED
    BY <2>1, <2>2, WriteStep
<1>5. ASSUME NEW c \in Admins, NEW r \in Calling, configuring' = [configuring EXCEPT ![c] = r],
             r = None \/ r.step = "creating" \/ Expects(r), domain' = domain,
             zone' = zone, settings' = settings, apart' = apart, configurations' \in 0..3
      PROVE  ConfigurationInv'
  <2>1. Configuration!ZonesAgree'
    BY <1>0, <1>5 DEF Configuration!ZonesAgree
  <2> QED
    BY <1>0, <1>5, <2>1, ZonesStep
<1>6. ASSUME NEW c \in Admins, Configuration!BackfillBegin(c) PROVE ConfigurationInv'
  <2> PICK r : r = [step |-> "creating", zone |-> zone]
    OBVIOUS
  <2>1. r \in Configuration!BackfillCall /\ r.step = "creating"
    BY <1>0 DEF Configuration!BackfillCall
  <2>2. configurations' \in 0..3
    BY <1>0, <1>6 DEF Configuration!BackfillBegin
  <2> QED
    BY <1>5, <1>6, <2>1, <2>2 DEF Configuration!BackfillBegin
<1>7. ASSUME NEW c \in Admins, Configuration!BackfillEnd(c) PROVE ConfigurationInv'
  <2>1. PICK r \in Configuration!BackfillCall : r = configuring[c]
    BY <1>0, <1>7 DEF Configuration!BackfillEnd, Configuration!At, Configuration!VerifyCall
  <2>2. r.zone \in Zones
    BY DEF Configuration!BackfillCall
  <2>3. settings' \in Zones \cup {None} /\ apart' \in BOOLEAN /\ Configuration!ZonesAgree'
    <3>1. CASE settings = None
      BY <1>0, <1>7, <2>1, <2>2, <3>1 DEF Configuration!BackfillEnd, Configuration!ZonesAgree
    <3>2. CASE settings # None
      BY <1>0, <1>7, <2>1, <2>2, <3>2 DEF Configuration!BackfillEnd, Configuration!ZonesAgree
    <3> QED
      BY <3>1, <3>2
  <2> QED
    BY <1>0, <1>7, <2>3, ZonesStep DEF Configuration!BackfillEnd, Configuration!Return
<1>8. ASSUME NEW c \in Admins, NEW d \in Hosts, Configuration!VerifyBegin(c, d) PROVE ConfigurationInv'
  <2> PICK r : r = [step |-> "looking", domain |-> d, fresh |-> TRUE]
    OBVIOUS
  <2>1. r \in Configuration!VerifyCall /\ r.step = "looking" /\ r.domain = d
    BY DEF Configuration!VerifyCall
  <2>2. domain[d] \in Configuration!DomainRow /\ domain[d].status \in {"PENDING", "FAILED"}
    BY <1>0, <1>8 DEF Configuration!VerifyBegin, Configuration!MayVerify
  <2>3. Expects(r)
    BY <2>1, <2>2 DEF Expects
  <2> QED
    BY <1>0, <1>5, <1>8, <2>1, <2>3 DEF Configuration!VerifyBegin
<1>9. ASSUME NEW c \in Admins, NEW from \in {"looking", "marking", "auditing", "failing"}, Configuration!At(c, from)
      PROVE  configuring[c] \in Configuration!VerifyCall /\ Expects(configuring[c]) /\ configuring[c].domain \in Hosts
  <2>1. configuring[c] \in Configuration!VerifyCall /\ configuring[c] # None /\ configuring[c].step # "creating"
    BY <1>0, <1>9 DEF Configuration!At, Configuration!BackfillCall
  <2> QED
    BY <2>1 DEF ConfigurationInv, Configuration!VerifyCall
<1>10. ASSUME NEW c \in Admins, NEW to, UNCHANGED <<zone, settings, domain, configurations, apart>>,
              \/ to \in {"marking", "failing"} /\ Configuration!At(c, "looking")
              \/ to = "failing" /\ Configuration!At(c, "auditing"),
              Configuration!Goto(c, to)
       PROVE  ConfigurationInv'
  <2>1. PICK r \in Configuration!VerifyCall : r = configuring[c] /\ Expects(r) /\ r.domain \in Hosts
    BY <1>9, <1>10
  <2> PICK s : s = [r EXCEPT !.step = to]
    OBVIOUS
  <2>2. s \in Configuration!VerifyCall /\ s.domain = r.domain /\ s.fresh = r.fresh /\ s.step = to
    BY <1>10 DEF Configuration!VerifyCall
  <2>3. Expects(s)
    BY <1>10, <2>1, <2>2 DEF Expects, Configuration!At
  <2>4. configuring' = [configuring EXCEPT ![c] = s]
    BY <1>0, <1>10, <2>1, <2>2 DEF Configuration!Goto
  <2> QED
    BY <1>0, <1>5, <1>10, <2>2, <2>3, <2>4
<1>11. ASSUME NEW c \in Admins, Configuration!LookUp(c) PROVE ConfigurationInv'
  BY <1>10, <1>11 DEF Configuration!LookUp
<1>12. ASSUME NEW c \in Admins, Configuration!MarkVerified(c) PROVE ConfigurationInv'
  <2>1. PICK r \in Configuration!VerifyCall : r = configuring[c] /\ r.domain \in Hosts
    BY <1>9, <1>12 DEF Configuration!MarkVerified
  <2> PICK s, row : s = [r EXCEPT !.step = "auditing"] /\ row = [status |-> "VERIFIED", verifiedAt |-> TRUE]
    OBVIOUS
  <2>2. s \in Configuration!VerifyCall /\ s.domain = r.domain /\ s.step = "auditing"
    BY DEF Configuration!VerifyCall
  <2>3. row \in Configuration!DomainRow /\ row.verifiedAt
    BY DEF Configuration!DomainRow, Configuration!Statuses
  <2>4. Configuration!WriteDomain(c, r.domain, row, s) /\ UNCHANGED <<zone, settings, configurations, apart>>
    BY <1>12, <2>1, <2>2, <2>3 DEF Configuration!MarkVerified
  <2> QED
    BY <1>0, <2>1, <2>2, <2>3, <2>4, WriteStep
<1>13. ASSUME NEW c \in Admins, Configuration!AuditVerified(c) PROVE ConfigurationInv'
  <2>1. CASE Configuration!Return(c)
    BY <1>0, <1>5, <1>13, <2>1 DEF Configuration!AuditVerified, Configuration!Return
  <2>2. CASE Configuration!Goto(c, "failing")
    BY <1>10, <1>13, <2>2 DEF Configuration!AuditVerified
  <2> QED
    BY <1>13, <2>1, <2>2 DEF Configuration!AuditVerified
<1>14. ASSUME NEW c \in Admins, Configuration!MarkFailed(c) PROVE ConfigurationInv'
  <2>1. PICK d \in Hosts : d = configuring[c].domain /\ domain[d] \in Configuration!DomainRow
    BY <1>9, <1>14 DEF Configuration!MarkFailed, Expects
  <2>2. PICK row \in Configuration!DomainRow : row = [domain[d] EXCEPT !.status = "FAILED"]
    <3>1. PICK old \in Configuration!DomainRow : old = domain[d]
      BY <2>1
    <3>2. [old EXCEPT !.status = "FAILED"] \in Configuration!DomainRow
      BY DEF Configuration!DomainRow, Configuration!Statuses
    <3> QED
      BY <3>1, <3>2
  <2>3. Configuration!WriteDomain(c, d, row, None) /\ UNCHANGED <<zone, settings, configurations, apart>>
    BY <1>14, <2>1, <2>2 DEF Configuration!MarkFailed
  <2> QED
    BY <1>0, <2>3, WriteStep
<1>15. ASSUME NEW c \in Admins, Configuration!ConfigurationDies(c) PROVE ConfigurationInv'
  BY <1>0, <1>5, <1>15 DEF Configuration!ConfigurationDies, Configuration!Return
<1>16. CASE UNCHANGED configurationVars
  <2>1. Configuration!ZonesAgree'
    BY <1>0, <1>16 DEF configurationVars, Configuration!ZonesAgree
  <2> QED
    BY <1>0, <1>16, <2>1, ZonesStep DEF configurationVars
<1> QED
  BY <1>1, <1>2, <1>3, <1>4, <1>6, <1>7, <1>8, <1>11, <1>12, <1>13, <1>14, <1>15, <1>16
     DEF Configuration!ConfigurationNext

\* OrganizationConfiguration: a disabled or a verified domain falls to a stale
\* verification, or to one that could not audit its success.
LEMMA SettledStep ==
    ASSUME ConfigurationInv, [Configuration!ConfigurationNext]_configurationVars, NEW d \in Hosts,
           domain[d] # None, domain[d].status \in {"DISABLED", "VERIFIED"},
           domain'[d].status # domain[d].status, configurations' = configurations
    PROVE  \E c \in Admins :
              /\ configuring[c] # None /\ configuring'[c] # configuring[c]
              /\ configuring[c].step \in {"marking", "failing"} /\ configuring[c].domain = d
              /\ ~configuring[c].fresh \/ (configuring[c].step = "failing" /\ domain[d].verifiedAt)
<1>0. /\ domain \in [Hosts -> Configuration!DomainRow \cup {None}] /\ configurations \in 0..3
      /\ configuring \in [Admins -> Configuration!VerifyCall \cup Configuration!BackfillCall \cup {None}]
  BY DEF ConfigurationInv, Configuration!ConfigurationTypeOK
<1>1. ASSUME NEW c \in Admins, NEW step \in {"marking", "failing"}, Configuration!At(c, step),
             NEW e, NEW row, NEW next, e = configuring[c].domain,
             Configuration!WriteDomain(c, e, row, next), next = None \/ next.step # step
      PROVE  /\ configuring[c] # None /\ configuring'[c] # configuring[c]
             /\ configuring[c].step \in {"marking", "failing"} /\ configuring[c].domain = d
             /\ ~configuring[c].fresh \/ (configuring[c].step = "failing" /\ domain[d].verifiedAt)
  <2>1. e = d
    BY <1>0, <1>1 DEF Configuration!WriteDomain
  <2>2. Expects(configuring[c])
    BY <1>1 DEF Configuration!At, ConfigurationInv
  <2>3. configuring'[c] = next
    BY <1>0, <1>1 DEF Configuration!WriteDomain
  <2> QED
    BY <1>1, <2>1, <2>2, <2>3 DEF Configuration!At, Expects
<1>2. ASSUME NEW c \in Admins, Configuration!MarkVerified(c)
      PROVE  \E next : /\ Configuration!At(c, "marking") /\ next.step # "marking"
                       /\ Configuration!WriteDomain(c, configuring[c].domain, [status |-> "VERIFIED", verifiedAt |-> TRUE], next)
  <2>1. configuring[c] \in Configuration!VerifyCall
    BY <1>0, <1>2 DEF Configuration!MarkVerified, Configuration!At, Configuration!BackfillCall
  <2>2. [configuring[c] EXCEPT !.step = "auditing"].step = "auditing"
    BY <2>1 DEF Configuration!VerifyCall
  <2> QED
    BY <1>2, <2>2 DEF Configuration!MarkVerified
<1>3. ASSUME NEW e \in Hosts, Configuration!CreateDomain(e) PROVE FALSE
  BY <1>0, <1>3 DEF Configuration!CreateDomain
<1>4. CASE \E c \in Admins : Configuration!MarkVerified(c)
  BY <1>1, <1>2, <1>4
<1>5. CASE \E c \in Admins : Configuration!MarkFailed(c)
  BY <1>1, <1>5 DEF Configuration!MarkFailed
<1>6. domain' # domain /\ configurations' # configurations + 1
  BY <1>0
<1>7. ASSUME NEW c \in Admins,
             \/ Configuration!BackfillBegin(c) \/ Configuration!BackfillEnd(c) \/ Configuration!LookUp(c)
             \/ Configuration!AuditVerified(c) \/ Configuration!ConfigurationDies(c)
             \/ \E e \in Hosts : Configuration!VerifyBegin(c, e)
      PROVE  FALSE
  BY <1>6, <1>7, Zenon
     DEF Configuration!BackfillBegin, Configuration!BackfillEnd, Configuration!LookUp,
         Configuration!AuditVerified, Configuration!ConfigurationDies, Configuration!VerifyBegin
<1>8. ASSUME NEW z, Configuration!UpdateSettings(z) \/ Configuration!UpdateOrganization(z) PROVE FALSE
  BY <1>6, <1>8, Zenon DEF Configuration!UpdateSettings, Configuration!UpdateOrganization
<1>9. ASSUME NEW e, NEW s, Configuration!UpdateDomain(e, s) PROVE FALSE
  BY <1>6, <1>9, Zenon DEF Configuration!UpdateDomain
<1>10. ~(UNCHANGED configurationVars)
  BY <1>6 DEF configurationVars
<1> QED
  BY <1>3, <1>4, <1>5, <1>7, <1>8, <1>9, <1>10 DEF Configuration!ConfigurationNext

-----------------------------------------------------------------------------
(* Teams, as Team.                                                         *)

\* The calls that replace a user's teams and have written the membership.
Replacing(c) == Team!At(c, "deleting") \/ Team!At(c, "inserting")

\* Of the user's links, a replacement that has deleted some sees added since
\* what it has not deleted.
Accounts(r) ==
    /\ \A l \in r.deleted : l[1] = r.user
    /\ {l \in links : l[1] = r.user /\ l \notin r.deleted} = {l \in r.since : l[1] = r.user}

\* The inductive invariant: replacements of one user exclude one another, and
\* account for the links others have written meanwhile.
TeamsInv ==
    /\ Team!TeamsTypeOK /\ links = expected
    /\ \A c \in Admins : teaming[c] # None /\ teaming[c].step \in {"locking", "deleting"} =>
          teaming[c].since = {}
    /\ \A c \in Admins : teaming[c] # None /\ teaming[c].step \in {"locking", "deleting", "inserting"} =>
          member[teaming[c].user] # None
    /\ \A c \in Admins : Team!At(c, "inserting") => Accounts(teaming[c])
    /\ \A c, d \in Admins : c # d /\ Replacing(c) /\ Replacing(d) => teaming[c].user # teaming[d].user

\* Teams: a call is of the kind its step tells.
LEMMA TeamCalls ==
    ASSUME TeamsInv, NEW c \in Admins, teaming[c] # None
    PROVE  /\ teaming[c].step = "updating" => teaming[c] \in Team!UpdateCall
           /\ teaming[c].step \in {"adding", "removing"} => teaming[c] \in Team!LinkCall
           /\ teaming[c].step \in {"locking", "deleting", "inserting"} => teaming[c] \in Team!ReplaceCall
<1>1. teaming[c] \in Team!UpdateCall \cup Team!LinkCall \cup Team!ReplaceCall
  BY DEF TeamsInv, Team!TeamsTypeOK
<1> PICK r : r = teaming[c]
  OBVIOUS
<1>2. r \in Team!UpdateCall => r.step = "updating"
  BY DEF Team!UpdateCall
<1>3. r \in Team!LinkCall => r.step \in {"adding", "removing"}
  BY DEF Team!LinkCall
<1>4. r \in Team!ReplaceCall => r.step \in {"locking", "deleting", "inserting"}
  BY DEF Team!ReplaceCall
<1> QED
  BY <1>1, <1>2, <1>3, <1>4

\* Teams: no user has a team before the first call.
LEMMA TeamsStart == Team!TeamsInit => TeamsInv
<1> SUFFICES ASSUME Team!TeamsInit PROVE TeamsInv
  OBVIOUS
<1>1. /\ \A c \in Admins : teaming[c] = None
      /\ member \in [Founders -> BOOLEAN \cup {None}]
      /\ links = {} /\ expected = {}
  BY DEF Team!TeamsInit
<1>2. /\ team \in [TeamCodes -> Team!TeamRow \cup {None}]
      /\ teaming \in [Admins -> Team!UpdateCall \cup Team!LinkCall \cup Team!ReplaceCall \cup {None}]
  BY DEF Team!TeamsInit
<1>3. Team!TeamsTypeOK
  BY <1>1, <1>2 DEF Team!TeamsTypeOK
<1> QED
  BY <1>1, <1>3 DEF TeamsInv, Team!At, Replacing

\* Teams: a call begins, moves on or ends, and writes no link.
LEMMA TeamCallStep ==
    ASSUME TeamsInv, NEW c \in Admins, NEW r, teaming' = [teaming EXCEPT ![c] = r],
           r \in Team!UpdateCall \cup Team!LinkCall \cup Team!ReplaceCall \cup {None},
           UNCHANGED <<member, links, expected>>, team' \in [TeamCodes -> Team!TeamRow \cup {None}],
           r # None =>
             /\ r.step \in {"locking", "deleting"} => r.since = {}
             /\ r.step \in {"locking", "deleting", "inserting"} => member[r.user] # None
             /\ r.step = "inserting" => Accounts(r)
             /\ r.step \in {"deleting", "inserting"} =>
                  \A d \in Admins : d # c /\ Replacing(d) => teaming[d].user # r.user
    PROVE  TeamsInv'
<1>1. teaming'[c] = r /\ \A d \in Admins : d # c => teaming'[d] = teaming[d]
  BY DEF TeamsInv, Team!TeamsTypeOK
<1>2. Team!TeamsTypeOK'
  BY DEF TeamsInv, Team!TeamsTypeOK
<1>3. ASSUME NEW d \in Admins, teaming'[d] # None
      PROVE  /\ teaming'[d].step \in {"locking", "deleting"} => teaming'[d].since = {}
             /\ teaming'[d].step \in {"locking", "deleting", "inserting"} => member'[teaming'[d].user] # None
             /\ teaming'[d].step = "inserting" => Accounts(teaming[d])'
  <2>1. CASE d = c
    BY <1>1, <1>3, <2>1 DEF Accounts
  <2>2. CASE d # c
    <3>1. PICK s : s = teaming[d] /\ teaming'[d] = s
      BY <1>1, <2>2
    <3> QED
      BY <1>3, <3>1 DEF TeamsInv, Accounts, Team!At
  <2> QED
    BY <2>1, <2>2
<1>4. ASSUME NEW d \in Admins, NEW e \in Admins, d # e, Replacing(d)', Replacing(e)'
      PROVE  teaming'[d].user # teaming'[e].user
  <2>1. CASE d # c /\ e # c
    BY <1>1, <1>4, <2>1 DEF TeamsInv, Replacing, Team!At
  <2>2. CASE d = c
    BY <1>1, <1>4, <2>2 DEF Replacing, Team!At
  <2>3. CASE e = c
    BY <1>1, <1>4, <2>3 DEF Replacing, Team!At
  <2> QED
    BY <2>1, <2>2, <2>3
<1>5. links' = expected'
  BY DEF TeamsInv
<1> QED
  BY <1>2, <1>3, <1>4, <1>5 DEF TeamsInv, Team!At

\* Teams: links are written of users whom no replacement under way is about.
LEMMA TeamLinksStep ==
    ASSUME TeamsInv,
           \A d \in Admins, l \in Founders \X TeamCodes :
              Team!At(d, "inserting") /\ teaming'[d] # None /\ l[1] = teaming[d].user =>
                (l \in links' <=> l \in links),
           links' \subseteq Founders \X TeamCodes, expected' = links', team' = team,
           teaming' \in [Admins -> Team!UpdateCall \cup Team!LinkCall \cup Team!ReplaceCall \cup {None}],
           \A d \in Admins : teaming'[d] = None \/ teaming'[d] = teaming[d],
           member' \in [Founders -> BOOLEAN \cup {None}],
           \A v \in Founders : member[v] # None => member'[v] # None
    PROVE  TeamsInv'
<1>0. links \subseteq Founders \X TeamCodes
  BY DEF TeamsInv, Team!TeamsTypeOK
<1>1. Team!TeamsTypeOK'
  BY DEF TeamsInv, Team!TeamsTypeOK
<1>2. ASSUME NEW d \in Admins, teaming'[d] # None
      PROVE  /\ teaming'[d].step \in {"locking", "deleting"} => teaming'[d].since = {}
             /\ teaming'[d].step \in {"locking", "deleting", "inserting"} => member'[teaming'[d].user] # None
             /\ teaming'[d].step = "inserting" => Accounts(teaming[d])'
  <2>1. PICK r : r = teaming[d] /\ teaming'[d] = r
    BY <1>2
  <2>2. r.step \in {"locking", "deleting", "inserting"} => member'[r.user] # None
    <3>1. r.step \in {"locking", "deleting", "inserting"} => r.user \in Founders
      BY <1>2, <2>1, TeamCalls DEF Team!ReplaceCall
    <3> QED
      BY <1>2, <2>1, <3>1 DEF TeamsInv
  <2>3. ASSUME r.step = "inserting" PROVE Accounts(r)'
    <3>1. Accounts(r) /\ \A l \in Founders \X TeamCodes : l[1] = r.user => (l \in links' <=> l \in links)
      BY <1>2, <2>1, <2>3 DEF TeamsInv, Team!At
    <3>2. {l \in links' : l[1] = r.user /\ l \notin r.deleted} = {l \in links : l[1] = r.user /\ l \notin r.deleted}
      BY <1>0, <1>1, <3>1 DEF Team!TeamsTypeOK
    <3> QED
      BY <3>1, <3>2 DEF Accounts
  <2> QED
    BY <1>2, <2>1, <2>2, <2>3 DEF TeamsInv, Accounts
<1>3. ASSUME NEW d \in Admins, NEW e \in Admins, d # e, Replacing(d)', Replacing(e)'
      PROVE  teaming'[d].user # teaming'[e].user
  BY <1>3 DEF TeamsInv, Replacing, Team!At
<1> QED
  BY <1>1, <1>2, <1>3 DEF TeamsInv, Team!At

\* Teams: each of its actions.
LEMMA TeamsStep == TeamsInv /\ [Team!TeamsNext]_teamVars => TeamsInv'
<1> SUFFICES ASSUME TeamsInv, [Team!TeamsNext]_teamVars PROVE TeamsInv'
  OBVIOUS
<1> DEFINE Calling == Team!UpdateCall \cup Team!LinkCall \cup Team!ReplaceCall \cup {None}
<1>0. /\ member \in [Founders -> BOOLEAN \cup {None}]
      /\ team \in [TeamCodes -> Team!TeamRow \cup {None}] /\ teaming \in [Admins -> Calling]
      /\ links \subseteq Founders \X TeamCodes /\ expected = links
  BY DEF TeamsInv, Team!TeamsTypeOK
<1>1. ASSUME NEW c \in Admins, NEW t \in TeamCodes, NEW row \in Team!TeamRow, Team!TeamBegin(c, t, row)
      PROVE  TeamsInv'
  <2> PICK r : r = [step |-> "updating", team |-> t, row |-> row]
    OBVIOUS
  <2>1. r \in Team!UpdateCall /\ r.step = "updating"
    BY DEF Team!UpdateCall
  <2> QED
    BY <1>0, <1>1, <2>1, TeamCallStep DEF Team!TeamBegin
<1>2. ASSUME NEW c \in Admins, Team!TeamEnd(c) PROVE TeamsInv'
  <2>1. teaming[c] \in Team!UpdateCall
    BY <1>2, TeamCalls DEF Team!TeamEnd, Team!At
  <2>2. teaming[c].team \in TeamCodes /\ teaming[c].row \in Team!TeamRow
    BY <2>1 DEF Team!UpdateCall
  <2>3. team' \in [TeamCodes -> Team!TeamRow \cup {None}]
    BY <1>0, <1>2, <2>2 DEF Team!TeamEnd
  <2> QED
    BY <1>2, <2>3, TeamCallStep DEF Team!TeamEnd, Team!Return
<1>3. ASSUME NEW c \in Admins, NEW u \in Founders, NEW t \in TeamCodes, NEW step \in {"adding", "removing"},
             Team!LinkBegin(c, u, t, step)
      PROVE  TeamsInv'
  <2> PICK r : r = [step |-> step, team |-> t, user |-> u]
    OBVIOUS
  <2>1. r \in Team!LinkCall /\ r.step \in {"adding", "removing"}
    BY DEF Team!LinkCall
  <2> QED
    BY <1>0, <1>3, <2>1, TeamCallStep DEF Team!LinkBegin
<1>4. ASSUME NEW c \in Admins, NEW u \in Founders, NEW t \in TeamCodes \cup {None}, Team!ReplaceBegin(c, u, t)
      PROVE  TeamsInv'
  <2> PICK r : r = [step |-> "locking", user |-> u, team |-> t, deleted |-> {}, since |-> {}]
    OBVIOUS
  <2>1. r \in Team!ReplaceCall /\ r.step = "locking" /\ r.since = {} /\ r.user = u
    BY DEF Team!ReplaceCall
  <2> QED
    BY <1>0, <1>4, <2>1, TeamCallStep DEF Team!ReplaceBegin
<1>5. ASSUME NEW c \in Admins, UNCHANGED <<member, team, links, expected>>, Team!Return(c) PROVE TeamsInv'
  BY <1>0, <1>5, TeamCallStep DEF Team!Return
<1>6. ASSUME NEW c \in Admins, Team!ReplaceLock(c) PROVE TeamsInv'
  <2>1. PICK r \in Team!ReplaceCall : r = teaming[c] /\ r.step = "locking" /\ r # None
    BY <1>6, TeamCalls DEF Team!ReplaceLock, Team!At
  <2>2. CASE teaming' = [teaming EXCEPT ![c].step = "deleting"]
    <3> PICK s : s = [r EXCEPT !.step = "deleting"]
      OBVIOUS
    <3>1. s \in Team!ReplaceCall /\ s.step = "deleting" /\ s.user = r.user /\ s.since = r.since
      BY DEF Team!ReplaceCall
    <3>2. teaming' = [teaming EXCEPT ![c] = s]
      BY <1>0, <2>1, <2>2
    <3>3. r.since = {} /\ member[r.user] # None
      BY <2>1 DEF TeamsInv
    <3>4. \A d \in Admins : d # c /\ Replacing(d) => teaming[d].user # r.user
      BY <1>6, <2>1 DEF Team!ReplaceLock, Team!MayLock, Replacing
    <3> QED
      BY <1>0, <1>6, <3>1, <3>2, <3>3, <3>4, TeamCallStep DEF Team!ReplaceLock
  <2> QED
    BY <1>5, <1>6, <2>2 DEF Team!ReplaceLock
<1>7. ASSUME NEW c \in Admins, Team!ReplaceDelete(c) PROVE TeamsInv'
  <2>1. PICK r \in Team!ReplaceCall : r = teaming[c] /\ r.step = "deleting" /\ r # None
    BY <1>7, TeamCalls DEF Team!ReplaceDelete, Team!At
  <2>2. PICK gone \in SUBSET (Founders \X TeamCodes) : gone = Team!LinksOf(r.user)
    BY <1>0 DEF Team!LinksOf
  <2> PICK s : s = [r EXCEPT !.step = "inserting", !.deleted = gone]
    OBVIOUS
  <2>3. s \in Team!ReplaceCall /\ s.step = "inserting" /\ s.user = r.user /\ s.since = r.since /\ s.deleted = gone
    BY DEF Team!ReplaceCall
  <2>4. teaming' = [teaming EXCEPT ![c] = s]
    BY <1>0, <1>7, <2>1, <2>2 DEF Team!ReplaceDelete
  <2>5. r.since = {} /\ member[r.user] # None
    BY <2>1 DEF TeamsInv
  <2>6. \A d \in Admins : d # c /\ Replacing(d) => teaming[d].user # r.user
    BY <2>1 DEF TeamsInv, Replacing, Team!At
  <2>7. Accounts(s)
    BY <2>2, <2>3, <2>5 DEF Accounts, Team!LinksOf
  <2>8. UNCHANGED <<member, team, links, expected>>
    BY <1>7 DEF Team!ReplaceDelete
  <2>9. team' \in [TeamCodes -> Team!TeamRow \cup {None}]
    BY <1>0, <2>8
  <2> HIDE DEF Calling
  <2> QED
    BY <2>3, <2>4, <2>5, <2>6, <2>7, <2>8, <2>9, TeamCallStep
<1>8. ASSUME NEW c \in Admins, Team!LinkEnd(c) PROVE TeamsInv'
  <2>1. PICK r \in Team!LinkCall : r = teaming[c] /\ r.step \in {"adding", "removing"}
    BY <1>8, TeamCalls DEF Team!LinkEnd, Team!At
  <2>2. PICK l \in Founders \X TeamCodes : l = <<r.user, r.team>>
    BY DEF Team!LinkCall
  <2>3. PICK plus, minus : /\ plus = (IF r.step = "adding" THEN {l} ELSE {})
                           /\ minus = (IF r.step = "adding" THEN {} ELSE {l})
    OBVIOUS
  <2>4. /\ ~Team!Locked(l) /\ UNCHANGED <<member, team>>
        /\ links' = (links \cup plus) \ minus /\ expected' = (expected \cup plus) \ minus
    BY <1>8, <2>1, <2>2, <2>3 DEF Team!LinkEnd
  <2>5. teaming'[c] = None
    BY <1>8 DEF Team!LinkEnd
  <2>6. ASSUME NEW d \in Admins, d # c
        PROVE  /\ ~Team!At(d, "inserting") => teaming'[d] = teaming[d]
               /\ Team!At(d, "inserting") =>
                    /\ l \notin teaming[d].deleted
                    /\ teaming'[d] = [teaming[d] EXCEPT !.since = (@ \cup plus) \ minus]
    <3>1. CASE r.step = "adding" /\ Team!At(d, "inserting")
      BY <1>8, <2>1, <2>2, <2>3, <2>4, <2>6, <3>1 DEF Team!LinkEnd, Team!Locked
    <3>2. CASE r.step # "adding" /\ Team!At(d, "inserting")
      BY <1>8, <2>1, <2>2, <2>3, <2>4, <2>6, <3>2 DEF Team!LinkEnd, Team!Locked
    <3>3. CASE ~Team!At(d, "inserting")
      BY <1>8, <2>6, <3>3 DEF Team!LinkEnd
    <3> QED
      BY <3>1, <3>2, <3>3
  <2>7. ASSUME NEW d \in Admins, teaming'[d] # None
        PROVE  /\ teaming'[d] \in Calling /\ teaming[d] # None
               /\ teaming'[d].step = teaming[d].step
               /\ teaming'[d].step \in {"locking", "deleting", "inserting"} => teaming'[d].user = teaming[d].user
               /\ teaming'[d].step \in {"locking", "deleting"} => teaming'[d].since = teaming[d].since
               /\ teaming'[d].step = "inserting" => Accounts(teaming[d])'
    <3>1. d # c
      BY <2>5, <2>7
    <3>2. CASE Team!At(d, "inserting")
      <4>1. PICK q \in Team!ReplaceCall : q = teaming[d] /\ q.step = "inserting" /\ Accounts(q) /\ l \notin q.deleted
        BY <2>6, <3>1, <3>2, TeamCalls DEF Team!At, TeamsInv
      <4>2. PICK added \in SUBSET (Founders \X TeamCodes) : added = (q.since \cup plus) \ minus
        BY <2>3 DEF Team!ReplaceCall
      <4> PICK s : s = [q EXCEPT !.since = added]
        OBVIOUS
      <4>3. teaming'[d] = s
        BY <2>6, <3>1, <3>2, <4>1, <4>2
      <4>4. /\ s \in Team!ReplaceCall /\ s.step = q.step /\ s.user = q.user /\ s.deleted = q.deleted
            /\ s.since = added
        BY DEF Team!ReplaceCall
      <4>5. {k \in links' : k[1] = q.user /\ k \notin q.deleted} = {k \in added : k[1] = q.user}
        BY <2>3, <2>4, <4>1, <4>2 DEF Accounts
      <4>6. Accounts(s)'
        BY <4>1, <4>4, <4>5 DEF Accounts
      <4> QED
        BY <3>2, <4>1, <4>3, <4>4, <4>6 DEF Team!At, Accounts
    <3>3. CASE ~Team!At(d, "inserting")
      BY <1>0, <2>6, <2>7, <3>1, <3>3 DEF Team!At
    <3> QED
      BY <3>2, <3>3
  <2>8. teaming' \in [Admins -> Calling]
    BY <1>8, <2>7 DEF Team!LinkEnd
  <2>9. links' \subseteq Founders \X TeamCodes /\ links' = expected'
    BY <1>0, <2>3, <2>4
  <2>10. Team!TeamsTypeOK'
    BY <1>0, <2>4, <2>8, <2>9 DEF Team!TeamsTypeOK
  <2>11. ASSUME NEW d \in Admins, NEW e \in Admins, d # e, Replacing(d)', Replacing(e)'
         PROVE  teaming'[d].user # teaming'[e].user
    BY <2>7, <2>11 DEF TeamsInv, Replacing, Team!At
  <2>12. \A d \in Admins : teaming'[d] # None /\ teaming'[d].step \in {"locking", "deleting"} => teaming'[d].since = {}
    BY <2>7 DEF TeamsInv
  <2>13. \A d \in Admins : teaming'[d] # None /\ teaming'[d].step \in {"locking", "deleting", "inserting"} =>
            member'[teaming'[d].user] # None
    BY <2>4, <2>7 DEF TeamsInv
  <2>14. \A d \in Admins : Team!At(d, "inserting")' => Accounts(teaming[d])'
    BY <2>7 DEF Team!At
  <2> QED
    BY <2>9, <2>10, <2>11, <2>12, <2>13, <2>14 DEF TeamsInv
<1>9. ASSUME NEW c \in Admins, Team!ReplaceCommit(c) PROVE TeamsInv'
  <2>1. PICK r \in Team!ReplaceCall : r = teaming[c] /\ r.step = "inserting" /\ Accounts(r)
    BY <1>9, TeamCalls DEF Team!ReplaceCommit, Team!At, TeamsInv
  <2>2. PICK u \in Founders, t \in TeamCodes \cup {None} : u = r.user /\ t = r.team
    BY DEF Team!ReplaceCall
  <2>3. PICK new : new = (IF t = None THEN {} ELSE {<<u, t>>})
    OBVIOUS
  <2>3a. new \in SUBSET (Founders \X TeamCodes) /\ \A l \in new : l[1] = u
    <3>1. CASE t = None
      BY <2>3, <3>1
    <3>2. CASE t # None
      BY <2>3, <3>2
    <3> QED
      BY <3>1, <3>2
  <2>4. /\ links' = (links \ r.deleted) \cup new
        /\ expected' = {l \in expected : l[1] # u} \cup new \cup {l \in r.since : l[1] = u}
        /\ teaming' = [teaming EXCEPT ![c] = None] /\ UNCHANGED <<member, team>>
    BY <1>9, <2>1, <2>2, <2>3 DEF Team!ReplaceCommit, Team!Return
  <2>5. (\A l \in new : l[1] = u) /\ (\A l \in r.deleted : l[1] = u)
        /\ {l \in links : l[1] = u /\ l \notin r.deleted} = {l \in r.since : l[1] = u}
    BY <2>1, <2>2, <2>3a DEF Accounts
  <2>6. \A l : l \in links' <=> l \in expected'
    BY <1>0, <2>4, <2>5
  <2>7. expected' = links'
    BY <2>6, Zenon
  <2>8. \A l \in Founders \X TeamCodes : l[1] # u => (l \in links' <=> l \in links)
    BY <2>4, <2>5
  <2>9. \A d \in Admins : teaming'[d] = None \/ (teaming'[d] = teaming[d]
                              /\ (Team!At(d, "inserting") => teaming[d].user # u))
    <3>1. ASSUME NEW d \in Admins, d # c, Team!At(d, "inserting") PROVE teaming[d].user # u
      BY <1>9, <2>1, <2>2, <3>1 DEF Team!ReplaceCommit, Replacing, TeamsInv
    <3> QED
      BY <1>0, <2>4, <3>1
  <2>10. links' \subseteq Founders \X TeamCodes
    BY <1>0, <2>3a, <2>4
  <2>11. teaming' \in [Admins -> Calling]
    BY <1>0, <2>4
  <2> QED
    <3> HIDE DEF Calling
    <3>1. \A d \in Admins : teaming'[d] = None \/ teaming'[d] = teaming[d]
      BY <2>9
    <3>2. \A d \in Admins, l \in Founders \X TeamCodes :
             Team!At(d, "inserting") /\ teaming'[d] # None /\ l[1] = teaming[d].user =>
               (l \in links' <=> l \in links)
      BY <1>0, <2>4, <2>8, <2>9
    <3> QED
      BY <1>0, <2>4, <2>7, <2>10, <2>11, <3>1, <3>2, TeamLinksStep DEF Calling
<1>10. ASSUME NEW u \in Founders, NEW t \in TeamCodes \cup {None}, Team!CreateMember(u, t) PROVE TeamsInv'
  <2>1. PICK new : new = (IF t = None THEN {} ELSE {<<u, t>>})
    OBVIOUS
  <2>1a. new \in SUBSET (Founders \X TeamCodes) /\ \A l \in new : l[1] = u
    <3>1. CASE t = None
      BY <2>1, <3>1
    <3>2. CASE t # None
      BY <2>1, <3>2
    <3> QED
      BY <3>1, <3>2
  <2>2. links' = links \cup new /\ expected' = expected \cup new /\ member' = [member EXCEPT ![u] = TRUE]
        /\ team' = team /\ teaming' = teaming /\ member[u] = None
    BY <1>10, <2>1 DEF Team!CreateMember
  <2>3. ASSUME NEW d \in Admins, Team!At(d, "inserting") PROVE teaming[d].user # u
    BY <2>2, <2>3 DEF TeamsInv, Team!At
  <2>4. member' \in [Founders -> BOOLEAN \cup {None}] /\ \A v \in Founders : member[v] # None => member'[v] # None
    BY <1>0, <2>2
  <2>5. links' \subseteq Founders \X TeamCodes /\ expected' = links'
    BY <1>0, <2>1a, <2>2
  <2>6. \A l \in Founders \X TeamCodes : l[1] # u => (l \in links' <=> l \in links)
    BY <2>1a, <2>2
  <2>7. \A d \in Admins, l \in Founders \X TeamCodes :
            Team!At(d, "inserting") /\ l[1] = teaming[d].user => (l \in links' <=> l \in links)
    BY <2>3, <2>6
  <2> HIDE DEF Calling
  <2> QED
    BY <1>0, <2>2, <2>4, <2>5, <2>7, TeamLinksStep DEF Calling
<1>11. ASSUME NEW u \in Founders, Team!ToggleMember(u) PROVE TeamsInv'
  <2>1. member[u] \in BOOLEAN /\ None \notin BOOLEAN
    BY <1>0, <1>11, OrganizationAssumption DEF Team!ToggleMember, Team!TeamsAssumption
  <2>2. PICK b \in BOOLEAN : b = ~member[u]
    BY <2>1
  <2>3. member' = [member EXCEPT ![u] = b]
    BY <1>0, <1>11, <2>2 DEF Team!ToggleMember
  <2>4. member' \in [Founders -> BOOLEAN \cup {None}] /\ \A v \in Founders : member[v] # None => member'[v] # None
    BY <1>0, <2>1, <2>3
  <2>5. UNCHANGED <<team, links, teaming, expected>>
    BY <1>11 DEF Team!ToggleMember
  <2>6. teaming' = teaming /\ links' = links
    BY <2>5
  <2> QED
    BY <1>0, <2>4, <2>5, <2>6, TeamLinksStep
<1>12. CASE UNCHANGED teamVars
  BY <1>12 DEF teamVars, TeamsInv, Team!TeamsTypeOK, Replacing, Team!At, Accounts
<1> QED
  BY <1>1, <1>2, <1>3, <1>4, <1>5, <1>6, <1>7, <1>8, <1>9, <1>10, <1>11, <1>12
     DEF Team!TeamsNext, Team!TeamsDie

-----------------------------------------------------------------------------
(* SsoProviders, as Provider.                                              *)

\* What an update under way relies on: its provider is there, and has the
\* routes it has read of the kinds nobody has written since.
StillRead(r) ==
    /\ provider[r.provider] # None
    /\ \A k \in r.fresh : provider[r.provider].routes[k] = r.read[k]

\* What a command relies on: the providers it has found are there, and have no
\* organization, unless another command has found one of them too.
StillPending(r) ==
    \A p \in r.pending : provider[p] # None /\ (provider[p].tenant = None \/ r.overlap)

\* The inductive invariant.
ProvidersInv ==
    /\ Provider!ProvidersTypeOK
    /\ \A c \in Admins : Provider!At(c, "validated") => StillRead(connecting[c])
    /\ \A c \in Admins : Provider!At(c, "adopting") => StillPending(connecting[c])
    /\ \A c, d \in Admins :
         c # d /\ Provider!At(c, "adopting") /\ Provider!At(d, "adopting") =>
           (connecting[c].pending \cap connecting[d].pending # {} => connecting[c].overlap)

\* SsoProviders: a call is of the kind its step tells.
LEMMA ProviderCalls ==
    ASSUME ProvidersInv, NEW c \in Admins, connecting[c] # None
    PROVE  /\ connecting[c].step = "validated" => connecting[c] \in Provider!UpdateCall
           /\ connecting[c].step = "adopting" => connecting[c] \in Provider!AdoptCall
           /\ connecting[c].step \in {"validated", "adopting"}
<1>1. connecting[c] \in Provider!UpdateCall \cup Provider!AdoptCall
  BY DEF ProvidersInv, Provider!ProvidersTypeOK
<1> PICK r : r = connecting[c]
  OBVIOUS
<1>2. r \in Provider!UpdateCall => r.step = "validated"
  BY DEF Provider!UpdateCall
<1>3. r \in Provider!AdoptCall => r.step = "adopting"
  BY DEF Provider!AdoptCall
<1> QED
  BY <1>1, <1>2, <1>3

\* SsoProviders: no call is under way at first.
LEMMA ProvidersStart == Provider!ProvidersInit => ProvidersInv
<1> SUFFICES ASSUME Provider!ProvidersInit PROVE ProvidersInv
  OBVIOUS
<1>1. /\ \A c \in Admins : connecting[c] = None
      /\ usable \subseteq MapRoles
      /\ connecting \in [Admins -> Provider!UpdateCall \cup Provider!AdoptCall \cup {None}]
  BY DEF Provider!ProvidersInit
<1>2. Provider!NoRoutes \in Provider!Routes
  BY DEF Provider!NoRoutes, Provider!Routes
<1>3. [tenant : {None}, active : {TRUE}, allowed : SUBSET Names, routes : {Provider!NoRoutes}, mapped : {{}}]
         \subseteq Provider!Provider
  BY <1>2 DEF Provider!Provider
<1>4. provider \in [ProviderIds -> Provider!Provider \cup {None}]
  BY <1>3 DEF Provider!ProvidersInit
<1>5. Provider!ProvidersTypeOK
  BY <1>1, <1>4 DEF Provider!ProvidersTypeOK
<1>6. \A c \in Admins : ~Provider!At(c, "validated") /\ ~Provider!At(c, "adopting")
  BY <1>1 DEF Provider!At
<1> QED
  BY <1>5, <1>6 DEF ProvidersInv

\* SsoProviders: a call ends, or an update begins, and the providers keep their
\* organizations and routes.
LEMMA ProvidersKept ==
    ASSUME ProvidersInv, provider' \in [ProviderIds -> Provider!Provider \cup {None}],
           usable' \subseteq MapRoles,
           connecting' \in [Admins -> Provider!UpdateCall \cup Provider!AdoptCall \cup {None}],
           \A p \in ProviderIds : provider[p] # None =>
              provider'[p] # None /\ provider'[p].tenant = provider[p].tenant /\ provider'[p].routes = provider[p].routes,
           \A c \in Admins : \/ connecting'[c] = None \/ connecting'[c] = connecting[c]
                             \/ connecting'[c] \in Provider!UpdateCall /\ StillRead(connecting'[c])
    PROVE  ProvidersInv'
<1>0. ASSUME NEW c \in Admins, connecting'[c] \in Provider!UpdateCall
      PROVE  connecting'[c].step = "validated"
  BY <1>0 DEF Provider!UpdateCall
<1>1. ASSUME NEW c \in Admins, Provider!At(c, "validated")' PROVE StillRead(connecting[c])'
  <2>1. StillRead(connecting'[c]) /\ connecting'[c] # None /\ connecting'[c].step = "validated"
    BY <1>1 DEF ProvidersInv, Provider!At
  <2>2. connecting'[c] \in Provider!UpdateCall
    BY <2>1 DEF Provider!AdoptCall
  <2>3. connecting'[c].provider \in ProviderIds
    BY <2>2 DEF Provider!UpdateCall
  <2> QED
    BY <2>1, <2>3 DEF StillRead
<1>2. ASSUME NEW c \in Admins, Provider!At(c, "adopting")' PROVE connecting'[c] = connecting[c]
  BY <1>0, <1>2 DEF Provider!At
<1>3. ASSUME NEW c \in Admins, Provider!At(c, "adopting")' PROVE StillPending(connecting[c])'
  <2>1. PICK r \in Provider!AdoptCall : r = connecting[c] /\ StillPending(r) /\ connecting'[c] = r
    BY <1>2, <1>3, ProviderCalls DEF ProvidersInv, Provider!At
  <2>2. r.pending \subseteq ProviderIds
    BY DEF Provider!AdoptCall
  <2> QED
    BY <2>1, <2>2 DEF StillPending
<1>4. ASSUME NEW c \in Admins, NEW d \in Admins, c # d, Provider!At(c, "adopting")', Provider!At(d, "adopting")',
             connecting'[c].pending \cap connecting'[d].pending # {}
      PROVE  connecting'[c].overlap
  BY <1>2, <1>4 DEF ProvidersInv, Provider!At
<1>5. Provider!ProvidersTypeOK'
  BY DEF Provider!ProvidersTypeOK
<1> QED
  BY <1>1, <1>3, <1>4, <1>5 DEF ProvidersInv

\* SsoProviders: what an update that names something, or nothing, makes of it.
LEMMA NamedIn == ASSUME NEW S, NEW kept \in S, NEW given \in Provider!Optional(S)
                 PROVE  /\ Provider!Named(kept, given) \in S
                        /\ given = {} => Provider!Named(kept, given) = kept
<1>1. CASE given = {}
  BY <1>1 DEF Provider!Named
<1>2. CASE given # {}
  <2>1. PICK x \in S : given = {x}
    BY <1>2 DEF Provider!Optional
  <2>2. (CHOOSE y \in given : TRUE) \in given
    BY <2>1
  <2> QED
    BY <1>2, <2>1, <2>2 DEF Provider!Named
<1> QED
  BY <1>1, <1>2

\* SsoProviders: an update leaves the organization, what it does not name and,
\* of the routes it does not name, those it read.
LEMMA UpdatedRow ==
    ASSUME NEW row \in Provider!Provider, NEW u \in Provider!UpdateCall
    PROVE  /\ Provider!Updated(row, u) \in Provider!Provider
           /\ Provider!Updated(row, u).tenant = row.tenant
           /\ u.active = {} => Provider!Updated(row, u).active = row.active
           /\ \A k \in Provider!Kinds : u.routes[k] = {} =>
                Provider!Updated(row, u).routes[k] \in {row.routes[k], u.read[k]}
<1>1. /\ row.active \in BOOLEAN /\ row.mapped \in SUBSET MapRoles /\ row.routes \in Provider!Routes
      /\ u.active \in Provider!Optional(BOOLEAN) /\ u.mapped \in Provider!Optional(SUBSET MapRoles)
      /\ u.read \in Provider!Routes
      /\ u.routes \in [Provider!Kinds -> Provider!Optional(SUBSET Names)]
  BY DEF Provider!Provider, Provider!UpdateCall
<1>2. PICK a : a = Provider!Named(row.active, u.active)
  OBVIOUS
<1>3. PICK m : m = Provider!Named(row.mapped, u.mapped)
  OBVIOUS
<1>4. PICK r : r = Provider!NewRoutes(row, u)
  OBVIOUS
<1>5. a \in BOOLEAN /\ (u.active = {} => a = row.active)
  BY <1>1, <1>2, NamedIn
<1>6. m \in SUBSET MapRoles
  BY <1>1, <1>3, NamedIn
<1>7. r \in Provider!Routes /\ \A k \in Provider!Kinds : u.routes[k] = {} => r[k] \in {row.routes[k], u.read[k]}
  <2>1. CASE \A k \in Provider!Kinds : u.routes[k] = {}
    BY <1>1, <1>4, <2>1 DEF Provider!NewRoutes
  <2>2. CASE ~\A k \in Provider!Kinds : u.routes[k] = {}
    <3>1. r = [k \in Provider!Kinds |-> Provider!Named(u.read[k], u.routes[k])]
      BY <1>4, <2>2 DEF Provider!NewRoutes
    <3>2. ASSUME NEW k \in Provider!Kinds
          PROVE  r[k] \in SUBSET Names /\ (u.routes[k] = {} => r[k] = u.read[k])
      <4>1. u.read[k] \in SUBSET Names /\ u.routes[k] \in Provider!Optional(SUBSET Names)
        BY <1>1 DEF Provider!Routes
      <4>2. PICK kept \in SUBSET Names, given \in Provider!Optional(SUBSET Names) :
               kept = u.read[k] /\ given = u.routes[k]
        BY <4>1
      <4>3. Provider!Named(kept, given) \in SUBSET Names /\ (given = {} => Provider!Named(kept, given) = kept)
        BY NamedIn
      <4> QED
        BY <3>1, <4>2, <4>3
    <3> QED
      BY <3>1, <3>2 DEF Provider!Routes
  <2> QED
    BY <2>1, <2>2
<1>8. Provider!Updated(row, u) = [row EXCEPT !.active = a, !.mapped = m, !.routes = r]
  BY <1>2, <1>3, <1>4 DEF Provider!Updated
<1>9. PICK new : new = [row EXCEPT !.active = a, !.mapped = m, !.routes = r]
  OBVIOUS
<1>10. new \in Provider!Provider /\ new.tenant = row.tenant /\ new.active = a /\ new.routes = r
  BY <1>5, <1>6, <1>7, <1>9 DEF Provider!Provider
<1> QED
  BY <1>5, <1>7, <1>8, <1>9, <1>10

\* SsoProviders: each of its actions.
LEMMA ProvidersStep == ProvidersInv /\ [Provider!ProvidersNext]_providerVars => ProvidersInv'
<1> SUFFICES ASSUME ProvidersInv, [Provider!ProvidersNext]_providerVars PROVE ProvidersInv'
  OBVIOUS
<1> DEFINE Connecting == Provider!UpdateCall \cup Provider!AdoptCall \cup {None}
           Rows == Provider!Provider \cup {None}
<1>0. /\ provider \in [ProviderIds -> Rows] /\ usable \subseteq MapRoles /\ connecting \in [Admins -> Connecting]
      /\ None \notin Provider!Provider /\ None \notin Provider!UpdateCall /\ None \notin Tenants
  BY OrganizationAssumption DEF ProvidersInv, Provider!ProvidersTypeOK, Provider!ProvidersAssumption
<1>1. ASSUME NEW p \in ProviderIds, NEW o \in Tenants, NEW routes \in Provider!Routes,
             NEW mapped \in SUBSET MapRoles, Provider!CreateProvider(p, o, routes, mapped)
      PROVE  ProvidersInv'
  <2> PICK row : row = [tenant |-> o, active |-> TRUE, allowed |-> {}, routes |-> routes, mapped |-> mapped]
    OBVIOUS
  <2>1. row \in Provider!Provider
    BY DEF Provider!Provider
  <2>2. provider' = [provider EXCEPT ![p] = row] /\ provider[p] = None /\ usable' = usable /\ connecting' = connecting
    BY <1>1 DEF Provider!CreateProvider, Provider!Exists
  <2>3. provider' \in [ProviderIds -> Rows]
    BY <1>0, <2>1, <2>2
  <2>4. \A q \in ProviderIds : provider[q] # None => provider'[q] = provider[q]
    BY <1>0, <2>2
  <2> HIDE DEF Connecting, Rows
  <2> QED
    BY <1>0, <2>2, <2>3, <2>4, ProvidersKept DEF Connecting, Rows
<1>2. ASSUME NEW c \in Admins, NEW p \in ProviderIds, NEW o \in Tenants, NEW active \in Provider!Optional(BOOLEAN),
             NEW routes \in [Provider!Kinds -> Provider!Optional(SUBSET Names)],
             NEW mapped \in Provider!Optional(SUBSET MapRoles), Provider!UpdateBegin(c, p, o, active, routes, mapped)
      PROVE  ProvidersInv'
  <2>1. provider[p] \in Provider!Provider /\ provider' = provider /\ usable' = usable
    BY <1>0, <1>2 DEF Provider!UpdateBegin, Provider!Exists
  <2>2. PICK read : read = provider[p].routes
    OBVIOUS
  <2> PICK r : r = [step |-> "validated", provider |-> p, tenant |-> o, active |-> active, routes |-> routes,
                    mapped |-> mapped, read |-> read, fresh |-> Provider!Kinds]
    OBVIOUS
  <2>3. read \in Provider!Routes
    BY <2>1, <2>2 DEF Provider!Provider
  <2>4. r \in Provider!UpdateCall /\ r.provider = p /\ r.read = read
    BY <2>3 DEF Provider!UpdateCall
  <2>5. StillRead(r)
    BY <1>0, <2>1, <2>2, <2>4 DEF StillRead
  <2>6. connecting' = [connecting EXCEPT ![c] = r]
    BY <1>2, <2>2 DEF Provider!UpdateBegin
  <2>7. connecting' \in [Admins -> Connecting] /\ connecting'[c] = r
        /\ \A d \in Admins : d # c => connecting'[d] = connecting[d]
    BY <1>0, <2>4, <2>6
  <2> HIDE DEF Connecting, Rows
  <2> QED
    BY <1>0, <2>1, <2>4, <2>5, <2>7, ProvidersKept DEF Connecting, Rows
<1>3. ASSUME NEW p \in ProviderIds, NEW o \in Tenants, Provider!DisableProvider(p, o) PROVE ProvidersInv'
  <2>1. PICK row \in Provider!Provider : row = provider[p]
    BY <1>0, <1>3 DEF Provider!DisableProvider, Provider!Exists
  <2> PICK new : new = [row EXCEPT !.active = FALSE]
    OBVIOUS
  <2>2. new \in Provider!Provider /\ new.tenant = row.tenant /\ new.routes = row.routes
    BY DEF Provider!Provider
  <2>3. provider' = [provider EXCEPT ![p] = new] /\ usable' = usable /\ connecting' = connecting
    BY <1>0, <1>3, <2>1 DEF Provider!DisableProvider
  <2>4. provider' \in [ProviderIds -> Rows]
    BY <1>0, <2>2, <2>3
  <2>5. \A q \in ProviderIds : provider[q] # None =>
           provider'[q] # None /\ provider'[q].tenant = provider[q].tenant /\ provider'[q].routes = provider[q].routes
    BY <1>0, <2>1, <2>2, <2>3
  <2> HIDE DEF Connecting, Rows
  <2> QED
    BY <1>0, <2>3, <2>4, <2>5, ProvidersKept DEF Connecting, Rows
<1>4. ASSUME UNCHANGED provider, usable' \subseteq MapRoles, UNCHANGED connecting PROVE ProvidersInv'
  BY <1>0, <1>4, ProvidersKept
<1>5. ASSUME NEW c \in Admins, UNCHANGED <<provider, usable>>, Provider!Return(c) PROVE ProvidersInv'
  <2>1. connecting' \in [Admins -> Connecting]
        /\ \A d \in Admins : connecting'[d] = None \/ connecting'[d] = connecting[d]
    BY <1>0, <1>5 DEF Provider!Return
  <2> HIDE DEF Connecting, Rows
  <2> QED
    BY <1>0, <1>5, <2>1, ProvidersKept DEF Connecting, Rows
\* Another call's write of routes.
<1>6. ASSUME NEW c \in Admins, NEW written, NEW kinds, connecting' = Provider!Rewritten(c, written, kinds),
             NEW d \in Admins, connecting'[d] # None
      PROVE  /\ d # c /\ connecting[d] # None
             /\ Provider!At(d, "adopting") => connecting'[d] = connecting[d]
             /\ Provider!At(d, "validated") =>
                  /\ connecting'[d] \in Provider!UpdateCall
                  /\ connecting'[d].provider = connecting[d].provider /\ connecting'[d].read = connecting[d].read
                  /\ connecting'[d].fresh =
                       IF connecting[d].provider \in written THEN connecting[d].fresh \ kinds ELSE connecting[d].fresh
  <2>1. d # c /\ connecting'[d] = (IF Provider!At(d, "validated") /\ connecting[d].provider \in written
                                   THEN [connecting[d] EXCEPT !.fresh = @ \ kinds] ELSE connecting[d])
    BY <1>6 DEF Provider!Rewritten
  <2>2. connecting[d] # None
    BY <1>6, <2>1 DEF Provider!At
  <2>3. ASSUME Provider!At(d, "validated")
        PROVE  /\ connecting'[d] \in Provider!UpdateCall
               /\ connecting'[d].provider = connecting[d].provider /\ connecting'[d].read = connecting[d].read
               /\ connecting'[d].fresh =
                    IF connecting[d].provider \in written THEN connecting[d].fresh \ kinds ELSE connecting[d].fresh
    <3>1. PICK u \in Provider!UpdateCall : u = connecting[d]
      BY <2>3, ProviderCalls DEF Provider!At
    <3> PICK v : v = [u EXCEPT !.fresh = @ \ kinds]
      OBVIOUS
    <3>2. v \in Provider!UpdateCall /\ v.provider = u.provider /\ v.read = u.read /\ v.fresh = u.fresh \ kinds
      BY DEF Provider!UpdateCall
    <3> QED
      BY <2>1, <2>3, <3>1, <3>2
  <2> QED
    BY <2>1, <2>2, <2>3 DEF Provider!At
\* Providers keep their existence, and updates under way hear of new routes.
<1>7. ASSUME NEW c \in Admins, NEW written, NEW kinds, connecting' = Provider!Rewritten(c, written, kinds),
             provider' \in [ProviderIds -> Rows], usable' = usable,
             \A p \in ProviderIds : provider[p] # None => provider'[p] # None,
             \A p \in ProviderIds : provider[p] # None => \A k \in Provider!Kinds :
                k \notin kinds \/ p \notin written => provider'[p].routes[k] = provider[p].routes[k],
             \A d \in Admins : d # c /\ Provider!At(d, "adopting") => StillPending(connecting[d])'
      PROVE  ProvidersInv'
  <2>1. ASSUME NEW d \in Admins, connecting'[d] # None PROVE connecting'[d] \in Connecting
    BY <1>0, <1>6, <1>7, <2>1, ProviderCalls DEF Provider!At
  <2>2. connecting' \in [Admins -> Connecting]
    BY <1>7, <2>1 DEF Provider!Rewritten
  <2>3. ASSUME NEW d \in Admins, Provider!At(d, "validated")' PROVE StillRead(connecting[d])'
    <3>1. connecting'[d] # None /\ connecting'[d].step = "validated"
      BY <2>3 DEF Provider!At
    <3>2. Provider!At(d, "validated")
      BY <1>6, <1>7, <3>1, ProviderCalls DEF Provider!At
    <3>3. PICK u \in Provider!UpdateCall : u = connecting[d]
      BY <3>1, <3>2, ProviderCalls DEF Provider!At
    <3>4. PICK v : v = connecting'[d]
      OBVIOUS
    <3>5. /\ v.provider = u.provider /\ v.read = u.read
          /\ v.fresh = IF u.provider \in written THEN u.fresh \ kinds ELSE u.fresh
      BY <1>6, <1>7, <3>1, <3>2, <3>3, <3>4
    <3>6. provider[u.provider] # None /\ \A k \in u.fresh : provider[u.provider].routes[k] = u.read[k]
      BY <3>2, <3>3 DEF ProvidersInv, StillRead
    <3>7. u.fresh \subseteq Provider!Kinds /\ u.provider \in ProviderIds
      BY DEF Provider!UpdateCall
    <3>8. provider'[v.provider] # None /\ \A k \in v.fresh : provider'[v.provider].routes[k] = v.read[k]
      BY <1>7, <3>5, <3>6, <3>7
    <3> QED
      BY <3>4, <3>8 DEF StillRead
  <2>4. ASSUME NEW d \in Admins, Provider!At(d, "adopting")'
        PROVE  d # c /\ Provider!At(d, "adopting") /\ connecting'[d] = connecting[d]
    <3>1. connecting'[d] # None /\ connecting'[d].step = "adopting"
      BY <2>4 DEF Provider!At
    <3>2. d # c /\ connecting[d] # None
      BY <1>6, <1>7, <3>1
    <3>3. ~Provider!At(d, "validated")
      <4>1. \A u \in Provider!UpdateCall : u.step # "adopting"
        BY DEF Provider!UpdateCall
      <4> QED
        BY <1>6, <1>7, <3>1, <4>1
    <3>4. Provider!At(d, "adopting")
      BY <3>2, <3>3, ProviderCalls DEF Provider!At
    <3> QED
      BY <1>6, <1>7, <3>1, <3>2, <3>4
  <2>5. ASSUME NEW d \in Admins, NEW e \in Admins, d # e, Provider!At(d, "adopting")', Provider!At(e, "adopting")',
               connecting'[d].pending \cap connecting'[e].pending # {}
        PROVE  connecting'[d].overlap
    BY <2>4, <2>5 DEF ProvidersInv
  <2>6. Provider!ProvidersTypeOK'
    BY <1>0, <1>7, <2>2 DEF Provider!ProvidersTypeOK
  <2> QED
    BY <1>7, <2>3, <2>4, <2>5, <2>6 DEF ProvidersInv
<1>8. ASSUME NEW c \in Admins, Provider!UpdateEnd(c) PROVE ProvidersInv'
  <2>1. PICK u \in Provider!UpdateCall : u = connecting[c]
    BY <1>8, ProviderCalls DEF Provider!UpdateEnd, Provider!At
  <2>2. PICK p \in ProviderIds : p = u.provider
    BY DEF Provider!UpdateCall
  <2>3. PICK row : row = Provider!Updated(provider[p], u)
    OBVIOUS
  <2>4. CASE provider[p] # None /\ Provider!RoutesFree(p, row.routes)
    <3>1. PICK old \in Provider!Provider : old = provider[p]
      BY <1>0, <2>4
    <3>2. row \in Provider!Provider /\ row.tenant = old.tenant
      BY <2>3, <3>1, UpdatedRow
    <3>3. PICK kinds : kinds = {k \in Provider!Kinds : row.routes[k] # provider[p].routes[k]}
      OBVIOUS
    <3>4. /\ connecting' = Provider!Rewritten(c, {p}, kinds) /\ usable' = usable
          /\ provider' = [provider EXCEPT ![p] = row]
      BY <1>8, <2>1, <2>2, <2>3, <2>4, <3>3 DEF Provider!UpdateEnd, Provider!Exists
    <3>5. provider' \in [ProviderIds -> Rows]
      BY <1>0, <3>2, <3>4
    <3>6. \A q \in ProviderIds : provider[q] # None => provider'[q] # None /\ provider'[q].tenant = provider[q].tenant
      BY <1>0, <3>1, <3>2, <3>4
    <3>7. \A q \in ProviderIds : provider[q] # None => \A k \in Provider!Kinds :
             k \notin kinds \/ q \notin {p} => provider'[q].routes[k] = provider[q].routes[k]
      BY <1>0, <3>3, <3>4
    <3>8. ASSUME NEW d \in Admins, d # c, Provider!At(d, "adopting") PROVE StillPending(connecting[d])'
      <4>1. PICK a \in Provider!AdoptCall : a = connecting[d] /\ StillPending(a) /\ connecting'[d] = a
        BY <3>4, <3>8, ProviderCalls DEF ProvidersInv, Provider!At, Provider!Rewritten
      <4>2. a.pending \subseteq ProviderIds
        BY DEF Provider!AdoptCall
      <4> QED
        BY <3>6, <4>1, <4>2 DEF StillPending
    <3>9. \A q \in ProviderIds : provider[q] # None => provider'[q] # None
      BY <3>6
    <3> HIDE DEF Rows
    <3> QED
      BY <1>7, <3>4, <3>5, <3>7, <3>8, <3>9
  <2>5. CASE ~(provider[p] # None /\ Provider!RoutesFree(p, row.routes))
    BY <1>5, <1>8, <2>1, <2>2, <2>3, <2>5 DEF Provider!UpdateEnd, Provider!Exists
  <2> QED
    BY <2>4, <2>5
<1>9. ASSUME NEW c \in Admins, Provider!AdoptEnd(c) PROVE ProvidersInv'
  <2>1. PICK a \in Provider!AdoptCall : a = connecting[c]
    BY <1>9, ProviderCalls DEF Provider!AdoptEnd, Provider!At
  <2>2. /\ connecting' = Provider!Rewritten(c, a.pending, {"DOMAIN"}) /\ usable' = usable
        /\ DOMAIN provider' = ProviderIds
    BY <1>9, <2>1 DEF Provider!AdoptEnd
  <2>3. ASSUME NEW p \in ProviderIds, p \notin a.pending \/ provider[p] = None PROVE provider'[p] = provider[p]
    BY <1>9, <2>1, <2>3 DEF Provider!AdoptEnd, Provider!Exists
  <2>4. ASSUME NEW p \in ProviderIds, p \in a.pending, provider[p] # None
        PROVE  /\ provider'[p] \in Provider!Provider
               /\ provider'[p].routes["SUBDOMAIN"] = provider[p].routes["SUBDOMAIN"]
    <3>1. PICK old \in Provider!Provider : old = provider[p]
      BY <1>0, <2>4
    <3>2. PICK more : more = old.allowed \ Provider!Taken(p, "DOMAIN")
      OBVIOUS
    <3>3. more \subseteq Names
      BY <3>2 DEF Provider!Provider
    <3>4. PICK routes : routes = [old.routes EXCEPT !["DOMAIN"] = @ \cup more]
      OBVIOUS
    <3>5. old.routes \in [{"DOMAIN", "SUBDOMAIN"} -> SUBSET Names]
      BY DEF Provider!Provider, Provider!Routes, Provider!Kinds
    <3>6. routes \in Provider!Routes /\ routes["SUBDOMAIN"] = old.routes["SUBDOMAIN"]
      BY <3>3, <3>4, <3>5 DEF Provider!Routes, Provider!Kinds
    <3>7. PICK t \in Tenants : t = a.tenant
      BY DEF Provider!AdoptCall
    <3>8. provider'[p] = [old EXCEPT !.tenant = t, !.routes = routes]
      BY <1>9, <2>1, <2>4, <3>1, <3>2, <3>4, <3>7 DEF Provider!AdoptEnd, Provider!Exists, Provider!Provider
    <3>9. PICK new : new = [old EXCEPT !.tenant = t, !.routes = routes]
      OBVIOUS
    <3>10. new \in Provider!Provider /\ new.routes = routes
      BY <3>6, <3>9 DEF Provider!Provider
    <3> QED
      BY <3>1, <3>6, <3>8, <3>9, <3>10
  <2>5. provider' \in [ProviderIds -> Rows]
    <3>1. \A p \in ProviderIds : provider'[p] \in Rows
      BY <1>0, <2>3, <2>4
    <3> QED
      BY <1>9, <2>2, <3>1 DEF Provider!AdoptEnd
  <2>6. ASSUME NEW p \in ProviderIds, provider[p] # None
        PROVE  /\ provider'[p] # None
               /\ \A k \in Provider!Kinds :
                    k \notin {"DOMAIN"} \/ p \notin a.pending => provider'[p].routes[k] = provider[p].routes[k]
    BY <1>0, <2>3, <2>4, <2>6 DEF Provider!Kinds
  <2>7. ASSUME NEW d \in Admins, d # c, Provider!At(d, "adopting") PROVE StillPending(connecting[d])'
    <3>1. PICK b \in Provider!AdoptCall : b = connecting[d] /\ StillPending(b) /\ connecting'[d] = b
      BY <2>2, <2>7, ProviderCalls DEF ProvidersInv, Provider!At, Provider!Rewritten
    <3>2. ASSUME NEW p \in b.pending PROVE provider'[p] # None /\ (provider'[p].tenant = None \/ b.overlap)
      <4>1. p \in ProviderIds /\ provider[p] # None /\ (provider[p].tenant = None \/ b.overlap)
        BY <3>1, <3>2 DEF Provider!AdoptCall, StillPending
      <4>2. CASE p \in a.pending
        BY <1>9, <2>1, <2>6, <2>7, <3>1, <4>1, <4>2 DEF ProvidersInv, Provider!AdoptEnd
      <4>3. CASE p \notin a.pending
        BY <2>3, <4>1, <4>3
      <4> QED
        BY <4>2, <4>3
    <3> QED
      BY <3>1, <3>2 DEF StillPending
  <2> QED
    BY <1>7, <2>2, <2>5, <2>6, <2>7
<1>10. ASSUME NEW c \in Admins, NEW o \in Tenants, Provider!AdoptBegin(c, o) PROVE ProvidersInv'
  <2>1. PICK found \in SUBSET ProviderIds : found = Provider!Pending
    BY DEF Provider!Pending
  <2>2. PICK others : others = {d \in Admins : Provider!At(d, "adopting") /\ connecting[d].pending \cap found # {}}
    OBVIOUS
  <2> PICK r : r = [step |-> "adopting", tenant |-> o, pending |-> found, overlap |-> others # {}]
    OBVIOUS
  <2>3. r \in Provider!AdoptCall /\ r.pending = found /\ r.step = "adopting"
    BY DEF Provider!AdoptCall
  <2>3a. r.overlap <=> others # {}
    OBVIOUS
  <2>4. provider' = provider /\ usable' = usable /\ connecting[c] = None /\ connecting'[c] = r
        /\ DOMAIN connecting' = Admins
    BY <1>10, <2>1, <2>2 DEF Provider!AdoptBegin
  <2>5. ASSUME NEW d \in Admins, d # c
        PROVE  /\ d \notin others => connecting'[d] = connecting[d]
               /\ d \in others => connecting'[d] = [connecting[d] EXCEPT !.overlap = TRUE]
    BY <1>10, <2>1, <2>2, <2>5 DEF Provider!AdoptBegin
  <2>6. ASSUME NEW d \in others
        PROVE  /\ d # c /\ Provider!At(d, "adopting") /\ connecting'[d] \in Provider!AdoptCall
               /\ connecting'[d].pending = connecting[d].pending /\ connecting'[d].overlap = TRUE
    <3>1. PICK b \in Provider!AdoptCall : b = connecting[d] /\ d \in Admins /\ d # c /\ Provider!At(d, "adopting")
      BY <2>2, <2>4, <2>6, ProviderCalls DEF Provider!At
    <3> PICK v : v = [b EXCEPT !.overlap = TRUE]
      OBVIOUS
    <3>2. v \in Provider!AdoptCall /\ v.pending = b.pending /\ v.overlap = TRUE
      BY DEF Provider!AdoptCall
    <3> QED
      BY <2>5, <2>6, <3>1, <3>2
  <2>7. connecting' \in [Admins -> Connecting]
    <3>1. \A d \in Admins : connecting'[d] \in Connecting
      BY <1>0, <2>3, <2>4, <2>5, <2>6
    <3> QED
      BY <1>10, <3>1 DEF Provider!AdoptBegin
  <2>8. ASSUME NEW d \in Admins, Provider!At(d, "validated")' PROVE StillRead(connecting[d])'
    <3>1. connecting'[d] # None /\ connecting'[d].step = "validated"
      BY <2>8 DEF Provider!At
    <3>2. \A v \in Provider!AdoptCall : v.step # "validated"
      BY DEF Provider!AdoptCall
    <3>3. connecting'[d] = connecting[d] /\ StillRead(connecting[d])
      BY <2>3, <2>4, <2>5, <2>6, <3>1, <3>2 DEF ProvidersInv, Provider!At
    <3> QED
      BY <2>4, <3>3 DEF StillRead
  <2>9. ASSUME NEW d \in Admins, Provider!At(d, "adopting")', d # c
        PROVE  /\ Provider!At(d, "adopting") /\ connecting'[d].pending = connecting[d].pending
               /\ connecting[d].overlap => connecting'[d].overlap
               /\ connecting[d].pending \cap found # {} => connecting'[d].overlap /\ d \in others
    BY <2>2, <2>5, <2>6, <2>9 DEF Provider!At
  <2>10. ASSUME NEW d \in Admins, Provider!At(d, "adopting")' PROVE StillPending(connecting[d])'
    <3>1. CASE d = c
      BY <2>1, <2>3, <2>4, <3>1 DEF StillPending, Provider!Pending, Provider!Exists
    <3>2. CASE d # c
      BY <2>4, <2>9, <2>10, <3>2 DEF StillPending, ProvidersInv
    <3> QED
      BY <3>1, <3>2
  <2>11. ASSUME NEW d \in Admins, NEW e \in Admins, d # e, Provider!At(d, "adopting")', Provider!At(e, "adopting")',
                connecting'[d].pending \cap connecting'[e].pending # {}
         PROVE  connecting'[d].overlap
    <3>1. CASE d = c
      BY <2>3, <2>3a, <2>4, <2>9, <2>11, <3>1
    <3>2. CASE e = c
      BY <2>3, <2>4, <2>9, <2>11, <3>2
    <3>3. CASE d # c /\ e # c
      BY <2>9, <2>11, <3>3 DEF ProvidersInv
    <3> QED
      BY <3>1, <3>2, <3>3
  <2>12. Provider!ProvidersTypeOK'
    BY <1>0, <2>4, <2>7 DEF Provider!ProvidersTypeOK
  <2> QED
    BY <2>8, <2>10, <2>11, <2>12 DEF ProvidersInv
<1>11. ASSUME NEW r \in MapRoles, Provider!DeactivateRole(r) PROVE ProvidersInv'
  BY <1>0, <1>4, <1>11 DEF Provider!DeactivateRole
<1>12. CASE UNCHANGED providerVars
  BY <1>0, <1>4, <1>12 DEF providerVars
<1>13. ASSUME NEW c \in Admins, Provider!ProvidersDie(c) PROVE ProvidersInv'
  BY <1>5, <1>13 DEF Provider!ProvidersDie
<1> QED
  BY <1>1, <1>2, <1>3, <1>8, <1>9, <1>10, <1>11, <1>12, <1>13 DEF Provider!ProvidersNext

\* SsoProviders: what a step may not undo.
LEMMA ProvidersStand ==
    ASSUME ProvidersInv, [Provider!ProvidersNext]_providerVars
    PROVE  /\ \A c \in Admins :
                Provider!At(c, "validated") /\ connecting'[c] = None =>
                  LET u == connecting[c]
                      row == provider[u.provider]
                  IN /\ u.active = {} => provider'[u.provider].active = row.active
                     /\ \A k \in u.fresh :
                          u.routes[k] = {} => provider'[u.provider].routes[k] = row.routes[k]
           /\ \A p \in ProviderIds :
                provider[p] # None /\ provider'[p] # None /\ provider'[p].tenant # provider[p].tenant =>
                  \/ provider[p].tenant = None
                  \/ \E c \in Admins : Provider!At(c, "adopting") /\ connecting'[c] = None /\ connecting[c].overlap
<1>0. /\ provider \in [ProviderIds -> Provider!Provider \cup {None}]
      /\ None \notin Provider!Provider /\ None \notin Provider!UpdateCall /\ None \notin Tenants
  BY OrganizationAssumption DEF ProvidersInv, Provider!ProvidersTypeOK, Provider!ProvidersAssumption
<1>1. CASE provider' = provider
  BY <1>1
\* An update's write: of this call, or of another one.
<1>2. ASSUME NEW e \in Admins, Provider!UpdateEnd(e) PROVE
         \/ provider' = provider
         \/ \E u \in Provider!UpdateCall :
              /\ u = connecting[e] /\ StillRead(u)
              /\ provider[u.provider] \in Provider!Provider
              /\ provider' = [provider EXCEPT ![u.provider] = Provider!Updated(provider[u.provider], u)]
  <2>1. PICK u \in Provider!UpdateCall : u = connecting[e] /\ StillRead(u)
    BY <1>2, ProviderCalls DEF ProvidersInv, Provider!UpdateEnd, Provider!At
  <2>2. provider[u.provider] \in Provider!Provider
    BY <1>0, <2>1 DEF StillRead, Provider!UpdateCall
  <2> QED
    BY <1>2, <2>1, <2>2 DEF Provider!UpdateEnd
<1>3. ASSUME NEW c \in Admins, Provider!At(c, "validated"), connecting'[c] = None, provider' # provider
      PROVE  Provider!UpdateEnd(c)
  <2>1. connecting[c] # None /\ connecting[c] \in Provider!UpdateCall
    BY <1>3, ProviderCalls DEF Provider!At
  <2>2. connecting[c].step = "validated" /\ connecting' # connecting
    BY <1>3, <2>1 DEF Provider!At
  <2>3. ASSUME NEW e \in Admins, NEW written, NEW kinds, connecting' = Provider!Rewritten(e, written, kinds)
        PROVE  e = c
    <3>1. PICK u \in Provider!UpdateCall : u = connecting[c]
      BY <2>1
    <3>2. [u EXCEPT !.fresh = @ \ kinds] \in Provider!UpdateCall
      BY DEF Provider!UpdateCall
    <3> QED
      BY <1>0, <1>3, <2>1, <2>3, <3>1, <3>2 DEF Provider!Rewritten
  <2>4. PICK e \in Admins : Provider!UpdateEnd(e) \/ Provider!AdoptEnd(e)
    BY <1>3, <2>2 DEF Provider!ProvidersNext, providerVars, Provider!CreateProvider, Provider!UpdateBegin,
          Provider!DisableProvider, Provider!AdoptBegin, Provider!DeactivateRole, Provider!ProvidersDie
  <2>5. e = c
    <3>1. CASE Provider!AdoptEnd(e)
      BY <2>3, <3>1 DEF Provider!AdoptEnd
    <3>2. CASE Provider!UpdateEnd(e)
      <4>1. PICK w, k : connecting' = Provider!Rewritten(e, w, k)
        BY <1>3, <3>2 DEF Provider!UpdateEnd
      <4> QED
        BY <2>3, <4>1
    <3> QED
      BY <2>4, <3>1, <3>2
  <2> QED
    BY <2>2, <2>4, <2>5 DEF Provider!AdoptEnd, Provider!At
<1>4. ASSUME NEW c \in Admins, Provider!At(c, "validated"), connecting'[c] = None, provider' # provider
      PROVE  LET u == connecting[c]
                 row == provider[u.provider]
             IN /\ u.active = {} => provider'[u.provider].active = row.active
                /\ \A k \in u.fresh : u.routes[k] = {} => provider'[u.provider].routes[k] = row.routes[k]
  <2>1. PICK u \in Provider!UpdateCall :
           /\ u = connecting[c] /\ StillRead(u)
           /\ provider[u.provider] \in Provider!Provider
           /\ provider' = [provider EXCEPT ![u.provider] = Provider!Updated(provider[u.provider], u)]
    BY <1>2, <1>3, <1>4
  <2>2. PICK row \in Provider!Provider : row = provider[u.provider]
    BY <2>1
  <2>3. u.provider \in ProviderIds /\ u.fresh \subseteq Provider!Kinds
    BY DEF Provider!UpdateCall
  <2>4. provider'[u.provider] = Provider!Updated(row, u)
    BY <1>0, <2>1, <2>2, <2>3
  <2>5. /\ u.active = {} => Provider!Updated(row, u).active = row.active
        /\ \A k \in Provider!Kinds : u.routes[k] = {} => Provider!Updated(row, u).routes[k] \in {row.routes[k], u.read[k]}
    BY UpdatedRow
  <2>6. \A k \in u.fresh : row.routes[k] = u.read[k]
    BY <2>1, <2>2 DEF StillRead
  <2> QED
    BY <2>1, <2>2, <2>3, <2>4, <2>5, <2>6
<1>5. ASSUME NEW p \in ProviderIds, provider[p] # None, provider'[p] # None, provider'[p].tenant # provider[p].tenant,
             provider[p].tenant # None
      PROVE  \E c \in Admins : Provider!At(c, "adopting") /\ connecting'[c] = None /\ connecting[c].overlap
  <2>1. PICK old \in Provider!Provider : old = provider[p]
    BY <1>0, <1>5
  <2>2. ASSUME NEW e \in Admins, Provider!UpdateEnd(e) PROVE FALSE
    <3>1. PICK u \in Provider!UpdateCall :
            /\ provider[u.provider] \in Provider!Provider
            /\ provider' = [provider EXCEPT ![u.provider] = Provider!Updated(provider[u.provider], u)]
      BY <1>2, <1>5, <2>2
    <3>2. Provider!Updated(provider[u.provider], u).tenant = provider[u.provider].tenant
      BY <3>1, UpdatedRow
    <3> QED
      BY <1>0, <1>5, <3>1, <3>2
  <2>3. ASSUME NEW q \in ProviderIds, NEW o \in Tenants, Provider!DisableProvider(q, o) PROVE FALSE
    <3>1. PICK row \in Provider!Provider : row = provider[q]
      BY <1>0, <2>3 DEF Provider!DisableProvider, Provider!Exists
    <3> PICK new : new = [row EXCEPT !.active = FALSE]
      OBVIOUS
    <3>2. new.tenant = row.tenant
      BY DEF Provider!Provider
    <3>3. provider' = [provider EXCEPT ![q] = new]
      BY <1>0, <2>3, <3>1 DEF Provider!DisableProvider
    <3> QED
      BY <1>0, <1>5, <3>1, <3>2, <3>3
  <2>4. ASSUME NEW q \in ProviderIds, provider[q] = None, NEW row, provider' = [provider EXCEPT ![q] = row] PROVE FALSE
    BY <1>0, <1>5, <2>4
  <2>5. PICK c \in Admins : Provider!AdoptEnd(c)
    BY <1>5, <2>2, <2>3, <2>4 DEF Provider!ProvidersNext, providerVars, Provider!CreateProvider, Provider!UpdateBegin,
          Provider!AdoptBegin, Provider!DeactivateRole, Provider!ProvidersDie, Provider!Exists
  <2>6. Provider!At(c, "adopting") /\ connecting'[c] = None
    BY <2>5 DEF Provider!AdoptEnd, Provider!Rewritten
  <2>7. p \in connecting[c].pending
    BY <1>5, <2>5 DEF Provider!AdoptEnd
  <2>8. connecting[c].overlap
    BY <1>5, <2>6, <2>7 DEF ProvidersInv, StillPending
  <2> QED
    BY <2>6, <2>8
<1> QED
  BY <1>1, <1>4, <1>5

-----------------------------------------------------------------------------
(* Workspaces, as Workspace.                                               *)

\* The selections of a workspace fit together.
Fits(w, td) ==
    /\ w.default \in w.output \cup {None}
    /\ w.domains # {} => \A t \in w.topics : td[t] \cap w.domains # {}

\* Workspace w after the writes of an update.
Written(w, r) ==
    [w EXCEPT !.default = IF "default" \in r.given /\ ~w.archived THEN r.next.default ELSE @,
              !.output = IF "output" \in r.given THEN r.next.output ELSE @,
              !.domains = IF "domains" \in r.given THEN r.next.domains ELSE @,
              !.topics = IF "topics" \in r.given THEN r.next.topics ELSE @]

\* What a call that is not stale has validated still fits.
StillFits(r) ==
    /\ r.kind = "create" => workspace = None /\ Fits(r.next, topicDomains)
    /\ r.kind = "update" => Fits(Written(workspace, r), topicDomains)
    /\ r.kind = "topic" =>
         (workspace # None /\ r.topic \in workspace.topics /\ workspace.domains # {} =>
            workspace.domains \cap r.next # {})

\* The inductive invariant.
WorkspaceInv ==
    /\ Workspace!WorkspaceTypeOK /\ raced \in BOOLEAN
    /\ \A c \in Admins : Workspace!Is(c, "update") =>
         workspace # None /\ (workspace.archived => editing[c].archived)
    /\ ~raced /\ workspace # None => Fits(workspace, topicDomains)
    /\ ~raced => \A c \in Admins : editing[c] # None /\ ~editing[c].stale => StillFits(editing[c])

\* Workspaces: the calls of a workspace and of the catalogue.
EditCall == [kind : {"create", "update"}, given : SUBSET Workspace!Fields, next : Workspace!WorkspaceRow,
             stale : BOOLEAN, archived : BOOLEAN]
TopicCall == [kind : {"topic"}, topic : Topics, next : SUBSET Domains, stale : BOOLEAN]

\* Workspaces: a call is of the kind it says.
LEMMA EditingCalls ==
    ASSUME WorkspaceInv, NEW c \in Admins, editing[c] # None
    PROVE  /\ editing[c].kind \in {"create", "update", "topic"}
           /\ editing[c].kind = "topic" => editing[c] \in TopicCall
           /\ editing[c].kind \in {"create", "update"} => editing[c] \in EditCall
<1>1. editing[c] \in EditCall \cup TopicCall
  BY DEF WorkspaceInv, Workspace!WorkspaceTypeOK, Workspace!Call, EditCall, TopicCall
<1> PICK r : r = editing[c]
  OBVIOUS
<1>2. r \in EditCall => r.kind \in {"create", "update"}
  BY DEF EditCall
<1>3. r \in TopicCall => r.kind = "topic"
  BY DEF TopicCall
<1> QED
  BY <1>1, <1>2, <1>3

\* Workspaces: what a body gives is written, and what has been validated fits.
LEMMA GivenIsWritten ==
    ASSUME NEW w \in Workspace!WorkspaceRow, NEW given \in Workspace!Bodies, NEW next \in Workspace!Edits(w, given),
           Workspace!Validated(w, next, given), Fits(w, topicDomains), ~w.archived,
           NEW r, r.given = given, r.next = Workspace!Given(next, given)
    PROVE  Written(w, r) = next /\ Fits(next, topicDomains)
<1>1. /\ next \in Workspace!WorkspaceRow /\ next.archived = w.archived
      /\ "default" \notin given => next.default = w.default
      /\ "output" \notin given => next.output = w.output
      /\ "domains" \notin given => next.domains = w.domains
      /\ "topics" \notin given => next.topics = w.topics
  BY DEF Workspace!Edits, Workspace!WorkspaceRow
<1>2. DOMAIN next = {"archived", "default", "output", "domains", "topics"}
  BY <1>1 DEF Workspace!WorkspaceRow
<1>3. /\ "default" \in given => r.next.default = next.default
      /\ "output" \in given => r.next.output = next.output
      /\ "domains" \in given => r.next.domains = next.domains
      /\ "topics" \in given => r.next.topics = next.topics
  BY <1>2 DEF Workspace!Given
<1>4. Fits(next, topicDomains)
  <2>1. next.default \in next.output \cup {None}
    BY DEF Workspace!Validated
  <2>2. CASE given \cap {"domains", "topics"} # {}
    BY <2>1, <2>2 DEF Workspace!Validated, Workspace!TopicsValidated, Fits
  <2>3. CASE given \cap {"domains", "topics"} = {}
    BY <1>1, <2>1, <2>3 DEF Fits
  <2> QED
    BY <2>2, <2>3
<1>5. Written(w, r) = next
  <2> PICK v : v = Written(w, r)
    OBVIOUS
  <2>1. v \in Workspace!WorkspaceRow /\ v.archived = next.archived /\ v.default = next.default
        /\ v.output = next.output /\ v.domains = next.domains /\ v.topics = next.topics
    BY <1>1, <1>3 DEF Written, Workspace!WorkspaceRow
  <2> QED
    BY <1>1, <2>1 DEF Workspace!WorkspaceRow
<1> QED
  BY <1>4, <1>5

\* Workspaces: what a body gives is a row, which is what is created.
LEMMA GivenIsRow ==
    ASSUME NEW w \in Workspace!WorkspaceRow, NEW given \in Workspace!Bodies, NEW next \in Workspace!Edits(w, given)
    PROVE  /\ Workspace!Given(next, given) \in Workspace!WorkspaceRow
           /\ w = Workspace!NoLinks => Workspace!Given(next, given) = next
<1>1. /\ next \in Workspace!WorkspaceRow /\ next.archived = w.archived
      /\ "default" \notin given => next.default = w.default
      /\ "output" \notin given => next.output = w.output
      /\ "domains" \notin given => next.domains = w.domains
      /\ "topics" \notin given => next.topics = w.topics
  BY DEF Workspace!Edits, Workspace!WorkspaceRow
<1>2. PICK g : g = Workspace!Given(next, given)
  OBVIOUS
<1>3. "archived" \notin given
  BY DEF Workspace!Bodies
<1>4. g = [archived |-> FALSE,
           default |-> IF "default" \in given THEN next.default ELSE None,
           output |-> IF "output" \in given THEN next.output ELSE {},
           domains |-> IF "domains" \in given THEN next.domains ELSE {},
           topics |-> IF "topics" \in given THEN next.topics ELSE {}]
  BY <1>1, <1>2, <1>3 DEF Workspace!Given, Workspace!WorkspaceRow, Workspace!NoLinks
<1>5. g \in Workspace!WorkspaceRow
  BY <1>1, <1>4 DEF Workspace!WorkspaceRow
<1>6. ASSUME w = Workspace!NoLinks PROVE g = next
  <2>1. g.archived = next.archived /\ g.default = next.default /\ g.output = next.output
        /\ g.domains = next.domains /\ g.topics = next.topics
    BY <1>1, <1>4, <1>6 DEF Workspace!NoLinks
  <2> QED
    BY <1>1, <1>5, <2>1 DEF Workspace!WorkspaceRow
<1> QED
  BY <1>2, <1>5, <1>6

\* Workspaces: there is none at first.
LEMMA WorkspaceStart == Workspace!WorkspaceInit => WorkspaceInv
<1> SUFFICES ASSUME Workspace!WorkspaceInit PROVE WorkspaceInv
  OBVIOUS
<1>1. workspace = None /\ raced = FALSE /\ \A c \in Admins : editing[c] = None
  BY DEF Workspace!WorkspaceInit
<1>2. Workspace!WorkspaceTypeOK
  BY DEF Workspace!WorkspaceInit, Workspace!WorkspaceTypeOK
<1> QED
  BY <1>1, <1>2 DEF WorkspaceInv, Workspace!Is

\* Workspaces: a call begins or ends, and nothing it reads is written.
LEMMA WorkspaceReads ==
    ASSUME WorkspaceInv, UNCHANGED <<workspace, topicDomains, raced>>,
           inactive' \subseteq Languages \cup Domains \cup Topics,
           editing' \in [Admins -> EditCall \cup TopicCall \cup {None}],
           \A c \in Admins :
              \/ editing'[c] = None \/ editing'[c] = editing[c]
              \/ /\ editing'[c].kind = "update" =>
                       workspace # None /\ (workspace.archived => editing'[c].archived)
                 /\ ~raced => StillFits(editing'[c])
    PROVE  WorkspaceInv'
<1>1. Workspace!WorkspaceTypeOK'
  BY DEF WorkspaceInv, Workspace!WorkspaceTypeOK, Workspace!Call, EditCall, TopicCall
<1>2. ASSUME NEW c \in Admins, Workspace!Is(c, "update")'
      PROVE  workspace' # None /\ (workspace'.archived => editing'[c].archived)
  BY <1>2 DEF WorkspaceInv, Workspace!Is
<1>3. ASSUME ~raced', NEW c \in Admins, editing'[c] # None, ~editing'[c].stale PROVE StillFits(editing[c])'
  <2>1. StillFits(editing'[c])
    BY <1>3 DEF WorkspaceInv
  <2> QED
    BY <2>1 DEF StillFits, Fits, Written
<1>4. raced' \in BOOLEAN /\ (~raced' /\ workspace' # None => Fits(workspace, topicDomains)')
  BY DEF WorkspaceInv, Fits
<1> QED
  BY <1>1, <1>2, <1>3, <1>4 DEF WorkspaceInv

\* Workspaces: a call, or the archiving, writes, and what others have read is
\* outdated.
LEMMA WorkspaceWrites ==
    ASSUME WorkspaceInv, NEW c, NEW archived \in BOOLEAN, Workspace!Outdate(c, archived),
           workspace' \in Workspace!WorkspaceRow \cup {None}, UNCHANGED inactive,
           topicDomains' \in [Topics -> SUBSET Domains], raced' \in BOOLEAN, raced => raced',
           workspace # None =>
             workspace' # None /\ (workspace'.archived => workspace.archived \/ archived),
           ~raced' /\ workspace' # None => Fits(workspace', topicDomains')
    PROVE  WorkspaceInv'
<1>1. ASSUME NEW d \in Admins, editing'[d] # None
      PROVE  /\ editing[d] # None /\ editing'[d].kind = editing[d].kind /\ editing'[d].stale = TRUE
             /\ editing[d].kind = "topic" => editing'[d] \in TopicCall
             /\ editing[d].kind # "topic" =>
                  /\ editing'[d] \in EditCall
                  /\ editing[d].archived \/ archived => editing'[d].archived
  <2>1. editing[d] # None
    BY <1>1 DEF Workspace!Outdate
  <2>2. CASE editing[d].kind = "topic"
    <3>1. PICK r \in TopicCall : r = editing[d] /\ r.kind = "topic"
      BY <2>1, <2>2, EditingCalls
    <3> PICK s : s = [r EXCEPT !.stale = TRUE]
      OBVIOUS
    <3>2. s \in TopicCall /\ s.kind = r.kind /\ s.stale = TRUE
      BY DEF TopicCall
    <3>3. editing'[d] = s
      BY <1>1, <3>1 DEF Workspace!Outdate
    <3> QED
      BY <2>1, <3>1, <3>2, <3>3
  <2>3. CASE editing[d].kind # "topic"
    <3>1. PICK r \in EditCall : r = editing[d] /\ r.kind # "topic"
      BY <2>1, <2>3, EditingCalls
    <3>2. PICK b \in BOOLEAN : b <=> (r.archived \/ archived)
      OBVIOUS
    <3>3. b = (r.archived \/ archived)
      BY <3>2 DEF EditCall
    <3> PICK s : s = [r EXCEPT !.stale = TRUE, !.archived = b]
      OBVIOUS
    <3>4. s \in EditCall /\ s.kind = r.kind /\ s.stale = TRUE /\ s.archived = b
      BY DEF EditCall
    <3>5. editing'[d] = [r EXCEPT !.stale = TRUE, !.archived = r.archived \/ archived]
      BY <1>1, <3>1 DEF Workspace!Outdate, EditCall
    <3>6. editing'[d] = s
      BY <3>3, <3>5, Zenon
    <3> QED
      BY <2>1, <3>1, <3>2, <3>4, <3>6
  <2> QED
    BY <2>2, <2>3
<1>2. editing' \in [Admins -> EditCall \cup TopicCall \cup {None}]
  BY <1>1 DEF Workspace!Outdate
<1>3. Workspace!WorkspaceTypeOK'
  BY <1>2 DEF WorkspaceInv, Workspace!WorkspaceTypeOK, Workspace!Call, EditCall, TopicCall
<1>4. ASSUME NEW d \in Admins, Workspace!Is(d, "update")'
      PROVE  workspace' # None /\ (workspace'.archived => editing'[d].archived)
  <2>1. Workspace!Is(d, "update") /\ editing'[d] # None
    BY <1>1, <1>4 DEF Workspace!Is
  <2> QED
    BY <1>1, <2>1 DEF Workspace!Is, WorkspaceInv
<1>5. ~raced' /\ workspace' # None => Fits(workspace, topicDomains)'
  BY DEF Fits
<1> QED
  BY <1>1, <1>3, <1>4, <1>5 DEF WorkspaceInv

\* Workspaces: each of its actions.
LEMMA WorkspaceStep == WorkspaceInv /\ [Workspace!WorkspaceNext]_workspaceVars => WorkspaceInv'
<1> SUFFICES ASSUME WorkspaceInv, [Workspace!WorkspaceNext]_workspaceVars PROVE WorkspaceInv'
  OBVIOUS
<1> DEFINE Editing == EditCall \cup TopicCall \cup {None}
<1>0. /\ workspace \in Workspace!WorkspaceRow \cup {None}
      /\ inactive \subseteq Languages \cup Domains \cup Topics
      /\ topicDomains \in [Topics -> SUBSET Domains] /\ editing \in [Admins -> Editing]
      /\ raced \in BOOLEAN /\ None \notin Workspace!WorkspaceRow
  BY OrganizationAssumption DEF WorkspaceInv, Workspace!WorkspaceTypeOK, Workspace!WorkspacesAssumption,
     Workspace!Call, EditCall, TopicCall
\* A request is read and validated.
<1>1. ASSUME NEW c \in Admins, NEW kind \in {"create", "update"}, NEW w \in Workspace!WorkspaceRow, ~w.archived,
             Workspace!Begin(c, kind, w),
             kind = "create" => w = Workspace!NoLinks /\ workspace = None,
             kind = "update" => w = workspace,
             UNCHANGED <<workspace, inactive, topicDomains, raced>>
      PROVE  WorkspaceInv'
  <2>1. PICK given \in Workspace!Bodies : \E next \in Workspace!Edits(w, given) :
          /\ Workspace!Validated(w, next, given)
          /\ editing' = [editing EXCEPT ![c] = [kind |-> kind, given |-> given, next |-> Workspace!Given(next, given),
                                                stale |-> FALSE, archived |-> FALSE]]
    BY <1>1 DEF Workspace!Begin
  <2>2. PICK next \in Workspace!Edits(w, given) :
          /\ Workspace!Validated(w, next, given)
          /\ editing' = [editing EXCEPT ![c] = [kind |-> kind, given |-> given, next |-> Workspace!Given(next, given),
                                                stale |-> FALSE, archived |-> FALSE]]
    BY <2>1
  <2>3. PICK g : g = Workspace!Given(next, given)
    OBVIOUS
  <2> PICK r : r = [kind |-> kind, given |-> given, next |-> g, stale |-> FALSE, archived |-> FALSE]
    OBVIOUS
  <2>4. given \in SUBSET Workspace!Fields
    BY DEF Workspace!Bodies, Workspace!Fields
  <2>5. g \in Workspace!WorkspaceRow /\ (kind = "create" => g = next)
    BY <1>1, <2>3, GivenIsRow
  <2>6. r \in EditCall /\ r.kind = kind /\ r.given = given /\ r.next = g
    BY <2>4, <2>5 DEF EditCall
  <2>7. editing' = [editing EXCEPT ![c] = r]
    BY <2>2, <2>3
  <2>8. ASSUME ~raced PROVE Fits(w, topicDomains)
    <3>1. CASE kind = "create"
      BY <1>1, <3>1 DEF Fits, Workspace!NoLinks
    <3>2. CASE kind = "update"
      BY <1>0, <1>1, <2>8, <3>2 DEF WorkspaceInv
    <3> QED
      BY <3>1, <3>2
  <2>9. ASSUME ~raced PROVE StillFits(r)
    <3>1. Written(w, r) = next /\ Fits(next, topicDomains)
      BY <1>1, <2>2, <2>3, <2>6, <2>8, <2>9, GivenIsWritten
    <3> QED
      BY <1>1, <2>5, <2>6, <3>1 DEF StillFits
  <2>10. kind = "update" => workspace # None /\ ~workspace.archived
    BY <1>0, <1>1
  <2>11. editing' \in [Admins -> Editing] /\ editing'[c] = r /\ \A d \in Admins : d # c => editing'[d] = editing[d]
    BY <1>0, <2>6, <2>7
  <2> HIDE DEF Editing
  <2> QED
    BY <1>0, <1>1, <2>6, <2>9, <2>10, <2>11, WorkspaceReads DEF Editing
<1>2. ASSUME NEW c \in Admins, Workspace!CreateRead(c) PROVE WorkspaceInv'
  <2>1. Workspace!NoLinks \in Workspace!WorkspaceRow /\ ~Workspace!NoLinks.archived
    BY DEF Workspace!NoLinks, Workspace!WorkspaceRow
  <2> QED
    BY <1>1, <1>2, <2>1 DEF Workspace!CreateRead
<1>3. ASSUME NEW c \in Admins, Workspace!UpdateRead(c) PROVE WorkspaceInv'
  BY <1>0, <1>1, <1>3 DEF Workspace!UpdateRead
<1>4. ASSUME NEW c \in Admins, UNCHANGED <<workspace, topicDomains, raced>>, UNCHANGED inactive,
             editing' = [editing EXCEPT ![c] = None]
      PROVE  WorkspaceInv'
  <2>1. editing' \in [Admins -> Editing] /\ \A d \in Admins : editing'[d] = None \/ editing'[d] = editing[d]
    BY <1>0, <1>4
  <2> HIDE DEF Editing
  <2> QED
    BY <1>0, <1>4, <2>1, WorkspaceReads DEF Editing
<1>5. ASSUME NEW c \in Admins, Workspace!CreateWrite(c) PROVE WorkspaceInv'
  <2>1. PICK r \in EditCall : r = editing[c] /\ r.kind = "create" /\ editing[c] # None
    BY <1>5, EditingCalls DEF Workspace!CreateWrite, Workspace!Is
  <2>2. CASE workspace = None
    <3>1. r.next \in Workspace!WorkspaceRow /\ r.stale \in BOOLEAN
      BY DEF EditCall
    <3>2. workspace' = r.next /\ raced' = (raced \/ r.stale) /\ topicDomains' = topicDomains /\ UNCHANGED inactive
          /\ Workspace!Outdate(c, FALSE)
      BY <1>5, <2>1, <2>2 DEF Workspace!CreateWrite
    <3>3. raced' \in BOOLEAN /\ (raced => raced') /\ (~raced' => ~raced /\ ~r.stale)
      BY <1>0, <3>1, <3>2
    <3>4. ~raced' => Fits(r.next, topicDomains)
      BY <2>1, <3>3 DEF WorkspaceInv, StillFits
    <3> QED
      BY <1>0, <2>2, <3>1, <3>2, <3>3, <3>4, WorkspaceWrites
  <2>3. CASE workspace # None
    BY <1>4, <1>5, <2>3 DEF Workspace!CreateWrite
  <2> QED
    BY <2>2, <2>3
<1>6. ASSUME NEW c \in Admins, Workspace!UpdateWrite(c) PROVE WorkspaceInv'
  <2>1. PICK r \in EditCall : r = editing[c] /\ r.kind = "update" /\ editing[c] # None /\ workspace # None
    BY <1>6, EditingCalls DEF Workspace!UpdateWrite, Workspace!Is, WorkspaceInv
  <2>2. PICK w \in Workspace!WorkspaceRow : w = workspace
    BY <1>0, <2>1
  <2>3. r.next \in Workspace!WorkspaceRow /\ r.stale \in BOOLEAN
    BY DEF EditCall
  <2>4. workspace' = Written(w, r) /\ raced' = (raced \/ r.stale) /\ topicDomains' = topicDomains /\ UNCHANGED inactive
        /\ Workspace!Outdate(c, FALSE)
    BY <1>6, <2>1, <2>2 DEF Workspace!UpdateWrite, Written
  <2>5. Written(w, r) \in Workspace!WorkspaceRow /\ Written(w, r).archived = w.archived
    BY <2>3 DEF Written, Workspace!WorkspaceRow
  <2>6. raced' \in BOOLEAN /\ (raced => raced') /\ (~raced' => ~raced /\ ~r.stale)
    BY <1>0, <2>3, <2>4
  <2>7. ~raced' => Fits(Written(w, r), topicDomains)
    BY <2>1, <2>2, <2>6 DEF WorkspaceInv, StillFits
  <2> QED
    BY <1>0, <2>1, <2>2, <2>4, <2>5, <2>6, <2>7, WorkspaceWrites
<1>7. ASSUME Workspace!Archive PROVE WorkspaceInv'
  <2>1. PICK w \in Workspace!WorkspaceRow : w = workspace /\ ~w.archived
    BY <1>0, <1>7 DEF Workspace!Archive
  <2> PICK v : v = [w EXCEPT !.archived = TRUE]
    OBVIOUS
  <2>2. v \in Workspace!WorkspaceRow /\ v.default = w.default /\ v.output = w.output /\ v.domains = w.domains
        /\ v.topics = w.topics
    BY DEF Workspace!WorkspaceRow
  <2>3. workspace' = v /\ UNCHANGED <<inactive, topicDomains, raced>> /\ Workspace!Outdate(None, TRUE)
    BY <1>7, <2>1 DEF Workspace!Archive
  <2>4. ~raced' => Fits(v, topicDomains)
    BY <1>0, <2>1, <2>2, <2>3 DEF WorkspaceInv, Fits
  <2> QED
    BY <1>0, <2>2, <2>3, <2>4, WorkspaceWrites
<1>8. ASSUME NEW x \in Languages \cup Domains \cup Topics, Workspace!SetActive(x) PROVE WorkspaceInv'
  BY <1>0, <1>8, WorkspaceReads DEF Workspace!SetActive
<1>9. ASSUME NEW c \in Admins, NEW t \in Topics, Workspace!TopicRead(c, t) PROVE WorkspaceInv'
  <2>1. PICK next \in SUBSET Domains :
          /\ workspace # None /\ t \in workspace.topics /\ workspace.domains # {} =>
               workspace.domains \cap next # {}
          /\ editing' = [editing EXCEPT ![c] = [kind |-> "topic", topic |-> t, next |-> next, stale |-> FALSE]]
    BY <1>9 DEF Workspace!TopicRead
  <2> PICK r : r = [kind |-> "topic", topic |-> t, next |-> next, stale |-> FALSE]
    OBVIOUS
  <2>2. r \in TopicCall /\ r.kind = "topic" /\ r.topic = t /\ r.next = next
    BY DEF TopicCall
  <2>3. StillFits(r)
    BY <2>1, <2>2 DEF StillFits
  <2>4. editing' \in [Admins -> Editing] /\ editing'[c] = r /\ \A d \in Admins : d # c => editing'[d] = editing[d]
    BY <1>0, <2>1, <2>2
  <2>5. UNCHANGED <<workspace, inactive, topicDomains, raced>>
    BY <1>9 DEF Workspace!TopicRead
  <2> HIDE DEF Editing
  <2> QED
    BY <1>0, <2>2, <2>3, <2>4, <2>5, WorkspaceReads DEF Editing
<1>10. ASSUME NEW c \in Admins, Workspace!TopicWrite(c) PROVE WorkspaceInv'
  <2>1. PICK r \in TopicCall : r = editing[c] /\ r.kind = "topic" /\ editing[c] # None
    BY <1>10, EditingCalls DEF Workspace!TopicWrite, Workspace!Is
  <2>2. r.topic \in Topics /\ r.next \in SUBSET Domains /\ r.stale \in BOOLEAN
    BY DEF TopicCall
  <2>3. /\ topicDomains' = [topicDomains EXCEPT ![r.topic] = r.next] /\ raced' = (raced \/ r.stale)
        /\ UNCHANGED <<workspace, inactive>> /\ Workspace!Outdate(c, FALSE)
    BY <1>10, <2>1 DEF Workspace!TopicWrite
  <2>4. raced' \in BOOLEAN /\ (raced => raced') /\ (~raced' => ~raced /\ ~r.stale)
    BY <1>0, <2>2, <2>3
  <2>5. ASSUME ~raced', workspace # None PROVE Fits(workspace, topicDomains')
    <3>1. Fits(workspace, topicDomains) /\ StillFits(r)
      BY <2>1, <2>4, <2>5 DEF WorkspaceInv
    <3>2. workspace.topics \subseteq Topics
      BY <1>0, <2>5 DEF Workspace!WorkspaceRow
    <3>3. \A t \in Topics : topicDomains'[t] = IF t = r.topic THEN r.next ELSE topicDomains[t]
      BY <1>0, <2>3
    <3> QED
      BY <2>1, <2>5, <3>1, <3>2, <3>3 DEF Fits, StillFits
  <2>6. topicDomains' \in [Topics -> SUBSET Domains]
    BY <1>0, <2>2, <2>3
  <2> QED
    BY <1>0, <2>3, <2>4, <2>5, <2>6, WorkspaceWrites
<1>11. ASSUME NEW c \in Admins, Workspace!Rollback(c) PROVE WorkspaceInv'
  BY <1>4, <1>11 DEF Workspace!Rollback
<1>12. CASE UNCHANGED workspaceVars
  BY <1>0, <1>12, WorkspaceReads DEF workspaceVars
<1> QED
  BY <1>2, <1>3, <1>5, <1>6, <1>7, <1>8, <1>9, <1>10, <1>11, <1>12 DEF Workspace!WorkspaceNext

\* Workspaces: an archived workspace is written by an update that outlived the
\* archiving only.
LEMMA ArchivedStep ==
    ASSUME WorkspaceInv, [Workspace!WorkspaceNext]_workspaceVars,
           workspace # None, workspace.archived, workspace' # workspace
    PROVE  \E c \in Admins : Workspace!Is(c, "update") /\ editing[c].archived
<1>1. PICK c \in Admins : Workspace!UpdateWrite(c)
  BY DEF Workspace!WorkspaceNext, workspaceVars, Workspace!Archive, Workspace!CreateRead, Workspace!CreateWrite,
     Workspace!UpdateRead, Workspace!TopicWrite, Workspace!Rollback, Workspace!TopicRead, Workspace!SetActive
<1> QED
  BY <1>1 DEF Workspace!UpdateWrite, WorkspaceInv

-----------------------------------------------------------------------------
(* AuditTrail, as Trail.                                                   *)

\* The rows of log l that record event e of user u.
Events(l, e, u) == {i \in 1..Len(l) : l[i].event = e /\ l[i].about = u}
Balanced(l, to) ==
    \A u \in Founders :
      Cardinality(Events(l, "granted", u)) - Cardinality(Events(l, "revoked", u)) = IF u \in to THEN 1 ELSE 0
Copies == [scope : Trail!Scopes \cup {None}, done : BOOLEAN]

\* The inductive invariant: it holds of the log at every step that grants and
\* revocations balance.
TrailInv ==
    /\ isActive \in [Founders -> BOOLEAN] /\ authority \subseteq Founders
    /\ log \in Seq(Trail!Row) /\ Len(log) <= MaxRows
    /\ archive \in Seq(Copies) /\ Len(archive) = Len(log)
    /\ granting \in [Admins -> Founders \cup {None}]
    /\ Trail!TrailMatchesAuthority

\* AuditTrail: a row is added to those that are there.
LEMMA EventsAppend ==
    ASSUME NEW l \in Seq(Trail!Row), NEW row \in Trail!Row, NEW e, NEW u
    PROVE  Events(Append(l, row), e, u) =
             IF row.event = e /\ row.about = u THEN Events(l, e, u) \cup {Len(l) + 1} ELSE Events(l, e, u)
<1>1. Len(l) \in Nat /\ Len(Append(l, row)) = Len(l) + 1
  OBVIOUS
<1>2. Append(l, row)[Len(l) + 1] = row /\ \A i \in 1..Len(l) : Append(l, row)[i] = l[i]
  OBVIOUS
<1>3. PICK n \in Nat : n = Len(l)
  BY <1>1
<1>4. PICK m : m = Append(l, row)
  OBVIOUS
<1>5. \A i : i \in 1..n + 1 <=> i \in 1..n \/ i = n + 1
  BY <1>3
<1>6. m[n + 1] = row /\ \A i \in 1..n : m[i] = l[i]
  BY <1>2, <1>3, <1>4
<1>7. Events(m, e, u) = {i \in 1..n + 1 : m[i].event = e /\ m[i].about = u}
  BY <1>1, <1>3, <1>4 DEF Events
<1>8. Events(l, e, u) = {i \in 1..n : l[i].event = e /\ l[i].about = u}
  BY <1>3 DEF Events
<1>9. ASSUME NEW i
      PROVE  i \in Events(m, e, u) <=> (i \in Events(l, e, u) \/ (i = n + 1 /\ row.event = e /\ row.about = u))
  BY <1>5, <1>6, <1>7, <1>8
<1> QED
  <2>1. CASE row.event = e /\ row.about = u
    BY <1>3, <1>4, <1>9, <2>1
  <2>2. CASE ~(row.event = e /\ row.about = u)
    BY <1>3, <1>4, <1>9, <2>2
  <2> QED
    BY <2>1, <2>2

\* AuditTrail: there are finitely many events, one more after the row of one.
LEMMA EventsCount ==
    ASSUME NEW l \in Seq(Trail!Row), NEW row \in Trail!Row, NEW e, NEW u
    PROVE  /\ Cardinality(Events(l, e, u)) \in Nat
           /\ Cardinality(Events(Append(l, row), e, u)) =
                Cardinality(Events(l, e, u)) + (IF row.event = e /\ row.about = u THEN 1 ELSE 0)
<1>1. Len(l) \in Nat
  OBVIOUS
<1>2. IsFiniteSet(1..Len(l))
  BY <1>1, FS_Interval
<1>3. Events(l, e, u) \subseteq 1..Len(l)
  BY DEF Events
<1>4. IsFiniteSet(Events(l, e, u))
  BY <1>2, <1>3, FS_Subset
<1>5. Cardinality(Events(l, e, u)) \in Nat
  BY <1>4, FS_CardinalityType
<1>6. Len(l) + 1 \notin Events(l, e, u)
  BY <1>1, <1>3
<1>7. Cardinality(Events(l, e, u) \cup {Len(l) + 1}) = Cardinality(Events(l, e, u)) + 1
  BY <1>4, <1>6, FS_AddElement
<1>8. CASE row.event = e /\ row.about = u
  <2>1. Events(Append(l, row), e, u) = Events(l, e, u) \cup {Len(l) + 1}
    BY <1>8, EventsAppend
  <2> QED
    BY <1>5, <1>7, <1>8, <2>1
<1>9. CASE ~(row.event = e /\ row.about = u)
  <2>1. Events(Append(l, row), e, u) = Events(l, e, u)
    BY <1>9, EventsAppend
  <2> QED
    BY <1>5, <1>9, <2>1
<1> QED
  BY <1>8, <1>9

\* AuditTrail: the log accounts for the authorities, before and after a step.
LEMMA Balance ==
    /\ Trail!TrailMatchesAuthority <=> Balanced(log, authority)
    /\ Trail!TrailMatchesAuthority' <=> Balanced(log', authority')
<1>1. \A S : Trail!Cardinality(S) = Cardinality(S)
  BY DEF Trail!Cardinality, Cardinality
<1>2. \A e, u : Trail!Events(e, u) = Events(log, e, u) /\ Trail!Events(e, u)' = Events(log', e, u)
  BY DEF Trail!Events, Events
<1>3. Trail!TrailMatchesAuthority <=> Balanced(log, authority)
  BY <1>1, <1>2 DEF Trail!TrailMatchesAuthority, Balanced
<1>4. Trail!TrailMatchesAuthority' <=> Balanced(log', authority')
  BY <1>1, <1>2 DEF Trail!TrailMatchesAuthority, Balanced
<1> QED
  BY <1>3, <1>4

\* AuditTrail: the log is empty at first, and nobody has authority.
LEMMA TrailStart == Trail!TrailInit => TrailInv
<1> SUFFICES ASSUME Trail!TrailInit PROVE TrailInv
  OBVIOUS
<1>1. log = <<>> /\ archive = <<>> /\ authority = {}
  BY DEF Trail!TrailInit
<1>2. \A e, u : Events(log, e, u) = {}
  BY <1>1 DEF Events
<1>3. Cardinality({}) = 0
  BY FS_EmptySet
<1>4. Balanced(log, authority)
  <2>1. \A e, u : Cardinality(Events(log, e, u)) = 0
    BY <1>2, <1>3
  <2> QED
    BY <1>1, <2>1 DEF Balanced
<1>5. Len(log) = 0 /\ Len(archive) = 0 /\ MaxRows \in Nat
  BY <1>1, OrganizationAssumption DEF Trail!TrailAssumption
<1> QED
  BY <1>1, <1>4, <1>5, Balance DEF TrailInv, Trail!TrailInit

\* AuditTrail: the invariant implies the types.
LEMMA TrailTypes == TrailInv => Trail!TrailTypeOK
<1> SUFFICES ASSUME TrailInv PROVE Trail!TrailTypeOK
  OBVIOUS
<1>1. Len(log) \in Nat /\ MaxRows \in Nat /\ \A i \in 1..Len(log) : log[i] \in Trail!Row
  BY OrganizationAssumption DEF Trail!TrailAssumption, TrailInv
<1> QED
  BY <1>1 DEF TrailInv, Trail!TrailTypeOK

\* AuditTrail: a row is recorded, and the authorities follow it.
LEMMA RowRecorded ==
    ASSUME TrailInv, NEW row \in Trail!Row, Len(log) < MaxRows, Trail!Append1(row),
           isActive' \in [Founders -> BOOLEAN], granting' \in [Admins -> Founders \cup {None}],
           authority' \subseteq Founders,
           \A u \in Founders :
             (IF u \in authority' THEN 1 ELSE 0) =
                (IF u \in authority THEN 1 ELSE 0)
                + (IF row.event = "granted" /\ row.about = u THEN 1 ELSE 0)
                - (IF row.event = "revoked" /\ row.about = u THEN 1 ELSE 0)
    PROVE  TrailInv'
<1>1. log' = Append(log, row) /\ archive' = Append(archive, Trail!Unarchived)
  BY DEF Trail!Append1
<1>2. Trail!Unarchived \in Copies
  BY DEF Trail!Unarchived, Copies
<1>3. log \in Seq(Trail!Row) /\ archive \in Seq(Copies) /\ Len(archive) = Len(log) /\ MaxRows \in Nat
  BY OrganizationAssumption DEF TrailInv, Trail!TrailAssumption
<1>4. log' \in Seq(Trail!Row) /\ Len(log') = Len(log) + 1 /\ archive' \in Seq(Copies) /\ Len(archive') = Len(log) + 1
  BY <1>1, <1>2, <1>3
<1>5. ASSUME NEW u \in Founders
      PROVE  Cardinality(Events(log', "granted", u)) - Cardinality(Events(log', "revoked", u))
               = IF u \in authority' THEN 1 ELSE 0
  <2>1. /\ Cardinality(Events(log, "granted", u)) \in Nat
        /\ Cardinality(Events(log', "granted", u)) =
             Cardinality(Events(log, "granted", u)) + (IF row.event = "granted" /\ row.about = u THEN 1 ELSE 0)
    BY <1>1, <1>3, EventsCount
  <2>2. /\ Cardinality(Events(log, "revoked", u)) \in Nat
        /\ Cardinality(Events(log', "revoked", u)) =
             Cardinality(Events(log, "revoked", u)) + (IF row.event = "revoked" /\ row.about = u THEN 1 ELSE 0)
    BY <1>1, <1>3, EventsCount
  <2>3. Cardinality(Events(log, "granted", u)) - Cardinality(Events(log, "revoked", u))
          = IF u \in authority THEN 1 ELSE 0
    BY Balance DEF TrailInv, Balanced
  <2> QED
    BY <2>1, <2>2, <2>3
<1>6. Trail!TrailMatchesAuthority'
  BY <1>5, Balance DEF Balanced
<1>7. Len(log') <= MaxRows
  BY <1>3, <1>4
<1> QED
  BY <1>3, <1>4, <1>6, <1>7 DEF TrailInv

\* AuditTrail: the log keeps its events, and the authorities stay.
LEMMA EventsKept ==
    ASSUME TrailInv, log' \in Seq(Trail!Row), Len(log') = Len(log),
           \A i \in 1..Len(log) : log'[i].event = log[i].event /\ log'[i].about = log[i].about,
           archive' \in Seq(Copies), Len(archive') = Len(log), UNCHANGED authority,
           isActive' \in [Founders -> BOOLEAN], granting' \in [Admins -> Founders \cup {None}]
    PROVE  TrailInv'
<1>1. \A e, u : Events(log', e, u) = Events(log, e, u)
  BY DEF Events
<1>2. \A u \in Founders : Cardinality(Events(log', "granted", u)) - Cardinality(Events(log', "revoked", u))
                            = IF u \in authority' THEN 1 ELSE 0
  BY <1>1, Balance DEF TrailInv, Balanced
<1>3. Trail!TrailMatchesAuthority'
  BY <1>2, Balance DEF Balanced
<1> QED
  BY <1>3 DEF TrailInv

\* AuditTrail: each of its actions.
LEMMA TrailStep == TrailInv /\ [Trail!TrailNext]_trailVars => TrailInv'
<1> SUFFICES ASSUME TrailInv, [Trail!TrailNext]_trailVars PROVE TrailInv'
  OBVIOUS
<1>0. /\ isActive \in [Founders -> BOOLEAN] /\ authority \subseteq Founders
      /\ log \in Seq(Trail!Row) /\ Len(log) \in Nat /\ archive \in Seq(Copies) /\ Len(archive) = Len(log)
      /\ \A i \in 1..Len(log) : log[i] \in Trail!Row /\ archive[i] \in Copies
      /\ granting \in [Admins -> Founders \cup {None}] /\ None \notin Founders
  BY OrganizationAssumption DEF TrailInv, Trail!TrailAssumption
\* A row that is about nobody's authority.
<1>1. ASSUME NEW scope \in Trail!Scopes \cup {None}, NEW tenant \in Tenants \cup {None}, Len(log) < MaxRows,
             Trail!Append1(Trail!Event(scope, tenant, "other", None)), UNCHANGED <<isActive, authority, granting>>
      PROVE  TrailInv'
  <2> PICK row : row = Trail!Event(scope, tenant, "other", None)
    OBVIOUS
  <2>1. row \in Trail!Row /\ row.event = "other"
    BY DEF Trail!Event, Trail!Row
  <2>2. Trail!Append1(row)
    BY <1>1
  <2> QED
    BY <1>0, <1>1, <2>1, <2>2, RowRecorded
\* A grant, or a revocation, that changes the authority.
<1>2. ASSUME NEW u \in Founders, NEW event \in {"granted", "revoked"}, Len(log) < MaxRows,
             Trail!Append1(Trail!Event("PLATFORM", None, event, u)), isActive' = isActive,
             granting' \in [Admins -> Founders \cup {None}],
             event = "granted" => u \notin authority /\ authority' = authority \cup {u},
             event = "revoked" => u \in authority /\ authority' = authority \ {u}
      PROVE  TrailInv'
  <2> PICK row : row = Trail!Event("PLATFORM", None, event, u)
    OBVIOUS
  <2>1. row \in Trail!Row /\ row.event = event /\ row.about = u
    BY DEF Trail!Event, Trail!Row, Trail!Scopes
  <2>2. Trail!Append1(row)
    BY <1>2
  <2>3. authority' \subseteq Founders
    BY <1>0, <1>2
  <2>4. ASSUME NEW v \in Founders
        PROVE  (IF v \in authority' THEN 1 ELSE 0) =
                  (IF v \in authority THEN 1 ELSE 0)
                  + (IF row.event = "granted" /\ row.about = v THEN 1 ELSE 0)
                  - (IF row.event = "revoked" /\ row.about = v THEN 1 ELSE 0)
    <3>1. CASE event = "granted"
      BY <1>2, <2>1, <3>1
    <3>2. CASE event = "revoked"
      BY <1>2, <2>1, <3>2
    <3> QED
      BY <3>1, <3>2
  <2> QED
    BY <1>0, <1>2, <2>1, <2>2, <2>3, <2>4, RowRecorded
<1>3. ASSUME UNCHANGED <<authority, log, archive>>, isActive' \in [Founders -> BOOLEAN],
             granting' \in [Admins -> Founders \cup {None}]
      PROVE  TrailInv'
  BY <1>0, <1>3, EventsKept
<1>4. ASSUME NEW tenant \in Tenants \cup {None}, NEW given \in Trail!Scopes \cup {None}, Trail!Record(given, tenant)
      PROVE  TrailInv'
  <2>1. Trail!ScopeOf(given, tenant) \in Trail!Scopes \cup {None}
    BY DEF Trail!ScopeOf, Trail!Scopes
  <2> QED
    BY <1>1, <1>4, <2>1 DEF Trail!Record
<1>5. ASSUME NEW tenant \in Tenants \cup {None}, Trail!RecordUnscoped(tenant) PROVE TrailInv'
  BY <1>1, <1>5 DEF Trail!RecordUnscoped
<1>6. ASSUME Trail!Backfill PROVE TrailInv'
  <2>1. ASSUME NEW i \in 1..Len(log)
        PROVE  /\ Trail!Classified(log[i]) \in Trail!Row
               /\ Trail!Classified(log[i]).event = log[i].event /\ Trail!Classified(log[i]).about = log[i].about
    <3>1. PICK row \in Trail!Row : row = log[i]
      BY <1>0
    <3>2. CASE row.scope # None
      BY <3>1, <3>2 DEF Trail!Classified
    <3>3. CASE row.scope = None
      <4> PICK s \in Trail!Scopes : s = IF row.tenant = None THEN "SYSTEM" ELSE "TENANT"
        BY DEF Trail!Scopes
      <4> PICK new : new = [row EXCEPT !.scope = s]
        OBVIOUS
      <4>1. new \in Trail!Row /\ new.event = row.event /\ new.about = row.about
        BY DEF Trail!Row
      <4> QED
        BY <3>1, <3>3, <4>1 DEF Trail!Classified
    <3> QED
      BY <3>2, <3>3
  <2>2. log' = [i \in 1..Len(log) |-> Trail!Classified(log[i])] /\ UNCHANGED <<isActive, authority, archive, granting>>
    BY <1>6 DEF Trail!Backfill
  <2>3. log' \in Seq(Trail!Row) /\ Len(log') = Len(log) /\ \A i \in 1..Len(log) : log'[i] = Trail!Classified(log[i])
    BY <1>0, <2>1, <2>2
  <2> QED
    BY <1>0, <2>1, <2>2, <2>3, EventsKept
<1>7. ASSUME NEW cutoff, Trail!ArchiveRows(cutoff) PROVE TrailInv'
  <2>1. ASSUME NEW i \in 1..Len(log)
        PROVE  [scope |-> log[i].scope, done |-> TRUE] \in Copies
    <3>1. PICK row \in Trail!Row : row = log[i]
      BY <1>0
    <3>2. row.scope \in Trail!Scopes \cup {None}
      BY DEF Trail!Row
    <3> QED
      BY <3>1, <3>2 DEF Copies
  <2>2. archive' \in Seq(Copies) /\ Len(archive') = Len(log)
    BY <1>0, <1>7, <2>1 DEF Trail!ArchiveRows
  <2>3. UNCHANGED <<isActive, authority, log, granting>>
    BY <1>7 DEF Trail!ArchiveRows
  <2> QED
    BY <1>0, <2>2, <2>3, EventsKept
<1>8. ASSUME NEW u \in Founders, Trail!Revoke(u) PROVE TrailInv'
  <2>1. CASE u \in authority
    BY <1>0, <1>2, <1>8, <2>1 DEF Trail!Revoke
  <2>2. CASE u \notin authority
    <3>1. authority' = authority /\ UNCHANGED <<isActive, log, archive, granting>>
      BY <1>8, <2>2 DEF Trail!Revoke
    <3> QED
      BY <1>0, <1>3, <3>1
  <2> QED
    BY <2>1, <2>2
<1>9. ASSUME NEW u \in Founders, Trail!ToggleAccount(u) PROVE TrailInv'
  BY <1>0, <1>3, <1>9 DEF Trail!ToggleAccount
<1>10. ASSUME NEW c \in Admins, NEW u \in Founders, Trail!GrantBegin(c, u) PROVE TrailInv'
  BY <1>0, <1>3, <1>10 DEF Trail!GrantBegin
<1>11. ASSUME NEW c \in Admins, Trail!GrantEnd(c) PROVE TrailInv'
  <2>1. PICK u \in Founders : u = granting[c]
    BY <1>0, <1>11 DEF Trail!GrantEnd
  <2>2. granting' \in [Admins -> Founders \cup {None}]
    BY <1>0, <1>11 DEF Trail!GrantEnd
  <2>3. CASE u \notin authority
    BY <1>2, <1>11, <2>1, <2>2, <2>3 DEF Trail!GrantEnd, Trail!Recorded
  <2>4. CASE u \in authority
    <3>1. authority' = authority /\ UNCHANGED <<isActive, log, archive>>
      BY <1>11, <2>1, <2>4 DEF Trail!GrantEnd, Trail!Recorded
    <3> QED
      BY <1>0, <1>3, <2>2, <3>1
  <2> QED
    BY <2>3, <2>4
<1>12. ASSUME NEW c \in Admins, Trail!GrantDies(c) PROVE TrailInv'
  BY <1>0, <1>3, <1>12 DEF Trail!GrantDies
<1>13. CASE UNCHANGED trailVars
  BY <1>0, <1>3, <1>13 DEF trailVars
<1> QED
  BY <1>4, <1>5, <1>6, <1>7, <1>8, <1>9, <1>10, <1>11, <1>12, <1>13 DEF Trail!TrailNext

\* AuditTrail: what a row says, but for its scope, and a copy that is archived
\* stay, and nobody loses sight of a row.
LEMMA RecordsStep ==
    ASSUME TrailInv, [Trail!TrailNext]_trailVars
    PROVE  /\ \A i \in 1..Len(log) :
                /\ i <= Len(log') /\ [log'[i] EXCEPT !.scope = None] = [log[i] EXCEPT !.scope = None]
                /\ archive[i].done => archive'[i] = archive[i]
           /\ \A tenant \in Tenants : Trail!ShownTo(tenant) \subseteq Trail!ShownTo(tenant)'
           /\ Trail!ShownToPlatform \subseteq Trail!ShownToPlatform'
<1>0. /\ log \in Seq(Trail!Row) /\ Len(log) \in Nat /\ archive \in Seq(Copies) /\ Len(archive) = Len(log)
      /\ \A i \in 1..Len(log) : log[i] \in Trail!Row
      /\ None \notin Trail!Scopes
  BY OrganizationAssumption DEF TrailInv, Trail!TrailAssumption
\* It is enough that each row keeps what it says, and its scope once it has one.
<1>1. ASSUME Len(log') \in Nat, Len(log) <= Len(log'),
             \A i \in 1..Len(log) :
               /\ log'[i] = log[i] \/ (log[i].scope = None /\ \E s : log'[i] = [log[i] EXCEPT !.scope = s])
               /\ archive[i].done => archive'[i] = archive[i]
      PROVE  /\ \A i \in 1..Len(log) :
                  /\ i <= Len(log') /\ [log'[i] EXCEPT !.scope = None] = [log[i] EXCEPT !.scope = None]
                  /\ archive[i].done => archive'[i] = archive[i]
             /\ \A tenant \in Tenants : Trail!ShownTo(tenant) \subseteq Trail!ShownTo(tenant)'
             /\ Trail!ShownToPlatform \subseteq Trail!ShownToPlatform'
  <2>1. ASSUME NEW i \in 1..Len(log)
        PROVE  /\ i <= Len(log') /\ i \in 1..Len(log')
               /\ [log'[i] EXCEPT !.scope = None] = [log[i] EXCEPT !.scope = None]
               /\ log[i].scope \in Trail!Scopes => log'[i] = log[i]
    <3>1. PICK row \in Trail!Row : row = log[i]
      BY <1>0
    <3>2. ASSUME NEW s, log'[i] = [row EXCEPT !.scope = s]
          PROVE  [log'[i] EXCEPT !.scope = None] = [row EXCEPT !.scope = None]
      BY <3>2 DEF Trail!Row
    <3>3. [log'[i] EXCEPT !.scope = None] = [log[i] EXCEPT !.scope = None]
      BY <1>1, <3>1, <3>2
    <3>4. i <= Len(log') /\ i \in 1..Len(log')
      BY <1>0, <1>1
    <3>5. log[i].scope \in Trail!Scopes => log'[i] = log[i]
      BY <1>0, <1>1
    <3> QED
      BY <3>3, <3>4, <3>5
  <2>2. ASSUME NEW tenant \in Tenants PROVE Trail!ShownTo(tenant) \subseteq Trail!ShownTo(tenant)'
    BY <2>1 DEF Trail!ShownTo, Trail!Scopes
  <2>3. Trail!ShownToPlatform \subseteq Trail!ShownToPlatform'
    BY <2>1 DEF Trail!ShownToPlatform, Trail!Scopes
  <2> QED
    BY <1>1, <2>1, <2>2, <2>3
<1>2. ASSUME UNCHANGED <<log, archive>>
      PROVE  /\ Len(log') \in Nat /\ Len(log) <= Len(log')
             /\ \A i \in 1..Len(log) : log'[i] = log[i] /\ archive'[i] = archive[i]
  BY <1>0, <1>2
<1>3. ASSUME NEW row, Trail!Append1(row)
      PROVE  /\ Len(log') \in Nat /\ Len(log) <= Len(log')
             /\ \A i \in 1..Len(log) : log'[i] = log[i] /\ archive'[i] = archive[i]
  <2> DEFINE AnyRow == Trail!Row \cup {row}
             AnyCopy == Copies \cup {Trail!Unarchived}
  <2>1. log \in Seq(AnyRow) /\ row \in AnyRow /\ archive \in Seq(AnyCopy) /\ Trail!Unarchived \in AnyCopy
    BY <1>0
  <2> HIDE DEF AnyRow, AnyCopy
  <2> QED
    BY <1>0, <1>3, <2>1 DEF Trail!Append1
<1>4. ASSUME Trail!Backfill
      PROVE  /\ Len(log') \in Nat /\ Len(log) <= Len(log')
             /\ \A i \in 1..Len(log) :
                  /\ log'[i] = log[i] \/ (log[i].scope = None /\ \E s : log'[i] = [log[i] EXCEPT !.scope = s])
                  /\ archive'[i] = archive[i]
  <2>1. log' = [i \in 1..Len(log) |-> Trail!Classified(log[i])] /\ archive' = archive
    BY <1>4 DEF Trail!Backfill
  <2>2. Len(log') \in Nat /\ Len(log) <= Len(log')
    BY <1>0, <2>1
  <2>3. ASSUME NEW i \in 1..Len(log)
        PROVE  /\ log'[i] = log[i] \/ (log[i].scope = None /\ \E s : log'[i] = [log[i] EXCEPT !.scope = s])
               /\ archive'[i] = archive[i]
    BY <2>1 DEF Trail!Classified
  <2> QED
    BY <2>2, <2>3, Zenon
<1>5. ASSUME NEW cutoff, Trail!ArchiveRows(cutoff)
      PROVE  /\ Len(log') \in Nat /\ Len(log) <= Len(log')
             /\ \A i \in 1..Len(log) : log'[i] = log[i] /\ (archive[i].done => archive'[i] = archive[i])
  BY <1>0, <1>5 DEF Trail!ArchiveRows
<1>6. \/ UNCHANGED <<log, archive>> \/ \E row : Trail!Append1(row)
      \/ Trail!Backfill \/ \E cutoff : Trail!ArchiveRows(cutoff)
  BY DEF Trail!TrailNext, trailVars, Trail!RecordUnscoped, Trail!Record, Trail!Revoke, Trail!ToggleAccount,
     Trail!GrantBegin, Trail!GrantEnd, Trail!GrantDies
<1> QED
  BY <1>1, <1>2, <1>3, <1>4, <1>5, <1>6

-----------------------------------------------------------------------------
(* MembershipMaintenance, as Maintenance.                                  *)

People == Maintenance!Migrants
Joinings == Maintenance!Membership
Reconciling == {"checking", "assigning", "committing"}
Assigns(c) == command[c] # None /\ command[c].step \in Reconciling

\* What a backfill relies on: whoever of the plan is not left to create is a
\* member.
Filled(r) == r.rest \subseteq r.all /\ \A u \in r.all \ r.rest : memberships[<<u, AtHome[u]>>] # None

\* What a reconciliation relies on: the membership it assigns next is there, and
\* those its open transaction has written have no role yet.
Unassigned(r) ==
    /\ r.step = "assigning" => r.next \in People /\ memberships[<<r.next, r.org>>] # None
    /\ \A u \in r.written : memberships[<<u, r.org>>] # None /\ memberships[<<u, r.org>>].role = None

\* The inductive invariant.
MaintenanceInv ==
    /\ Maintenance!MaintenanceTypeOK /\ edits \in 0..2
    /\ Maintenance!AppliedIsComplete
    /\ \A c \in Admins : Maintenance!At(c, "filling") => Filled(command[c])
    /\ \A c \in Admins : Assigns(c) => Unassigned(command[c])
    /\ \A c, d \in Admins : c # d /\ Assigns(c) /\ Assigns(d) /\ command[c].org = command[d].org =>
         command[c].written \cap command[d].written = {}

\* MembershipMaintenance: what the constants are.
LEMMA MaintenanceConstants ==
    /\ AtHome \in [People -> Orgs] /\ LegacyRoles \in [People -> MigratedRoles]
    /\ None \notin MigratedRoles /\ None \notin Joinings
  BY OrganizationAssumption DEF Maintenance!MaintenanceAssumption, People, Joinings

\* MembershipMaintenance: a command is of the kind its step tells.
LEMMA MaintenanceCalls ==
    ASSUME MaintenanceInv, NEW c \in Admins, command[c] # None
    PROVE  /\ command[c].step \in Reconciling \cup {"filling"}
           /\ command[c].step = "filling" => command[c] \in Maintenance!FillCall
           /\ command[c].step \in Reconciling => command[c] \in Maintenance!AssignCall
<1>1. command[c] \in Maintenance!FillCall \cup Maintenance!AssignCall
  BY DEF MaintenanceInv, Maintenance!MaintenanceTypeOK
<1> PICK r : r = command[c]
  OBVIOUS
<1>2. r \in Maintenance!FillCall => r.step = "filling"
  BY DEF Maintenance!FillCall
<1>3. r \in Maintenance!AssignCall => r.step \in Reconciling
  BY DEF Maintenance!AssignCall, Reconciling
<1> QED
  BY <1>1, <1>2, <1>3 DEF Reconciling

\* MembershipMaintenance: no command is under way at first.
LEMMA MaintenanceStart == Maintenance!MaintenanceInit => MaintenanceInv
<1> SUFFICES ASSUME Maintenance!MaintenanceInit PROVE MaintenanceInv
  OBVIOUS
<1>1. /\ \A c \in Admins : command[c] = None
      /\ edits = 0 /\ applied = {}
      /\ command \in [Admins -> Maintenance!FillCall \cup Maintenance!AssignCall \cup {None}]
      /\ granted \in [MigratedRoles -> 0..2 + 1]
  BY DEF Maintenance!MaintenanceInit
<1>2. Maintenance!Joined \in Maintenance!Membership
  BY DEF Maintenance!Joined, Maintenance!Membership
<1>3. memberships \in [Maintenance!Migrants \X Orgs -> Maintenance!Membership \cup {None}]
  BY <1>2 DEF Maintenance!MaintenanceInit
<1>4. Maintenance!MaintenanceTypeOK
  BY <1>1, <1>3 DEF Maintenance!MaintenanceTypeOK
<1>5. Maintenance!AppliedIsComplete
  BY <1>1 DEF Maintenance!AppliedIsComplete
<1>6. \A c \in Admins : ~Assigns(c) /\ ~Maintenance!At(c, "filling")
  BY <1>1 DEF Assigns, Maintenance!At
<1> QED
  BY <1>1, <1>4, <1>5, <1>6 DEF MaintenanceInv

\* MembershipMaintenance: a command begins, moves on or ends, or the memberships
\* no open transaction has written change, and no membership goes.
LEMMA MaintenanceFollows ==
    ASSUME MaintenanceInv, edits' \in 0..2,
           memberships' \in [People \X Orgs -> Joinings \cup {None}],
           granted' \in [MigratedRoles -> 0..2 + 1],
           applied' \subseteq People, \A u \in applied' : memberships'[<<u, AtHome[u]>>] # None,
           \A m \in People \X Orgs : memberships[m] # None => memberships'[m] # None,
           command' \in [Admins -> Maintenance!FillCall \cup Maintenance!AssignCall \cup {None}],
           \A c \in Admins : command'[c] # None =>
             \/ /\ command'[c] = command[c]
                /\ \A u \in People : Assigns(c) /\ u \in command[c].written =>
                     memberships'[<<u, command[c].org>>] = memberships[<<u, command[c].org>>]
             \/ /\ command'[c].step = "filling" => Filled(command[c])'
                /\ command'[c].step \in Reconciling =>
                     /\ Unassigned(command[c])'
                     /\ \A d \in Admins : d # c /\ Assigns(d) /\ command[d].org = command'[c].org =>
                          command'[c].written \cap command[d].written = {},
           \E one : \A c \in Admins : c # one => command'[c] \in {None, command[c]}
    PROVE  MaintenanceInv'
<1>0. AtHome \in [People -> Orgs]
  BY MaintenanceConstants
<1>1. Maintenance!MaintenanceTypeOK'
  BY DEF Maintenance!MaintenanceTypeOK, People, Joinings
<1>2. Maintenance!AppliedIsComplete'
  BY DEF Maintenance!AppliedIsComplete
<1>3. ASSUME NEW c \in Admins, Maintenance!At(c, "filling")' PROVE Filled(command[c])'
  <2>1. CASE command'[c] = command[c]
    <3>1. PICK r \in Maintenance!FillCall : r = command[c] /\ command'[c] = r /\ Filled(r)
      BY <1>3, <2>1, MaintenanceCalls DEF MaintenanceInv, Maintenance!At
    <3>2. r.all \subseteq People
      BY DEF Maintenance!FillCall, People
    <3>3. \A u \in r.all : <<u, AtHome[u]>> \in People \X Orgs
      BY <1>0, <3>2
    <3> QED
      BY <3>1, <3>3 DEF Filled
  <2>2. CASE command'[c] # command[c]
    BY <1>3, <2>2 DEF Maintenance!At
  <2> QED
    BY <2>1, <2>2
<1>4. ASSUME NEW c \in Admins, Assigns(c)' PROVE Unassigned(command[c])'
  <2>1. CASE /\ command'[c] = command[c]
             /\ \A u \in People : Assigns(c) /\ u \in command[c].written =>
                     memberships'[<<u, command[c].org>>] = memberships[<<u, command[c].org>>]
    <3>1. Assigns(c) /\ command[c] # None /\ command[c].step \in Reconciling
      BY <1>4, <2>1 DEF Assigns
    <3>2. PICK r \in Maintenance!AssignCall : r = command[c] /\ command'[c] = r /\ Unassigned(r)
      BY <2>1, <3>1, MaintenanceCalls DEF MaintenanceInv
    <3>3. r.written \subseteq People /\ r.org \in Orgs
      BY DEF Maintenance!AssignCall, People
    <3>4. \A u \in r.written : memberships'[<<u, r.org>>] = memberships[<<u, r.org>>]
      BY <2>1, <3>1, <3>2, <3>3
    <3>5. \A u \in People : <<u, r.org>> \in People \X Orgs
      BY <3>3
    <3> QED
      BY <3>2, <3>4, <3>5 DEF Unassigned
  <2>2. CASE command'[c].step \in Reconciling => Unassigned(command[c])'
    BY <1>4, <2>2 DEF Assigns
  <2> QED
    BY <1>4, <2>1, <2>2 DEF Assigns
<1>5. ASSUME NEW c \in Admins, NEW d \in Admins, c # d, Assigns(c)', Assigns(d)', command'[c].org = command'[d].org
      PROVE  command'[c].written \cap command'[d].written = {}
  <2>1. CASE command'[c] = command[c] /\ command'[d] = command[d]
    BY <1>5, <2>1 DEF MaintenanceInv, Assigns
  <2>2. CASE command'[c] # command[c]
    <3>1. command'[d] = command[d]
      BY <1>5, <2>2 DEF Assigns
    <3> QED
      BY <1>5, <2>2, <3>1 DEF Assigns
  <2>3. CASE command'[d] # command[d]
    <3>1. command'[c] = command[c]
      BY <1>5, <2>3 DEF Assigns
    <3>2. command'[d].written \cap command[c].written = {}
      BY <1>5, <2>3, <3>1 DEF Assigns
    <3> QED
      BY <3>1, <3>2
  <2> QED
    BY <2>1, <2>2, <2>3
<1> QED
  BY <1>1, <1>2, <1>3, <1>4, <1>5 DEF MaintenanceInv

\* MembershipMaintenance: a command begins, moves on or ends, and writes nothing.
LEMMA CommandMoves ==
    ASSUME MaintenanceInv, UNCHANGED <<memberships, granted, edits>>,
           applied' \subseteq People, \A u \in applied' : memberships[<<u, AtHome[u]>>] # None,
           NEW c \in Admins, NEW r \in Maintenance!FillCall \cup Maintenance!AssignCall \cup {None},
           command' = [command EXCEPT ![c] = r],
           r # None => /\ r.step = "filling" => Filled(r)
                       /\ r.step \in Reconciling =>
                            /\ Unassigned(r)
                            /\ \A d \in Admins : d # c /\ Assigns(d) /\ command[d].org = r.org =>
                                 r.written \cap command[d].written = {}
    PROVE  MaintenanceInv'
<1>1. /\ command \in [Admins -> Maintenance!FillCall \cup Maintenance!AssignCall \cup {None}]
      /\ memberships \in [People \X Orgs -> Joinings \cup {None}] /\ granted \in [MigratedRoles -> 0..2 + 1]
  BY DEF MaintenanceInv, Maintenance!MaintenanceTypeOK, People, Joinings
<1>2. /\ command'[c] = r /\ \A d \in Admins : d # c => command'[d] = command[d]
      /\ command' \in [Admins -> Maintenance!FillCall \cup Maintenance!AssignCall \cup {None}]
  BY <1>1
<1>3. r # None /\ r.step = "filling" => Filled(command[c])'
  BY <1>2 DEF Filled
<1>4. r # None /\ r.step \in Reconciling => Unassigned(command[c])'
  BY <1>2 DEF Unassigned
<1>5. edits' \in 0..2
  BY DEF MaintenanceInv
<1> QED
  BY <1>1, <1>2, <1>3, <1>4, <1>5, MaintenanceFollows

\* MembershipMaintenance: the application changes a membership that no open
\* transaction has written, or a role.
LEMMA ApplicationStep == ASSUME MaintenanceInv, Maintenance!Application PROVE MaintenanceInv'
<1>0. /\ command \in [Admins -> Maintenance!FillCall \cup Maintenance!AssignCall \cup {None}]
      /\ memberships \in [People \X Orgs -> Joinings \cup {None}] /\ granted \in [MigratedRoles -> 0..2 + 1]
      /\ applied \subseteq People /\ edits \in 0..2
  BY DEF MaintenanceInv, Maintenance!MaintenanceTypeOK, People, Joinings
<1>1. edits' = edits + 1 /\ edits' \in 0..2 /\ command' = command /\ applied' = applied
  BY <1>0 DEF Maintenance!Application
<1>a. AtHome \in [People -> Orgs] /\ \A u \in applied : memberships[<<u, AtHome[u]>>] # None
  BY MaintenanceConstants DEF MaintenanceInv, Maintenance!AppliedIsComplete
\* One membership is written.
<1>2. ASSUME NEW u \in People, NEW o \in Orgs, ~Maintenance!Locked(u, o), granted' = granted,
             NEW row \in Joinings, memberships' = [memberships EXCEPT ![<<u, o>>] = row]
      PROVE  MaintenanceInv'
  <2>1. memberships' \in [People \X Orgs -> Joinings \cup {None}]
    BY <1>0, <1>2
  <2>2. \A m \in People \X Orgs : memberships[m] # None => memberships'[m] # None
    BY <1>0, <1>2, MaintenanceConstants
  <2>3. ASSUME NEW c \in Admins, Assigns(c), NEW v \in People, v \in command[c].written
        PROVE  memberships'[<<v, command[c].org>>] = memberships[<<v, command[c].org>>]
    <3>1. v # u \/ command[c].org # o
      BY <1>2, <2>3 DEF Maintenance!Locked, Assigns, Reconciling
    <3>2. command[c] \in Maintenance!AssignCall
      BY <2>3, MaintenanceCalls DEF Assigns
    <3>3. command[c].org \in Orgs
      BY <3>2 DEF Maintenance!AssignCall
    <3>4. <<v, command[c].org>> # <<u, o>> /\ <<v, command[c].org>> \in People \X Orgs
      BY <3>1, <3>3
    <3> QED
      BY <1>0, <1>2, <3>4
  <2>4. \A v \in applied' : memberships'[<<v, AtHome[v]>>] # None
    BY <1>0, <1>1, <1>a, <2>2
  <2> QED
    BY <1>0, <1>1, <1>2, <2>1, <2>2, <2>3, <2>4, MaintenanceFollows
<1>3. ASSUME NEW u \in People, NEW o \in Orgs, memberships[<<u, o>>] # None
      PROVE  /\ memberships[<<u, o>>] \in Joinings
             /\ \A r \in MigratedRoles : [memberships[<<u, o>>] EXCEPT !.role = r] \in Joinings
             /\ [memberships[<<u, o>>] EXCEPT !.active = FALSE, !.isDefault = FALSE] \in Joinings
  <2>1. PICK m \in Joinings : m = memberships[<<u, o>>]
    BY <1>0, <1>3
  <2> QED
    BY <2>1 DEF Joinings, Maintenance!Membership
<1>4. ASSUME NEW u \in People, NEW o \in Orgs, ~Maintenance!Locked(u, o), granted' = granted,
             memberships[<<u, o>>] # None,
             NEW r \in MigratedRoles, memberships' = [memberships EXCEPT ![<<u, o>>].role = r]
      PROVE  MaintenanceInv'
  BY <1>2, <1>3, <1>4
<1>5. ASSUME NEW u \in People, NEW o \in Orgs, ~Maintenance!Locked(u, o), granted' = granted,
             memberships[<<u, o>>] # None,
             memberships' = [memberships EXCEPT ![<<u, o>>].active = FALSE, ![<<u, o>>].isDefault = FALSE]
      PROVE  MaintenanceInv'
  <2>1. memberships' = [memberships EXCEPT ![<<u, o>>] =
                          [memberships[<<u, o>>] EXCEPT !.active = FALSE, !.isDefault = FALSE]]
    BY <1>0, <1>5
  <2> QED
    BY <1>2, <1>3, <1>5, <2>1
<1>6. ASSUME NEW u \in People, NEW o \in Orgs, ~Maintenance!Locked(u, o), granted' = granted,
             NEW r \in MigratedRoles, NEW default \in BOOLEAN,
             memberships' = [memberships EXCEPT ![<<u, o>>] = [active |-> TRUE, isDefault |-> default, role |-> r]]
      PROVE  MaintenanceInv'
  <2>1. [active |-> TRUE, isDefault |-> default, role |-> r] \in Joinings
    BY DEF Joinings, Maintenance!Membership
  <2> QED
    BY <1>2, <1>6, <2>1
<1>7. ASSUME memberships' = memberships, granted' \in [MigratedRoles -> 0..2 + 1] PROVE MaintenanceInv'
  <2>1. \A u \in applied' : memberships'[<<u, AtHome[u]>>] # None
    BY <1>1, <1>7, <1>a
  <2>2. \A m \in People \X Orgs : memberships[m] # None => memberships'[m] # None
    BY <1>7
  <2> QED
    BY <1>0, <1>1, <1>7, <2>1, <2>2, MaintenanceFollows
<1>8. ASSUME NEW r \in MigratedRoles,
             granted' \in {[granted EXCEPT ![r] = 0], [granted EXCEPT ![r] = edits + 2]}
      PROVE  granted' \in [MigratedRoles -> 0..2 + 1]
  <2>1. edits + 2 \in 0..2 + 1 /\ 0 \in 0..2 + 1
    BY <1>0, <1>1
  <2> QED
    BY <1>0, <1>8, <2>1
<1>9. \A u : Maintenance!HasDefault(u) \in BOOLEAN
  BY DEF Maintenance!HasDefault
<1>10. CASE \E u \in People, o \in Orgs :
              /\ ~Maintenance!Locked(u, o)
              /\ \/ /\ memberships[<<u, o>>] # None
                    /\ \E r \in MigratedRoles : memberships' = [memberships EXCEPT ![<<u, o>>].role = r]
                 \/ /\ memberships[<<u, o>>] # None /\ memberships[<<u, o>>].active
                    /\ memberships' = [memberships EXCEPT ![<<u, o>>].active = FALSE, ![<<u, o>>].isDefault = FALSE]
                 \/ /\ memberships[<<u, o>>] = None
                    /\ \E r \in MigratedRoles :
                         memberships' = [memberships EXCEPT ![<<u, o>>] =
                           [active |-> TRUE, isDefault |-> ~Maintenance!HasDefault(u), role |-> r]]
              /\ UNCHANGED granted
  <2>1. PICK u \in People, o \in Orgs :
              /\ ~Maintenance!Locked(u, o)
              /\ \/ /\ memberships[<<u, o>>] # None
                    /\ \E r \in MigratedRoles : memberships' = [memberships EXCEPT ![<<u, o>>].role = r]
                 \/ /\ memberships[<<u, o>>] # None /\ memberships[<<u, o>>].active
                    /\ memberships' = [memberships EXCEPT ![<<u, o>>].active = FALSE, ![<<u, o>>].isDefault = FALSE]
                 \/ /\ memberships[<<u, o>>] = None
                    /\ \E r \in MigratedRoles :
                         memberships' = [memberships EXCEPT ![<<u, o>>] =
                           [active |-> TRUE, isDefault |-> ~Maintenance!HasDefault(u), role |-> r]]
              /\ UNCHANGED granted
    BY <1>10
  <2>2. CASE \E r \in MigratedRoles : memberships' = [memberships EXCEPT ![<<u, o>>] =
                           [active |-> TRUE, isDefault |-> ~Maintenance!HasDefault(u), role |-> r]]
    <3>1. PICK default \in BOOLEAN : default = ~Maintenance!HasDefault(u)
      BY <1>9
    <3> QED
      BY <1>6, <2>1, <2>2, <3>1
  <2> QED
    BY <1>4, <1>5, <2>1, <2>2
<1> QED
  BY <1>7, <1>8, <1>10, Zenon DEF Maintenance!Application, People

\* MembershipMaintenance: a batch is part of the rest of the plan.
LEMMA BatchOfRest == \A rest, n : Maintenance!First(rest, n) \subseteq rest
  BY DEF Maintenance!First

\* MembershipMaintenance: each of its actions.
LEMMA MaintenanceStep == MaintenanceInv /\ [Maintenance!MaintenanceNext]_maintenanceVars => MaintenanceInv'
<1> SUFFICES ASSUME MaintenanceInv, [Maintenance!MaintenanceNext]_maintenanceVars PROVE MaintenanceInv'
  OBVIOUS
<1> DEFINE Commands == Maintenance!FillCall \cup Maintenance!AssignCall \cup {None}
<1>0. /\ command \in [Admins -> Commands]
      /\ memberships \in [People \X Orgs -> Joinings \cup {None}] /\ granted \in [MigratedRoles -> 0..2 + 1]
      /\ applied \subseteq People /\ edits \in 0..2
      /\ \A u \in applied : memberships[<<u, AtHome[u]>>] # None
  BY DEF MaintenanceInv, Maintenance!MaintenanceTypeOK, Maintenance!AppliedIsComplete, People, Joinings
\* A command ends, or stops, without a write.
<1>1. ASSUME NEW c \in Admins, Maintenance!Return(c), UNCHANGED <<memberships, granted, edits, applied>>
      PROVE  MaintenanceInv'
  BY <1>0, <1>1, CommandMoves DEF Maintenance!Return
<1>2. ASSUME NEW c \in Admins, Maintenance!FillBegin(c) PROVE MaintenanceInv'
  <2>1. PICK missing \in SUBSET People : missing = {u \in People : memberships[<<u, AtHome[u]>>] = None}
    OBVIOUS
  <2> PICK r : r = [step |-> "filling", rest |-> missing, all |-> missing]
    OBVIOUS
  <2>2. r \in Maintenance!FillCall /\ r.rest = missing /\ r.all = missing /\ r.step = "filling"
    BY DEF Maintenance!FillCall, People
  <2>3. Filled(r) /\ r.step \notin Reconciling
    BY <2>2 DEF Filled, Reconciling
  <2>4. command' = [command EXCEPT ![c] = r] /\ UNCHANGED <<memberships, granted, edits, applied>>
    BY <1>2, <2>1 DEF Maintenance!FillBegin, People
  <2> QED
    BY <1>0, <2>2, <2>3, <2>4, CommandMoves
<1>3. ASSUME NEW c \in Admins, Maintenance!FillBatch(c) PROVE MaintenanceInv'
  <2>1. PICK r \in Maintenance!FillCall : r = command[c] /\ r.step = "filling" /\ r # None /\ Filled(r)
    BY <1>3, MaintenanceCalls DEF Maintenance!FillBatch, Maintenance!At, MaintenanceInv
  <2>2. PICK ids : ids = Maintenance!Batch(r.rest)
    OBVIOUS
  <2>3. ids \subseteq r.rest /\ r.rest \subseteq People /\ r.all \subseteq People
    BY <2>2, BatchOfRest DEF Maintenance!Batch, Maintenance!FillCall, People
  <2>4. CASE \A u \in ids : memberships[<<u, AtHome[u]>>] = None /\ ~Maintenance!HasDefault(u)
    <3>1. /\ memberships' = [m \in People \X Orgs |->
               IF m[1] \in ids /\ m[2] = AtHome[m[1]] THEN [Maintenance!Joined EXCEPT !.role = LegacyRoles[m[1]]]
               ELSE memberships[m]]
          /\ command' = [command EXCEPT ![c].rest = @ \ Maintenance!First(@, BatchSize)]
          /\ UNCHANGED <<granted, edits, applied>>
      BY <1>3, <2>1, <2>2, <2>4 DEF Maintenance!FillBatch, People
    <3> PICK s : s = [r EXCEPT !.rest = r.rest \ ids]
      OBVIOUS
    <3>2. s \in Maintenance!FillCall /\ s.step = "filling" /\ s.rest = r.rest \ ids /\ s.all = r.all
      BY <2>1 DEF Maintenance!FillCall
    <3>3. command' = [command EXCEPT ![c] = s]
      BY <1>0, <2>1, <2>2, <3>1 DEF Maintenance!Batch
    <3>4. ASSUME NEW given \in MigratedRoles
          PROVE  [Maintenance!Joined EXCEPT !.role = given] \in Joinings
      BY DEF Maintenance!Joined, Joinings, Maintenance!Membership
    <3>5. ASSUME NEW m \in People \X Orgs, m[1] \in ids, m[2] = AtHome[m[1]]
          PROVE  memberships'[m] \in Joinings /\ memberships[m] = None
      <4>1. LegacyRoles[m[1]] \in MigratedRoles
        BY <3>5, MaintenanceConstants
      <4>2. m = <<m[1], AtHome[m[1]]>>
        BY <3>5
      <4>3. memberships[m] = None
        BY <2>4, <3>5, <4>2
      <4> QED
        BY <3>1, <3>4, <3>5, <4>1, <4>3
    <3>6. ASSUME NEW m \in People \X Orgs, ~(m[1] \in ids /\ m[2] = AtHome[m[1]])
          PROVE  memberships'[m] = memberships[m]
      BY <3>1, <3>6
    <3>7. memberships' \in [People \X Orgs -> Joinings \cup {None}]
      <4>1. \A m \in People \X Orgs : memberships'[m] \in Joinings \cup {None}
        BY <1>0, <3>5, <3>6
      <4> QED
        BY <3>1, <4>1
    <3>8. \A m \in People \X Orgs : memberships[m] # None => memberships'[m] # None
      BY <3>5, <3>6
    <3>9. \A u \in ids : memberships'[<<u, AtHome[u]>>] # None
      <4>1. ASSUME NEW u \in ids PROVE memberships'[<<u, AtHome[u]>>] # None
        <5>1. PICK v \in People, o \in Orgs : v = u /\ o = AtHome[u]
          BY <2>3, MaintenanceConstants
        <5>2. PICK m : m = <<v, o>>
          OBVIOUS
        <5>3. m \in People \X Orgs /\ m[1] = v /\ m[2] = o
          BY <5>2
        <5> QED
          BY <3>5, <5>1, <5>2, <5>3, MaintenanceConstants
      <4> QED
        BY <4>1
    <3>10. \A u \in People : <<u, AtHome[u]>> \in People \X Orgs
      BY MaintenanceConstants
    <3>11. Filled(command[c])'
      <4>1. command'[c] = s
        BY <1>0, <3>3
      <4>2. \A u \in s.all \ s.rest : memberships'[<<u, AtHome[u]>>] # None
        BY <2>1, <2>3, <3>2, <3>8, <3>9, <3>10 DEF Filled
      <4>3. s.rest \subseteq s.all
        BY <2>1, <3>2 DEF Filled
      <4> QED
        BY <4>1, <4>2, <4>3 DEF Filled
    <3>12. \A u \in applied' : memberships'[<<u, AtHome[u]>>] # None
      BY <1>0, <3>1, <3>8, <3>10
    <3>13. command' \in [Admins -> Commands] /\ command'[c].step = "filling" /\ "filling" \notin Reconciling
           /\ \A d \in Admins : d # c => command'[d] = command[d]
      BY <1>0, <3>2, <3>3 DEF Reconciling
    <3>14. ASSUME NEW d \in Admins, Assigns(d), NEW u \in People, u \in command[d].written
           PROVE  memberships'[<<u, command[d].org>>] = memberships[<<u, command[d].org>>]
      <4>1. PICK q \in Maintenance!AssignCall : q = command[d] /\ Unassigned(q)
        BY <3>14, MaintenanceCalls DEF Assigns, MaintenanceInv
      <4>2. memberships[<<u, q.org>>] # None /\ q.org \in Orgs
        BY <3>14, <4>1 DEF Unassigned, Maintenance!AssignCall
      <4>3. PICK m \in People \X Orgs : m = <<u, q.org>>
        BY <4>2
      <4> QED
        BY <3>5, <3>6, <4>1, <4>2, <4>3
    <3>15. granted' = granted /\ edits' = edits /\ applied' = applied
      BY <3>1
    <3>16. \A d \in Admins : command'[d] # None =>
             \/ /\ command'[d] = command[d]
                /\ \A u \in People : Assigns(d) /\ u \in command[d].written =>
                     memberships'[<<u, command[d].org>>] = memberships[<<u, command[d].org>>]
             \/ /\ command'[d].step = "filling" => Filled(command[d])'
                /\ command'[d].step \notin Reconciling
      BY <3>11, <3>13, <3>14
    <3> HIDE DEF Commands
    <3> QED
      BY <1>0, <3>7, <3>8, <3>12, <3>13, <3>15, <3>16, MaintenanceFollows DEF Commands
  <2>5. CASE ~\A u \in ids : memberships[<<u, AtHome[u]>>] = None /\ ~Maintenance!HasDefault(u)
    BY <1>1, <1>3, <2>1, <2>2, <2>5 DEF Maintenance!FillBatch
  <2> QED
    BY <2>4, <2>5
<1>4. ASSUME NEW c \in Admins, Maintenance!FillEnd(c) PROVE MaintenanceInv'
  <2>1. PICK r \in Maintenance!FillCall : r = command[c] /\ r.rest = {} /\ Filled(r)
    BY <1>4, MaintenanceCalls DEF Maintenance!FillEnd, Maintenance!At, MaintenanceInv
  <2>2. applied' = applied \cup r.all /\ UNCHANGED <<memberships, granted, edits>> /\ Maintenance!Return(c)
    BY <1>4, <2>1 DEF Maintenance!FillEnd
  <2>3. r.all \subseteq People
    BY DEF Maintenance!FillCall, People
  <2>4. \A u \in applied' : memberships[<<u, AtHome[u]>>] # None
    BY <1>0, <2>1, <2>2 DEF Filled
  <2> QED
    BY <1>0, <2>2, <2>3, <2>4, CommandMoves DEF Maintenance!Return
\* A reconciliation that has written nothing new moves on.
<1>5. ASSUME NEW c \in Admins, UNCHANGED <<memberships, granted, edits, applied>>,
             NEW r \in Maintenance!AssignCall, command' = [command EXCEPT ![c] = r], Unassigned(r),
             \A d \in Admins : d # c /\ Assigns(d) /\ command[d].org = r.org => r.written \cap command[d].written = {}
      PROVE  MaintenanceInv'
  <2>1. r.step # "filling"
    BY DEF Maintenance!AssignCall
  <2> QED
    BY <1>0, <1>5, <2>1, CommandMoves
<1>6. ASSUME NEW c \in Admins, NEW o \in Orgs, Maintenance!AssignBegin(c, o) PROVE MaintenanceInv'
  <2>1. PICK left \in SUBSET People : left = {u \in People : Maintenance!Assignable(u, o)}
    OBVIOUS
  <2>2. PICK planned : planned = [u \in People |-> granted[LegacyRoles[u]]]
    OBVIOUS
  <2>3. planned \in [People -> 0..2 + 1]
    BY <1>0, <2>2, MaintenanceConstants
  <2> PICK r : r = [step |-> "checking", org |-> o, left |-> left, planned |-> planned, next |-> None, written |-> {}]
    OBVIOUS
  <2>4. r \in Maintenance!AssignCall /\ r.step = "checking" /\ r.written = {}
    BY <2>1, <2>3 DEF Maintenance!AssignCall, People
  <2>5. Unassigned(r)
    BY <2>4 DEF Unassigned
  <2>6. command' = [command EXCEPT ![c] = r] /\ UNCHANGED <<memberships, granted, edits, applied>>
    BY <1>6, <2>1, <2>2 DEF Maintenance!AssignBegin, People
  <2> QED
    BY <1>5, <2>4, <2>5, <2>6
<1>7. ASSUME NEW c \in Admins, Maintenance!AssignCheck(c) PROVE MaintenanceInv'
  <2>1. PICK r \in Maintenance!AssignCall : /\ r = command[c] /\ r.step = "checking" /\ Unassigned(r)
                                            /\ Assigns(c)
    BY <1>7, MaintenanceCalls DEF Maintenance!AssignCheck, Maintenance!At, MaintenanceInv, Assigns, Reconciling
  <2>2. \A d \in Admins : d # c /\ Assigns(d) /\ command[d].org = r.org => r.written \cap command[d].written = {}
    BY <2>1 DEF MaintenanceInv
  <2>3. UNCHANGED <<memberships, granted, edits, applied>>
    BY <1>7 DEF Maintenance!AssignCheck
  <2>4. CASE r.left = {}
    <3> PICK s : s = [r EXCEPT !.step = "committing"]
      OBVIOUS
    <3>1. s \in Maintenance!AssignCall /\ s.step = "committing" /\ s.org = r.org /\ s.written = r.written
      BY DEF Maintenance!AssignCall
    <3>2. command' = [command EXCEPT ![c] = s]
      BY <1>0, <1>7, <2>1, <2>4 DEF Maintenance!AssignCheck
    <3>3. Unassigned(s)
      BY <2>1, <3>1 DEF Unassigned
    <3>4. \A d \in Admins : d # c /\ Assigns(d) /\ command[d].org = s.org => s.written \cap command[d].written = {}
      BY <2>2, <3>1
    <3>5. s \in Maintenance!AssignCall
      BY <3>1
    <3> QED
      BY <1>5, <2>3, <3>2, <3>3, <3>4, <3>5
  <2>5. CASE r.left # {}
    <3>1. PICK u \in People : u = (CHOOSE v \in command[c].left : TRUE)
      BY <2>1, <2>5 DEF Maintenance!AssignCall, People
    <3>2. PICK valid \in BOOLEAN :
            valid <=> Maintenance!Assignable(u, command[c].org) /\ granted[LegacyRoles[u]] = command[c].planned[u]
      OBVIOUS
    <3>3. PICK step, next : /\ step = (IF valid THEN "assigning" ELSE "checking")
                            /\ next = (IF valid THEN u ELSE None)
      OBVIOUS
    <3> PICK s : s = [r EXCEPT !.left = @ \ {u}, !.step = step, !.next = next]
      OBVIOUS
    <3>4. step \in {"checking", "assigning"} /\ next \in People \cup {None}
          /\ (step = "assigning" => valid /\ next = u)
      BY <3>3
    <3>5. s \in Maintenance!AssignCall /\ s.step = step /\ s.next = next /\ s.org = r.org /\ s.written = r.written
      BY <3>4 DEF Maintenance!AssignCall, People
    <3>6. ASSUME valid PROVE command' = [command EXCEPT ![c] = s]
      <4>1. command' = [command EXCEPT ![c].left = @ \ {u}, ![c].step = "assigning", ![c].next = u]
        BY <1>7, <2>1, <2>5, <3>1, <3>2, <3>6 DEF Maintenance!AssignCheck
      <4>2. step = "assigning" /\ next = u
        BY <3>3, <3>6
      <4> QED
        BY <1>0, <2>1, <4>1, <4>2 DEF Maintenance!AssignCall
    <3>7. ASSUME ~valid PROVE command' = [command EXCEPT ![c] = s]
      <4>1. command' = [command EXCEPT ![c].left = @ \ {u}, ![c].step = "checking", ![c].next = None]
        BY <1>7, <2>1, <2>5, <3>1, <3>2, <3>7 DEF Maintenance!AssignCheck
      <4>2. step = "checking" /\ next = None
        BY <3>3, <3>7
      <4> QED
        BY <1>0, <2>1, <4>1, <4>2 DEF Maintenance!AssignCall
    <3>10. command' = [command EXCEPT ![c] = s]
      BY <3>6, <3>7
    <3>8. valid => memberships[<<u, r.org>>] # None
      BY <2>1, <3>2 DEF Maintenance!Assignable
    <3>9. Unassigned(s)
      BY <2>1, <3>4, <3>5, <3>8 DEF Unassigned
    <3>11. \A d \in Admins : d # c /\ Assigns(d) /\ command[d].org = s.org => s.written \cap command[d].written = {}
      BY <2>2, <3>5
    <3>12. s \in Maintenance!AssignCall
      BY <3>5
    <3> QED
      BY <1>5, <2>3, <3>9, <3>10, <3>11, <3>12
  <2> QED
    BY <2>4, <2>5
<1>8. ASSUME NEW c \in Admins, Maintenance!AssignWrite(c) PROVE MaintenanceInv'
  <2>1. PICK r \in Maintenance!AssignCall : /\ r = command[c] /\ r.step = "assigning" /\ Unassigned(r)
                                            /\ Assigns(c)
    BY <1>8, MaintenanceCalls DEF Maintenance!AssignWrite, Maintenance!At, MaintenanceInv, Assigns, Reconciling
  <2>2. \A d \in Admins : d # c /\ Assigns(d) /\ command[d].org = r.org => r.written \cap command[d].written = {}
    BY <2>1 DEF MaintenanceInv
  <2>3. PICK u \in People : u = r.next /\ memberships[<<u, r.org>>] # None
    BY <2>1 DEF Unassigned
  <2>4. UNCHANGED <<memberships, granted, edits, applied>> /\ ~Maintenance!Locked(u, r.org)
    BY <1>8, <2>1, <2>3 DEF Maintenance!AssignWrite
  <2>5. \A d \in Admins : Assigns(d) /\ command[d].org = r.org => u \notin command[d].written
    BY <2>4 DEF Maintenance!Locked, Assigns, Reconciling
  <2>6. PICK written : written = IF Maintenance!StillNone(u, r.org) THEN r.written \cup {u} ELSE r.written
    OBVIOUS
  <2>7. written \subseteq People /\ \A v \in written : v \in r.written \/ (v = u /\ memberships[<<u, r.org>>].role = None)
    BY <2>6 DEF Maintenance!AssignCall, People, Maintenance!StillNone
  <2> PICK s : s = [r EXCEPT !.step = "checking", !.next = None, !.written = written]
    OBVIOUS
  <2>8. s \in Maintenance!AssignCall /\ s.step = "checking" /\ s.org = r.org /\ s.written = written
    BY <2>7 DEF Maintenance!AssignCall, People
  <2>9. command' = [command EXCEPT ![c] = s]
    <3>1. CASE Maintenance!StillNone(u, r.org)
      <4>1. command' = [command EXCEPT ![c].step = "checking", ![c].next = None, ![c].written = @ \cup {u}]
        BY <1>8, <2>1, <2>3, <3>1 DEF Maintenance!AssignWrite
      <4> QED
        BY <1>0, <2>1, <2>6, <3>1, <4>1 DEF Maintenance!AssignCall
    <3>2. CASE ~Maintenance!StillNone(u, r.org)
      <4>1. command' = [command EXCEPT ![c].step = "checking", ![c].next = None, ![c].written = @]
        BY <1>8, <2>1, <2>3, <3>2 DEF Maintenance!AssignWrite
      <4> QED
        BY <1>0, <2>1, <2>6, <3>2, <4>1 DEF Maintenance!AssignCall
    <3> QED
      BY <3>1, <3>2
  <2>10. Unassigned(s)
    BY <2>1, <2>3, <2>7, <2>8 DEF Unassigned
  <2>11. \A d \in Admins : d # c /\ Assigns(d) /\ command[d].org = s.org => s.written \cap command[d].written = {}
    BY <2>2, <2>5, <2>7, <2>8
  <2> QED
    BY <1>5, <2>4, <2>8, <2>9, <2>10, <2>11
<1>9. ASSUME NEW c \in Admins, Maintenance!AssignCommit(c) PROVE MaintenanceInv'
  <2>1. PICK r \in Maintenance!AssignCall : r = command[c] /\ Unassigned(r) /\ Assigns(c)
    BY <1>9, MaintenanceCalls DEF Maintenance!AssignCommit, Maintenance!At, MaintenanceInv, Assigns, Reconciling
  <2>2. /\ memberships' = [m \in People \X Orgs |->
             IF m[2] = r.org /\ m[1] \in r.written THEN [memberships[m] EXCEPT !.role = LegacyRoles[m[1]]]
             ELSE memberships[m]]
        /\ command' = [command EXCEPT ![c] = None] /\ UNCHANGED <<granted, edits, applied>>
    BY <1>9, <2>1 DEF Maintenance!AssignCommit, Maintenance!Return, People
  <2>3. ASSUME NEW m \in People \X Orgs, m[2] = r.org, m[1] \in r.written
        PROVE  memberships'[m] \in Joinings
    <3>1. m = <<m[1], r.org>>
      BY <2>3
    <3>2. memberships[m] # None
      BY <2>1, <2>3, <3>1 DEF Unassigned
    <3>3. PICK old \in Joinings, given \in MigratedRoles : old = memberships[m] /\ given = LegacyRoles[m[1]]
      BY <1>0, <2>3, <3>2, MaintenanceConstants
    <3>4. [old EXCEPT !.role = given] \in Joinings
      BY DEF Joinings, Maintenance!Membership
    <3> QED
      BY <2>2, <2>3, <3>3, <3>4
  <2>4. ASSUME NEW m \in People \X Orgs, ~(m[2] = r.org /\ m[1] \in r.written) PROVE memberships'[m] = memberships[m]
    BY <2>2, <2>4
  <2>5. memberships' \in [People \X Orgs -> Joinings \cup {None}]
    <3>1. \A m \in People \X Orgs : memberships'[m] \in Joinings \cup {None}
      BY <1>0, <2>3, <2>4
    <3> QED
      BY <2>2, <3>1
  <2>6. \A m \in People \X Orgs : memberships[m] # None => memberships'[m] # None
    BY <2>3, <2>4, MaintenanceConstants
  <2>7. \A u \in applied' : memberships'[<<u, AtHome[u]>>] # None
    BY <1>0, <2>2, <2>6, MaintenanceConstants
  <2>8. command' \in [Admins -> Commands] /\ command'[c] = None /\ \A d \in Admins : d # c => command'[d] = command[d]
    BY <1>0, <2>2
  <2>9. ASSUME NEW d \in Admins, d # c, Assigns(d), NEW u \in People, u \in command[d].written
        PROVE  memberships'[<<u, command[d].org>>] = memberships[<<u, command[d].org>>]
    <3>1. PICK q \in Maintenance!AssignCall : q = command[d]
      BY <2>9, MaintenanceCalls DEF Assigns
    <3>2. q.org = r.org => u \notin r.written
      BY <2>1, <2>9, <3>1 DEF MaintenanceInv
    <3>a. PICK o \in Orgs : o = q.org
      BY DEF Maintenance!AssignCall
    <3>b. PICK m : m = <<u, o>>
      OBVIOUS
    <3>3. m \in People \X Orgs /\ m[1] = u /\ m[2] = o
      BY <3>b
    <3> QED
      BY <2>4, <3>1, <3>2, <3>3, <3>a, <3>b
  <2> HIDE DEF Commands
  <2> QED
    BY <1>0, <2>2, <2>5, <2>6, <2>7, <2>8, <2>9, MaintenanceFollows DEF Commands
<1>10. ASSUME NEW c \in Admins, Maintenance!CommandDies(c) PROVE MaintenanceInv'
  BY <1>1, <1>10 DEF Maintenance!CommandDies
<1>11. CASE UNCHANGED maintenanceVars
  <2>1. UNCHANGED <<memberships, granted, edits, applied, command>>
    BY <1>11 DEF maintenanceVars
  <2> QED
    BY <1>0, <2>1, MaintenanceFollows
<1> QED
  BY <1>2, <1>3, <1>4, <1>6, <1>7, <1>8, <1>9, <1>10, <1>11, ApplicationStep DEF Maintenance!MaintenanceNext

\* MembershipMaintenance: a command that writes memberships takes nothing.
LEMMA CommandsAdd ==
    ASSUME MaintenanceInv, [Maintenance!MaintenanceNext]_maintenanceVars, memberships' # memberships, edits' = edits
    PROVE  \A u \in People, o \in Orgs : memberships[<<u, o>>] # None =>
             /\ memberships'[<<u, o>>] # None
             /\ memberships'[<<u, o>>].active = memberships[<<u, o>>].active
             /\ memberships[<<u, o>>].role # None => memberships'[<<u, o>>].role = memberships[<<u, o>>].role
<1>0. memberships \in [People \X Orgs -> Joinings \cup {None}] /\ edits \in 0..2
  BY DEF MaintenanceInv, Maintenance!MaintenanceTypeOK, People, Joinings
<1>1. PICK c \in Admins : Maintenance!FillBatch(c) \/ Maintenance!AssignCommit(c)
  <2>1. ~Maintenance!Application
    BY <1>0 DEF Maintenance!Application
  <2> QED
    BY <2>1 DEF Maintenance!MaintenanceNext, maintenanceVars, Maintenance!FillBegin, Maintenance!FillEnd,
       Maintenance!AssignBegin, Maintenance!AssignCheck, Maintenance!AssignWrite, Maintenance!CommandDies
<1> SUFFICES ASSUME NEW u \in People, NEW o \in Orgs, memberships[<<u, o>>] # None
             PROVE  /\ memberships'[<<u, o>>] # None
                    /\ memberships'[<<u, o>>].active = memberships[<<u, o>>].active
                    /\ memberships[<<u, o>>].role # None => memberships'[<<u, o>>].role = memberships[<<u, o>>].role
  OBVIOUS
<1>2. PICK m \in People \X Orgs : m = <<u, o>> /\ m[1] = u /\ m[2] = o
  OBVIOUS
<1>3. ASSUME Maintenance!FillBatch(c) PROVE memberships'[m] = memberships[m]
  <2>1. CASE memberships' = memberships
    BY <2>1
  <2>2. PICK ids :
          \/ memberships' = memberships
          \/ /\ \A v \in ids : memberships[<<v, AtHome[v]>>] = None
             /\ memberships' = [k \in People \X Orgs |->
                  IF k[1] \in ids /\ k[2] = AtHome[k[1]] THEN [Maintenance!Joined EXCEPT !.role = LegacyRoles[k[1]]]
                  ELSE memberships[k]]
    BY <1>3 DEF Maintenance!FillBatch, People
  <2> QED
    BY <1>2, <2>1, <2>2
<1>4. ASSUME Maintenance!AssignCommit(c)
      PROVE  /\ memberships'[m] # None
             /\ memberships'[m].active = memberships[m].active
             /\ memberships[m].role # None => memberships'[m].role = memberships[m].role
  <2>1. PICK r \in Maintenance!AssignCall : r = command[c] /\ Unassigned(r) /\ r.written \subseteq People
    BY <1>4, MaintenanceCalls DEF Maintenance!AssignCommit, Maintenance!At, MaintenanceInv, Assigns, Reconciling,
       Maintenance!AssignCall, People
  <2>2. memberships'[m] = IF m[2] = r.org /\ m[1] \in r.written THEN [memberships[m] EXCEPT !.role = LegacyRoles[m[1]]]
                          ELSE memberships[m]
    BY <1>4, <2>1 DEF Maintenance!AssignCommit, People
  <2>3. CASE m[2] = r.org /\ m[1] \in r.written
    <3>1. PICK old \in Joinings, given \in MigratedRoles : old = memberships[m] /\ given = LegacyRoles[m[1]]
      BY <1>0, <1>2, MaintenanceConstants
    <3>2. [old EXCEPT !.role = given] \in Joinings /\ [old EXCEPT !.role = given].active = old.active
      BY DEF Joinings, Maintenance!Membership
    <3>3. memberships[m].role = None
      BY <1>2, <2>1, <2>3 DEF Unassigned
    <3> QED
      BY <2>2, <2>3, <3>1, <3>2, <3>3, MaintenanceConstants
  <2>4. CASE ~(m[2] = r.org /\ m[1] \in r.written)
    BY <1>2, <2>2, <2>4
  <2> QED
    BY <2>3, <2>4
<1> QED
  BY <1>1, <1>2, <1>3, <1>4

\* The established organizations are provisioned, and nobody has lost a role.
LEMMA TenancyInit == Init => TypeOK /\ MembershipInv /\ LifecycleInv
<1> SUFFICES ASSUME Init PROVE TypeOK /\ MembershipInv /\ LifecycleInv
  OBVIOUS
<1>1. TypeOK
  BY TenancyAssumption, RecordTypes DEF Init, TypeOK, Presence, OrgStatus
<1>2. \A u \in Users, o \in Orgs :
         mem[<<u, o>>] = IF u \in Founders /\ Home[u] = o THEN Founding ELSE NoMembership
  BY DEF Init
<1>3. /\ Founding.status = "ACTIVE" /\ Founding.isTenantOwner /\ Founding.isDefault /\ Founding.role = SystemRole
      /\ NoMembership.status = "ABSENT" /\ ~NoMembership.isTenantOwner /\ ~NoMembership.isDefault
      /\ NoMembership.role = NoRole
  BY DEF Founding, NoMembership
<1>4. SystemRole \in Roles /\ role[SystemRole] = "active" /\ NoRole # SystemRole
  BY RecordTypes DEF Init
<1>5. MembershipInv
  BY <1>2, <1>3, <1>4 DEF MembershipInv, Init, RolesStayInTenant, RolesOf
<1>6. \A o \in Orgs : org[o] \in {"ACTIVE", "SUSPENDED"} => Provisioned(o)
  <2> SUFFICES ASSUME NEW o \in Orgs, org[o] \in {"ACTIVE", "SUSPENDED"} PROVE Provisioned(o)
    OBVIOUS
  <2>1. o \in Established /\ onboarding[o] = "READY"
    BY DEF Init
  <2>2. PICK u \in Founders : Home[u] = o
    BY <2>1, TenancyAssumption
  <2>3. u \in Users
    BY TenancyAssumption
  <2> QED
    BY <1>2, <1>3, <2>1, <2>2, <2>3 DEF Provisioned
<1>7. \A u \in Users, o \in Orgs : mem[<<u, o>>].isTenantOwner => user[u] # "absent"
  BY <1>2, <1>3 DEF Init
<1> QED
  BY <1>1, <1>5, <1>6, <1>7, RecordTypes DEF LifecycleInv, Init

\* The inductive invariant says what the properties promise.
LEMMA MembershipsFollow ==
    ASSUME TypeOK, MembershipInv
    PROVE  DefaultsAreSound /\ RolesStayInTenant /\ ActiveKeepsRole
<1>1. ASSUME NEW u \in Users
      PROVE  LET defaults == {o \in Orgs : mem[<<u, o>>].isDefault}
             IN  /\ Cardinality(defaults) <= 1
                 /\ \A o \in defaults : mem[<<u, o>>].status = "ACTIVE"
  <2> DEFINE defaults == {o \in Orgs : mem[<<u, o>>].isDefault}
  <2>1. defaults \subseteq {Home[u]} /\ \A o \in defaults : mem[<<u, o>>].status = "ACTIVE"
    BY DEF MembershipInv
  <2>2. IsFiniteSet({Home[u]}) /\ Cardinality({Home[u]}) = 1
    BY FS_Singleton
  <2> HIDE DEF defaults
  <2>3. Cardinality(defaults) <= 1
    BY <2>1, <2>2, FS_Subset
  <2> QED
    BY <2>1, <2>3 DEF defaults
<1>2. DefaultsAreSound
  BY <1>1 DEF DefaultsAreSound
<1> QED
  BY <1>2 DEF MembershipInv, ActiveKeepsRole

\* Tenancy: the types, the members' and the lifecycle's invariants hold of
\* every behaviour.
THEOREM TenancyIsSound == Spec => [](TypeOK /\ MembershipInv /\ LifecycleInv)
<1>1. TypeOK /\ MembershipInv /\ LifecycleInv /\ [Next]_vars => (TypeOK /\ MembershipInv /\ LifecycleInv)'
  BY TenancyTypeStep, MembershipStep, LifecycleStep
<1> QED
  BY TenancyInit, <1>1, PTL DEF Spec

\* Tenancy: an organization in business has been set up: it is ready, and has
\* an owner.
THEOREM LiveStaysProvisioned == Spec => []LiveIsProvisioned
<1>1. LifecycleInv => LiveIsProvisioned
  BY DEF LifecycleInv, LiveIsProvisioned, Provisioned
<1> QED
  BY TenancyIsSound, <1>1, PTL

\* Tenancy: an organization moves along the lifecycle, and along no other way.
THEOREM LifecycleIsRespected == Spec => LifecycleRespected
<1>1. TypeOK /\ LifecycleInv /\ [Next]_vars
        => [\A o \in Orgs : org'[o] # org[o] => org'[o] \in Successors(org[o])]_vars
  BY LifecycleStep
<1> QED
  BY TenancyIsSound, <1>1, PTL DEF Spec, LifecycleRespected

-----------------------------------------------------------------------------
(* The parts together: a step is one of the module in focus.               *)

MCVars == <<focus, vars, workspaceVars, configurationVars, teamVars,
            providerVars, trailVars, maintenanceVars, guardVars>>

PartsInv ==
    /\ WorkspaceInv /\ ConfigurationInv /\ TeamsInv /\ ProvidersInv
    /\ TrailInv /\ MaintenanceInv /\ GuardsInv

\* Every step is a step of each part, or leaves it alone.
LEMMA OneMoves ==
    ASSUME [MCNext]_MCVars
    PROVE  /\ [Next]_vars /\ [Workspace!WorkspaceNext]_workspaceVars
           /\ [Configuration!ConfigurationNext]_configurationVars /\ [Team!TeamsNext]_teamVars
           /\ [Provider!ProvidersNext]_providerVars /\ [Trail!TrailNext]_trailVars
           /\ [Maintenance!MaintenanceNext]_maintenanceVars /\ [Guard!GuardsNext]_guardVars
  BY Zenon DEF MCNext, MCVars

\* The invariants of the parts hold in every state of the composition.
LEMMA PartsHold == MCSpec => []PartsInv
<1>1. MCInit => PartsInv
  BY WorkspaceStart, ConfigurationStart, TeamsStart, ProvidersStart, TrailStart, MaintenanceStart, GuardsStart,
     Zenon DEF MCInit, PartsInv
<1>2. PartsInv /\ [MCNext]_MCVars => PartsInv'
  BY OneMoves, WorkspaceStep, ConfigurationStep, TeamsStep, ProvidersStep, TrailStep, MaintenanceStep, GuardsStep,
     Zenon DEF PartsInv
<1> QED
  BY <1>1, <1>2, PTL DEF MCSpec, MCVars

\* A behaviour of the composition is one of Tenancy.
LEMMA TenancyIsFollowed == MCSpec => Spec
<1>1. MCInit => Init
  BY DEF MCInit
<1>2. [MCNext]_MCVars => [Next]_vars
  BY OneMoves
<1> QED
  BY <1>1, <1>2, PTL DEF MCSpec, Spec, MCVars

\* Tenancy: a user has one default organization at most, and it is one he is
\* active in; the roles of a membership are its tenant's; and no active
\* membership loses its role but by the race its module names.
THEOREM MembershipsStaySound == MCSpec => []MembershipsAreSound
<1>1. TypeOK /\ MembershipInv /\ LifecycleInv => MembershipsAreSound
  BY MembershipsFollow DEF MembershipsAreSound
<1> QED
  BY TenancyIsFollowed, TenancyIsSound, <1>1, PTL

\* Workspaces, OrganizationConfiguration, Teams, SsoProviders: however their
\* calls overlap, what they leave fits together outside the races named there.
THEOREM ConfigurationStaysConsistent == MCSpec => []ConfigurationIsConsistent
<1>1. WorkspaceInv => Workspace!WorkspaceTypeOK /\ Workspace!SelectionsFit
  BY DEF WorkspaceInv, Fits, Workspace!SelectionsFit
<1>2. ConfigurationInv => Configuration!ConfigurationTypeOK /\ Configuration!ZonesAgree
  BY DEF ConfigurationInv
<1>3. TeamsInv => Team!TeamsTypeOK /\ Team!TeamsAreReplaced
  BY DEF TeamsInv, Team!TeamsAreReplaced
<1>4. ProvidersInv => Provider!ProvidersTypeOK
  BY DEF ProvidersInv
<1>5. PartsInv => ConfigurationIsConsistent
  BY <1>1, <1>2, <1>3, <1>4, Zenon DEF PartsInv, ConfigurationIsConsistent
<1> QED
  BY <1>5, PartsHold, PTL

\* AuditTrail and MembershipMaintenance: the records balance with the
\* authorities that are there, and everybody in a plan that was reported
\* applied is a member.
THEOREM CommandsStayTrue == MCSpec => []CommandsReportTruly
<1>1. PartsInv => CommandsReportTruly
  BY TrailTypes DEF PartsInv, TrailInv, MaintenanceInv, CommandsReportTruly
<1> QED
  BY <1>1, PartsHold, PTL

\* RequestGuards: a platform request is let in on one moment at which its user
\* was active with the authority; a tenant request on a user who was active
\* when, or after, his membership permitted what the handler asks for.
THEOREM AdmissionsHaveGrounds == MCSpec => []GuardsAdmitOnGrounds
<1>1. PartsInv => GuardsAdmitOnGrounds
  BY DEF PartsInv, GuardsInv, Standing, LetIn, GuardsAdmitOnGrounds, Guard!AdmittedOnGrounds
<1> QED
  BY <1>1, PartsHold, PTL

\* Workspaces, OrganizationConfiguration, SsoProviders: no call undoes what
\* another one decided meanwhile, outside the races named there.
THEOREM DecisionsAreKept == MCSpec => DecisionsStand
<1>1. PartsInv /\ [MCNext]_MCVars
        => [workspace # None /\ workspace.archived /\ workspace' # workspace =>
              \E c \in Admins : Workspace!Is(c, "update") /\ editing[c].archived]_(Workspace!workspaceVars)
  BY OneMoves, ArchivedStep DEF PartsInv
<1>2. PartsInv /\ [MCNext]_MCVars
        => [\A d \in Hosts :
              /\ domain[d] # None /\ domain[d].status \in {"DISABLED", "VERIFIED"}
              /\ domain'[d].status # domain[d].status /\ configurations' = configurations
              => \E c \in Admins :
                   /\ configuring[c] # None /\ configuring'[c] # configuring[c]
                   /\ configuring[c].step \in {"marking", "failing"} /\ configuring[c].domain = d
                   /\ ~configuring[c].fresh \/ (configuring[c].step = "failing" /\ domain[d].verifiedAt)
           ]_(Configuration!configurationVars)
  BY OneMoves, SettledStep DEF PartsInv
<1>3. PartsInv /\ [MCNext]_MCVars
        => [\A c \in Admins :
              Provider!At(c, "validated") /\ connecting'[c] = None =>
                LET u == connecting[c]
                    row == provider[u.provider]
                IN /\ u.active = {} => provider'[u.provider].active = row.active
                   /\ \A k \in u.fresh :
                        u.routes[k] = {} => provider'[u.provider].routes[k] = row.routes[k]
           ]_(Provider!providerVars)
  BY OneMoves, ProvidersStand, Zenon DEF PartsInv
<1>4. PartsInv /\ [MCNext]_MCVars
        => [\A p \in ProviderIds :
              provider[p] # None /\ provider'[p] # None /\ provider'[p].tenant # provider[p].tenant =>
                \/ provider[p].tenant = None
                \/ \E c \in Admins : Provider!At(c, "adopting") /\ connecting'[c] = None /\ connecting[c].overlap
           ]_(Provider!providerVars)
  BY OneMoves, ProvidersStand, Zenon DEF PartsInv
<1>5. MCSpec => Workspace!ArchivedStays
  BY <1>1, PartsHold, PTL DEF MCSpec, MCVars, Workspace!ArchivedStays, Workspace!workspaceVars
<1>6. MCSpec => Configuration!SettledUnlessRaced
  BY <1>2, PartsHold, PTL DEF MCSpec, MCVars, Configuration!SettledUnlessRaced, Configuration!configurationVars
<1>7. MCSpec => Provider!UnnamedStays
  BY <1>3, PartsHold, PTL DEF MCSpec, MCVars, Provider!UnnamedStays, Provider!providerVars
<1>8. MCSpec => Provider!TenantUnlessRaced
  BY <1>4, PartsHold, PTL DEF MCSpec, MCVars, Provider!TenantUnlessRaced, Provider!providerVars
<1> QED
  BY <1>5, <1>6, <1>7, <1>8, PTL DEF DecisionsStand

\* AuditTrail and MembershipMaintenance: the commands complete what they find.
THEOREM CommandsComplete == MCSpec => CommandsOnlyComplete
<1>1. PartsInv /\ [MCNext]_MCVars
        => [<<log, archive>>' # <<log, archive>> =>
              /\ \A i \in 1..Len(log) :
                   /\ i <= Len(log') /\ [log'[i] EXCEPT !.scope = None] = [log[i] EXCEPT !.scope = None]
                   /\ archive[i].done => archive'[i] = archive[i]
              /\ \A tenant \in Tenants : Trail!ShownTo(tenant) \subseteq Trail!ShownTo(tenant)'
              /\ Trail!ShownToPlatform \subseteq Trail!ShownToPlatform']_(Trail!trailVars)
  BY OneMoves, RecordsStep, Zenon DEF PartsInv
<1>2. PartsInv /\ [MCNext]_MCVars
        => [memberships' # memberships /\ edits' = edits =>
              \A u \in Maintenance!Migrants, o \in Orgs : memberships[<<u, o>>] # None =>
                /\ memberships'[<<u, o>>] # None
                /\ memberships'[<<u, o>>].active = memberships[<<u, o>>].active
                /\ memberships[<<u, o>>].role # None => memberships'[<<u, o>>].role = memberships[<<u, o>>].role
           ]_(Maintenance!maintenanceVars)
  BY OneMoves, CommandsAdd, Zenon DEF PartsInv, People
<1>3. MCSpec => Trail!RecordsStay
  BY <1>1, PartsHold, PTL DEF MCSpec, MCVars, Trail!RecordsStay, Trail!trailVars
<1>4. MCSpec => Maintenance!CommandsOnlyAdd
  BY <1>2, PartsHold, PTL DEF MCSpec, MCVars, Maintenance!CommandsOnlyAdd, Maintenance!maintenanceVars
<1> QED
  BY <1>3, <1>4, PTL DEF CommandsOnlyComplete

=============================================================================
