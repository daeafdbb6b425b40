------------------------------ MODULE Tenancy ------------------------------
(***************************************************************************)
(* Organizations, their users, memberships and roles: the rows written by  *)
(* OrganizationsService, UsersService, OrganizationMembershipsService,     *)
(* TenantRbacService, TenantRolesService, RbacManagementService and the    *)
(* single sign-on services.                                                *)
(*                                                                         *)
(* Tenant requests run at READ COMMITTED: those that write what an earlier  *)
(* statement allowed, and no lock or constraint keeps allowed, take two    *)
(* actions; the others take one.  provision() and transition() are         *)
(* SERIALIZABLE: their snapshot is taken by their first statement, the one *)
(* that waits for the advisory lock, so they see the past, and they fail   *)
(* if a row they write has changed since.                                  *)
(***************************************************************************)
EXTENDS Integers, FiniteSets

CONSTANTS
    Users, Orgs,
    Home,         \* users.organizationId
    Established,  \* organizations that are in business when the model starts
    Founders,     \* their owners, users of Established organizations
    TenantRoles,  \* roles an organization may define for itself
    RoleOrg,      \* the organization of each
    SystemRole,   \* the protected ADMIN role
    NoRole,       \* roleId null
    Admins,       \* platform requests that may be under way at the same time
    Managed,      \* BOUND: the organizations they are about
    MaxChecked    \* BOUND: tenant requests between their check and their write

\* What is established has a founder; a role is no triple in `checked`.
ASSUME TenancyAssumption ==
    /\ Users # {} /\ Orgs # {}
    /\ Home \in [Users -> Orgs]
    /\ Established \subseteq Orgs
    /\ Founders \subseteq {u \in Users : Home[u] \in Established}
    /\ \A o \in Established : \E u \in Founders : Home[u] = o
    /\ RoleOrg \in [TenantRoles -> Orgs]
    /\ TenantRoles \cap (Users \X Orgs \X {"ABSENT", "ACTIVE", "SUSPENDED"}) = {}
    /\ Managed \subseteq Orgs
    /\ MaxChecked \in Nat
    /\ SystemRole \notin TenantRoles /\ NoRole \notin TenantRoles \cup {SystemRole}

VARIABLES
    user,       \* users: is the account there, is it active?
    mem,        \* organization_memberships, by user and organization
    role,       \* roles
    org,        \* organizations.status
    onboarding, \* organizations.onboardingStatus
    request,    \* platform requests under way
    checked,    \* what the requests between check and write will do: remove
                \* a role, or revoke the role of a membership they read as such
    orphans     \* history: memberships without a role, lost to a revoke() that
                \* found them suspended or with a role deleted under them

vars == <<user, mem, role, org, onboarding, request, checked, orphans>>
tenantVars == <<user, mem, role>>

Roles == TenantRoles \cup {SystemRole}
OrgStatus == {"PENDING_SETUP", "ACTIVE", "SUSPENDED", "ARCHIVED"}
Presence == {"absent", "active", "inactive"}
MembershipStatus == {"ABSENT", "ACTIVE", "SUSPENDED"}
Membership == [status : MembershipStatus, isDefault : BOOLEAN,
               isTenantOwner : BOOLEAN, role : Roles \cup {NoRole}]
Request == [kind : {"none", "transition", "provision", "failed"}, org : Orgs,
            may : SUBSET OrgStatus,  \* the transitions its snapshot allows
            owner : Users]           \* of a provision()

\* Type correctness: an organization shows the onboarding states between two
\* transactions only, so that IN_PROGRESS is never seen.
TypeOK ==
    /\ user \in [Users -> Presence]
    /\ mem \in [Users \X Orgs -> Membership]
    /\ role \in [Roles -> Presence]
    /\ org \in [Orgs -> OrgStatus]
    /\ onboarding \in [Orgs -> {"NOT_STARTED", "FAILED", "READY"}]
    /\ request \in [Admins -> Request]
    /\ checked \subseteq TenantRoles \cup (Users \X Orgs \X MembershipStatus)
    /\ orphans \subseteq Users \X Orgs

NoMembership == [status |-> "ABSENT", isDefault |-> FALSE, isTenantOwner |-> FALSE, role |-> NoRole]
Founding == [status |-> "ACTIVE", isDefault |-> TRUE, isTenantOwner |-> TRUE, role |-> SystemRole]

NoRequest == [kind |-> "none", org |-> CHOOSE o \in Orgs : TRUE, may |-> {},
              owner |-> CHOOSE u \in Users : TRUE]

\* OrganizationsService.create: PENDING_SETUP, NOT_STARTED.
Init ==
    /\ user = [u \in Users |-> IF u \in Founders THEN "active" ELSE "absent"]
    /\ mem = [m \in Users \X Orgs |->
                IF m[1] \in Founders /\ Home[m[1]] = m[2] THEN Founding ELSE NoMembership]
    /\ role = [r \in Roles |-> IF r = SystemRole THEN "active" ELSE "absent"]
    /\ org = [o \in Orgs |-> IF o \in Established THEN "ACTIVE" ELSE "PENDING_SETUP"]
    /\ onboarding = [o \in Orgs |-> IF o \in Established THEN "READY" ELSE "NOT_STARTED"]
    /\ request = [a \in Admins |-> NoRequest]
    /\ checked = {}
    /\ orphans = {}

\* A transaction that does not commit leaves nothing behind; provision() then
\* reports its failure in another.
Failed(req) ==
    IF req.kind = "provision" THEN [NoRequest EXCEPT !.kind = "failed", !.org = req.org]
    ELSE NoRequest

\* MUTANT of Bumped: a write that other transactions do not conflict with.
Bumped_Not(O) == request

\* The requests under way once the row of every organization in O is written,
\* by a status or by an increment of authorizationVersion: the serializable
\* transactions that are to write one of them will fail.
Bumped(O) ==
    [a \in Admins |-> IF request[a].kind \in {"transition", "provision"} /\ request[a].org \in O
                      THEN Failed(request[a]) ELSE request[a]]

\* Tenant requests come from organizations that are or have been in business:
\* a context resolved before a suspension may still be at work after it.
InBusiness(o) == org[o] # "PENDING_SETUP"

RolesOf(o) == {SystemRole} \cup {r \in TenantRoles : RoleOrg[r] = o}

\* resolveMembershipRole, and the look-up of TenantRbacService.assign: an
\* active role of the platform or of this organization.
Assignable(r, o) == r \in RolesOf(o) /\ role[r] = "active"
----------------------------------------------------------------------------
\* UsersService.create with createInitialMembership.
CreateUser(u, r) ==
    /\ user[u] = "absent" /\ InBusiness(Home[u]) /\ Assignable(r, Home[u])
    /\ user' = [user EXCEPT ![u] = "active"]
    /\ mem' = [mem EXCEPT ![<<u, Home[u]>>] = [Founding EXCEPT !.isTenantOwner = FALSE, !.role = r]]
    /\ UNCHANGED <<role, org, onboarding, request, checked, orphans>>

\* assertOwnerCanBeDeactivated, in a transaction that sees accounts acc.
ActiveOwners(o, acc) ==
    {u \in Users : /\ mem[<<u, o>>].status = "ACTIVE" /\ mem[<<u, o>>].isTenantOwner
                   /\ acc[u] = "active"}
MayBeDeactivated(u, o, acc) ==
    u \in ActiveOwners(o, acc) => Cardinality(ActiveOwners(o, acc)) > 1

\* UsersService.deactivate: the account is made inactive first; then, in the
\* same transaction, suspendForUser looks at the owners and suspends.
Deactivate(u) ==
    LET o == Home[u]
        acc == [user EXCEPT ![u] = "inactive"]
    IN  /\ user[u] # "absent" /\ InBusiness(o)
        /\ MayBeDeactivated(u, o, acc)
        /\ user' = acc
        /\ mem' = IF mem[<<u, o>>].status # "ACTIVE" THEN mem
                  ELSE [mem EXCEPT ![<<u, o>>].status = "SUSPENDED", ![<<u, o>>].isDefault = FALSE]
        /\ request' = Bumped({o})
        /\ UNCHANGED <<role, org, onboarding, checked, orphans>>

\* UsersService.activate with activateForUser: the home membership becomes the
\* default one, and every other gives that up.
Activate(u) ==
    LET o == Home[u]
    IN  /\ user[u] = "inactive" /\ InBusiness(o)
        /\ mem[<<u, o>>].status # "ABSENT"
        /\ user' = [user EXCEPT ![u] = "active"]
        /\ mem' = [m \in Users \X Orgs |->
                     IF m = <<u, o>> THEN [mem[m] EXCEPT !.status = "ACTIVE", !.isDefault = TRUE]
                     ELSE IF m[1] = u THEN [mem[m] EXCEPT !.isDefault = FALSE]
                     ELSE mem[m]]
        /\ request' = Bumped({o})
        /\ UNCHANGED <<role, org, onboarding, checked, orphans>>

\* UsersService.updateUserRole and TenantRbacService.assign.
AssignRole(u, o, r) ==
    /\ InBusiness(o) /\ mem[<<u, o>>].status # "ABSENT" /\ Assignable(r, o)
    /\ mem' = [mem EXCEPT ![<<u, o>>].role = r]
    /\ orphans' = orphans \ {<<u, o>>}
    /\ request' = Bumped({o})
    /\ UNCHANGED <<user, role, org, onboarding, checked>>

Check(what) ==
    /\ Cardinality(checked \cup {what}) <= MaxChecked
    /\ checked' = checked \cup {what}
    /\ UNCHANGED <<tenantVars, org, onboarding, request, orphans>>

\* MUTANT of RevokeCheck: without the look at the status.
RevokeCheck_Always(u, o) ==
    /\ InBusiness(o) /\ mem[<<u, o>>].status # "ABSENT"
    /\ Check(<<u, o, mem[<<u, o>>].status>>)

\* TenantRbacService.revoke: refused to a membership that it reads as active ...
RevokeCheck(u, o) ==
    /\ InBusiness(o) /\ mem[<<u, o>>].status = "SUSPENDED"
    /\ Check(<<u, o, mem[<<u, o>>].status>>)

\* ... and otherwise written, whatever it has become.
RevokeRole(u, o, status) ==
    /\ <<u, o, status>> \in checked
    /\ checked' = checked \ {<<u, o, status>>}
    /\ mem' = [mem EXCEPT ![<<u, o>>].role = NoRole]
    /\ orphans' = IF status = "SUSPENDED" THEN orphans \cup {<<u, o>>} ELSE orphans
    /\ request' = Bumped({o})
    /\ UNCHANGED <<user, role, org, onboarding>>

\* TenantRolesService.create and update, TenantRbacService.create and update.
\* Only the last looks for active memberships before it disables a role, and
\* the first, alone, writes no version.
DefineRole(r, p) ==
    /\ InBusiness(RoleOrg[r]) /\ role[r] # p
    /\ role' = [role EXCEPT ![r] = p]
    /\ request' = IF role[r] = "absent" THEN request ELSE Bumped({RoleOrg[r]})
    /\ UNCHANGED <<user, mem, org, onboarding, checked, orphans>>

\* RbacManagementService.updateRole.
ToggleSystemRole ==
    /\ role' = [role EXCEPT ![SystemRole] = IF @ = "active" THEN "inactive" ELSE "active"]
    /\ request' = Bumped(Orgs)
    /\ UNCHANGED <<user, mem, org, onboarding, checked, orphans>>

Holders(r) == {m \in Users \X Orgs : mem[m].role = r}

\* TenantRolesService.remove: the counts are read by one statement ...
RemoveCheck(r) ==
    InBusiness(RoleOrg[r]) /\ role[r] # "absent" /\ Holders(r) = {} /\ Check(r)

\* ... and the role is deleted by another; roleId is ON DELETE SET NULL.
RemoveDelete(r) ==
    /\ r \in checked
    /\ checked' = checked \ {r}
    /\ role' = [role EXCEPT ![r] = "absent"]
    /\ mem' = [m \in Users \X Orgs |->
                 IF m \in Holders(r) THEN [mem[m] EXCEPT !.role = NoRole] ELSE mem[m]]
    /\ orphans' = orphans \cup Holders(r)
    /\ UNCHANGED <<user, org, onboarding, request>>

\* OidcService.resolveIdentity, SamlService.resolveUser: the mapped role r is
\* used for a new membership and for one that has no usable role.
SsoJoin(u, o, r) ==
    LET m == mem[<<u, o>>]
    IN  /\ InBusiness(o) /\ user[u] # "inactive"
        /\ user[u] = "absent" => Home[u] = o
        /\ Assignable(r, o)
        /\ \/ m.status = "ABSENT"
           \/ m.status = "ACTIVE" /\ ~Assignable(m.role, o)
        /\ user' = [user EXCEPT ![u] = "active"]
        /\ mem' = [mem EXCEPT ![<<u, o>>] = [m EXCEPT !.status = "ACTIVE", !.role = r]]
        /\ orphans' = orphans \ {<<u, o>>}
        /\ UNCHANGED <<role, org, onboarding, request, checked>>
----------------------------------------------------------------------------
\* LIFECYCLE_TRANSITIONS
Successors(status) ==
    CASE status = "PENDING_SETUP" -> {"ACTIVE", "ARCHIVED"}
      [] status = "ACTIVE" -> {"SUSPENDED", "ARCHIVED"}
      [] status = "SUSPENDED" -> {"ACTIVE", "ARCHIVED"}
      [] status = "ARCHIVED" -> {}

\* assertActivationReady: owners with an active account and a usable role.
Owned(o) ==
    \E u \in ActiveOwners(o, user) : Assignable(mem[<<u, o>>].role, o)

\* MUTANT of Allowed: does not look for an owner.
Allowed_Ownerless(o) ==
    {target \in Successors(org[o]) :
        target = "ACTIVE" => onboarding[o] # "NOT_STARTED"}

\* The targets transition() accepts.
Allowed(o) ==
    {target \in Successors(org[o]) :
        target = "ACTIVE" => onboarding[o] = "READY" /\ Owned(o)}

Begin(a, asked) ==
    /\ request[a].kind = "none"
    /\ request' = [request EXCEPT ![a] = asked]
    /\ UNCHANGED <<tenantVars, org, onboarding, checked, orphans>>

\* A request that is refused at once changes nothing, and is left out.
BeginTransition(a, o) ==
    Allowed(o) # {} /\ Begin(a, [NoRequest EXCEPT !.kind = "transition", !.org = o, !.may = Allowed(o)])

\* Only an account the snapshot shows active can become the owner, and only
\* while there is an active SYSTEM ADMIN role; otherwise provision() fails.
BeginProvision(a, o, u) ==
    /\ org[o] = "PENDING_SETUP"
    /\ IF user[u] = "active" /\ role[SystemRole] = "active"
       THEN Begin(a, [NoRequest EXCEPT !.kind = "provision", !.org = o, !.owner = u])
       ELSE Begin(a, [NoRequest EXCEPT !.kind = "failed", !.org = o])

\* OrganizationsService.transition: activate, suspend, resume, archive.
Transition(a, target) ==
    /\ request[a].kind = "transition" /\ target \in request[a].may
    /\ org' = [org EXCEPT ![request[a].org] = target]
    /\ request' = [Bumped({request[a].org}) EXCEPT ![a] = NoRequest]
    /\ UNCHANGED <<tenantVars, onboarding, checked, orphans>>

\* OrganizationsService.provision: the owner's membership is upserted, and the
\* onboarding is READY.
Provision(a) ==
    LET o == request[a].org
        m == mem[<<request[a].owner, o>>]
    IN  /\ request[a].kind = "provision"
        /\ mem' = [mem EXCEPT ![<<request[a].owner, o>>] =
                     [m EXCEPT !.status = "ACTIVE", !.isTenantOwner = TRUE, !.role = SystemRole]]
        /\ onboarding' = [onboarding EXCEPT ![o] = "READY"]
        /\ request' = [Bumped({o}) EXCEPT ![a] = NoRequest]
        /\ orphans' = orphans \ {<<request[a].owner, o>>}
        /\ UNCHANGED <<user, role, org, checked>>

\* A transaction under way may fail for any other reason.
RequestFails(a) ==
    /\ request[a].kind \in {"transition", "provision"}
    /\ request' = [request EXCEPT ![a] = Failed(request[a])]
    /\ UNCHANGED <<tenantVars, org, onboarding, checked, orphans>>

\* recordProvisioningFailure: a transaction of its own, which itself may fail.
RecordFailure(a) ==
    LET o == request[a].org
    IN  /\ request[a].kind = "failed"
        /\ \/ /\ org[o] = "PENDING_SETUP"
              /\ onboarding' = [onboarding EXCEPT ![o] = "FAILED"]
              /\ request' = [Bumped({o}) EXCEPT ![a] = NoRequest]
           \/ UNCHANGED onboarding /\ request' = [request EXCEPT ![a] = NoRequest]
        /\ UNCHANGED <<tenantVars, org, checked, orphans>>
----------------------------------------------------------------------------
TenantRequest ==
    \/ \E u \in Users, r \in Roles : CreateUser(u, r)
    \/ \E u \in Users : Deactivate(u) \/ Activate(u)
    \/ \E u \in Users, o \in Orgs, r \in Roles : AssignRole(u, o, r)
    \/ \E u \in Users, o \in Orgs :
         \/ RevokeCheck(u, o)
         \/ \E status \in MembershipStatus : RevokeRole(u, o, status)
    \/ \E r \in TenantRoles, p \in {"active", "inactive"} : DefineRole(r, p)
    \/ \E r \in TenantRoles : RemoveCheck(r) \/ RemoveDelete(r)
    \/ \E u \in Users, o \in Orgs, r \in Roles : SsoJoin(u, o, r)

PlatformRequest ==
    \/ ToggleSystemRole
    \/ \E a \in Admins :
         \/ \E o \in Managed : BeginTransition(a, o)
         \/ \E o \in Managed, u \in Users : BeginProvision(a, o, u)
         \/ \E target \in OrgStatus : Transition(a, target)
         \/ Provision(a)
         \/ RequestFails(a)
         \/ RecordFailure(a)

Next == TenantRequest \/ PlatformRequest

Spec == Init /\ [][Next]_vars

----------------------------------------------------------------------------
\* A user has at most one default membership, and it is an active one: the
\* CHECK and the partial unique index on organization_memberships never have
\* to refuse a statement (createInitialMembership, suspend-, activateForUser).
DefaultsAreSound ==
    \A u \in Users :
        LET defaults == {o \in Orgs : mem[<<u, o>>].isDefault}
        IN  /\ Cardinality(defaults) <= 1
            /\ \A o \in defaults : mem[<<u, o>>].status = "ACTIVE"

\* A membership only ever holds an existing role of the platform or of its own
\* organization, whoever assigned, mapped, disabled or deleted it meanwhile.
RolesStayInTenant ==
    \A u \in Users, o \in Orgs :
        LET r == mem[<<u, o>>].role
        IN  r # NoRole => r \in RolesOf(o) /\ role[r] # "absent"

\* An active membership without a role lost it to a revoke() that found it
\* suspended, or to a remove() that had found the role unused.
ActiveKeepsRole ==
    \A u \in Users, o \in Orgs :
        (mem[<<u, o>>].status = "ACTIVE" /\ mem[<<u, o>>].role = NoRole) => <<u, o>> \in orphans

\* Concurrent platform requests move an organization along its lifecycle only;
\* an archived one stays archived (LIFECYCLE_TRANSITIONS).
LifecycleRespected ==
    [][\A o \in Orgs : org'[o] # org[o] => org'[o] \in Successors(org[o])]_vars

\* No organization is in business that was not provisioned with an owner, even
\* if a late failure report races with its activation (provision, transition).
LiveIsProvisioned ==
    \A o \in Orgs : org[o] \in {"ACTIVE", "SUSPENDED"} =>
        /\ onboarding[o] = "READY"
        /\ \E u \in Users : mem[<<u, o>>].isTenantOwner /\ mem[<<u, o>>].status # "ABSENT"

\* docs/tenant-scoped-rbac-fix-000091.md: "once active owners exist, concurrent
\* deactivation cannot transition the tenant to zero".
LastOwnerStays ==
    [][\A o \in Orgs : ActiveOwners(o, user) # {} => ActiveOwners(o, user)' # {}]_vars
============================================================================
