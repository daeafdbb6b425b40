--------------------------- MODULE Authorization ---------------------------
(***************************************************************************)
(* What a member of one organization may do: the permissions granted to    *)
(* the role of the membership (TenantRbacService, TenantRolesService,      *)
(* RbacManagementService, AdminPermissionsService), and the cached answer  *)
(* of one process (TenantResolverService) under the authorizationVersion   *)
(* of the organization.                                                    *)
(*                                                                         *)
(* Transactions run at READ COMMITTED.  A write that depends on nothing    *)
(* read before, or whose check could as well have run just before it, is   *)
(* one action; a transaction that acts on rows it selected earlier takes   *)
(* an action for each.  Everything else a membership is (its user, owner   *)
(* flag and teams) is in Tenancy.                                          *)
(***************************************************************************)
EXTENDS Integers, FiniteSets

CONSTANTS
    Members,
    TenantRoles,
    SystemRole,
    Permissions,
    Admins,     \* administrators' requests under way at the same time
    Readers,    \* resolutions of a tenant context under way at the same time
    None,       \* no role, no entry, no request
    MaxVersion, \* BOUND: changes of the organization's authorization
    MaxUnderWay \* BOUND: requests and resolutions between two statements

Roles == TenantRoles \cup {SystemRole}

ASSUME AuthorizationAssumption ==
    /\ SystemRole \notin TenantRoles /\ None \notin Roles
    /\ MaxVersion \in Nat /\ MaxUnderWay \in Nat

VARIABLES
    member,     \* organization_memberships: an active membership of an active
                \* account, and its role
    role,       \* roles: is it there, is it active?
    grants,     \* role_permissions
    permission, \* permissions: is it there, is it active?
    version,    \* organizations.authorizationVersion
    cache,      \* node-cache: the entry of each membership under the version;
                \* those under older versions are not asked for again
    request,    \* administrators' transactions between two statements
    reader,     \* resolutions between two statements
    excused     \* history: memberships whose entry may be wrong, because of
                \* one of the three races named at ServedIsGranted

vars == <<member, role, grants, permission, version, cache, request, reader, excused>>
rows == <<member, role, grants, permission>>

Presence == {"absent", "active", "inactive"}
Versions == 0 .. MaxVersion
MembershipRow == [active : BOOLEAN, role : Roles \cup {None}]

Request == [op : {"replace"}, role : Roles, want : SUBSET Permissions,
            selected : SUBSET Permissions,
            raced : BOOLEAN]  \* history: others have granted meanwhile
    \cup [op : {"permission"}, permission : Permissions, to : Presence,
          holders : SUBSET Roles, affected : {"unread", "yes", "no"}]
    \cup [op : {"remove"}, role : TenantRoles]
ASSUME NoneIsNoRequest == None \notin Request

Reading == [member : Members, role : Roles, seen : Versions,
            version : Versions, next : {"organization", "grants"}]

\* Type correctness; only active permissions of a role that is there are ever
\* granted to a membership, and nothing is granted of a deleted permission.
TypeOK ==
    /\ member \in [Members -> MembershipRow]
    /\ role \in [Roles -> Presence]
    /\ grants \in [Roles -> SUBSET Permissions]
    /\ permission \in [Permissions -> Presence]
    /\ version \in Versions
    /\ cache \in [Members -> (SUBSET Permissions) \cup {None}]
    /\ request \in [Admins -> Request \cup {None}]
    /\ reader \in [Readers -> Reading \cup {None}]
    /\ excused \subseteq Members
    /\ \A r \in Roles : \A p \in grants[r] : role[r] # "absent" /\ permission[p] # "absent"

\* The seed: a system role that holds every permission, and bare tenant roles.
Init ==
    /\ member = [m \in Members |-> [active |-> TRUE, role |-> SystemRole]]
    /\ role = [r \in Roles |-> "active"]
    /\ grants = [r \in Roles |-> IF r = SystemRole THEN Permissions ELSE {}]
    /\ permission = [p \in Permissions |-> "active"]
    /\ version = 0
    /\ cache = [m \in Members |-> None]
    /\ request = [a \in Admins |-> None]
    /\ reader = [d \in Readers |-> None]
    /\ excused = {}

Holds(m) == member[m].role
Holders(r) == {m \in Members : Holds(m) = r}
Granted(r) == {p \in grants[r] : permission[p] = "active"}
Eligible(m) == member[m].active /\ Holds(m) # None /\ role[Holds(m)] = "active"

Asks(a, op) == request[a] # None /\ request[a].op = op
UnderWay == Cardinality({a \in Admins : request[a] # None})
            + Cardinality({d \in Readers : reader[d] # None})

Ask(a, asked) ==
    /\ request[a] = None /\ UnderWay < MaxUnderWay
    /\ request' = [request EXCEPT ![a] = asked]
    /\ UNCHANGED <<rows, version, cache, reader, excused>>

\* MUTANT of Bump: the new version is lost.
Bump_Lost == UNCHANGED <<version, cache, excused>>

\* bumpAndAudit, and the increments for every organization.
Bump ==
    /\ version < MaxVersion
    /\ version' = version + 1
    /\ cache' = [m \in Members |-> None]
    /\ excused' = {}

-----------------------------------------------------------------------------
(* Memberships.                                                            *)

\* TenantRbacService.assign, UsersService.updateUserRole.
Assign(m, r) ==
    /\ role[r] = "active"
    /\ member' = [member EXCEPT ![m].role = r]
    /\ Bump
    /\ UNCHANGED <<role, grants, permission, request, reader>>

\* TenantRbacService.revoke; its race with an activation is in Tenancy.
Revoke(m) ==
    /\ ~member[m].active
    /\ member' = [member EXCEPT ![m].role = None]
    /\ Bump
    /\ UNCHANGED <<role, grants, permission, request, reader>>

\* UsersService.activate, deactivate.
SetActive(m, active) ==
    /\ active # member[m].active
    /\ member' = [member EXCEPT ![m].active = active]
    /\ Bump
    /\ UNCHANGED <<role, grants, permission, request, reader>>

\* A single sign-on gives the mapped role to an active membership that has no
\* usable one; it writes no version.
SsoRole(m, r) ==
    /\ member[m].active /\ ~Eligible(m) /\ role[r] = "active"
    /\ member' = [member EXCEPT ![m].role = r]
    /\ excused' = excused \cup {m}
    /\ UNCHANGED <<role, grants, permission, version, cache, request, reader>>

-----------------------------------------------------------------------------
(* Roles.                                                                  *)

\* RbacManagementService.updateRole, TenantRolesService.update and
\* TenantRbacService.update, which looks for active memberships first when it
\* disables a role: what that refuses, the second may do.
SetRole(r, p) ==
    /\ role[r] # "absent" /\ p # "absent" /\ role[r] # p
    /\ role' = [role EXCEPT ![r] = p]
    /\ Bump
    /\ UNCHANGED <<member, grants, permission, request, reader>>

\* TenantRolesService.remove: the memberships are counted ...
RemoveCheck(a, r) ==
    role[r] # "absent" /\ Holders(r) = {} /\ Ask(a, [op |-> "remove", role |-> r])

\* ... and the role is deleted, with its grants; a membership it was given to
\* meanwhile keeps none.  No version is written.
RemoveDelete(a) ==
    /\ Asks(a, "remove")
    /\ LET r == request[a].role
       IN /\ role' = [role EXCEPT ![r] = "absent"]
          /\ grants' = [grants EXCEPT ![r] = {}]
          /\ member' = [m \in Members |-> IF m \in Holders(r) THEN [member[m] EXCEPT !.role = None]
                                          ELSE member[m]]
    /\ request' = [request EXCEPT ![a] = None]
    /\ UNCHANGED <<permission, version, cache, reader, excused>>

-----------------------------------------------------------------------------
(* Grants.                                                                 *)

Deleting(p) == \E b \in Admins : /\ Asks(b, "permission") /\ request[b].permission = p
                                 /\ request[b].to = "absent" /\ request[b].affected # "unread"

\* May a row of role_permissions be inserted?  Its foreign keys wait for the
\* deletion of the permission.
Grantable(r, P) ==
    /\ role[r] # "absent"
    /\ \A p \in P : permission[p] # "absent" /\ ~Deleting(p)

\* The requests once a transaction has granted to the role r.
Raced(r) ==
    [b \in Admins |-> IF Asks(b, "replace") /\ request[b].role = r
                      THEN [request[b] EXCEPT !.raced = TRUE] ELSE request[b]]

\* AdminPermissionsService: assign and revoke, one or several at once.
GrantSystem(P) ==
    /\ role[SystemRole] = "active" /\ P # {} /\ P \cap grants[SystemRole] = {}
    /\ Grantable(SystemRole, P)
    /\ grants' = [grants EXCEPT ![SystemRole] = @ \cup P]
    /\ request' = Raced(SystemRole)
    /\ Bump
    /\ UNCHANGED <<member, role, permission, reader>>

RevokeSystem(P) ==
    /\ role[SystemRole] = "active" /\ P # {} /\ P \subseteq grants[SystemRole]
    /\ grants' = [grants EXCEPT ![SystemRole] = @ \ P]
    /\ Bump
    /\ UNCHANGED <<member, role, permission, request, reader>>

\* TenantRbacService.replacePermissions and replaceRolePermissions: deleteMany
\* selects the grants of the role in its own snapshot ...
ReplaceDelete(a, r, want) ==
    /\ role[r] # "absent"
    /\ Ask(a, [op |-> "replace", role |-> r, want |-> want, selected |-> grants[r], raced |-> FALSE])

\* MUTANT of ReplaceInsert: adds without taking anything away.
ReplaceInsert_Adds(a) ==
    /\ Asks(a, "replace")
    /\ LET r == request[a].role
           want == request[a].want
       IN IF ~Grantable(r, want)
          THEN UNCHANGED <<grants, version, cache, excused>> /\ request' = [request EXCEPT ![a] = None]
          ELSE /\ grants' = [grants EXCEPT ![r] = @ \cup want] /\ Bump
               /\ request' = [Raced(r) EXCEPT ![a] = None]
    /\ UNCHANGED <<member, role, permission, reader>>

\* ... createMany adds those asked for, or fails if one of them is there or
\* its key is gone, and the transaction ends.
ReplaceInsert(a) ==
    /\ Asks(a, "replace")
    /\ LET r == request[a].role
           want == request[a].want
           left == grants[r] \ request[a].selected
       IN IF want \cap left # {} \/ ~Grantable(r, want)
          THEN UNCHANGED <<grants, version, cache, excused>> /\ request' = [request EXCEPT ![a] = None]
          ELSE /\ grants' = [grants EXCEPT ![r] = left \cup want] /\ Bump
               /\ request' = [Raced(r) EXCEPT ![a] = None]
    /\ UNCHANGED <<member, role, permission, reader>>

-----------------------------------------------------------------------------
(* Permissions.                                                            *)

\* createPermission.
CreatePermission(p) ==
    /\ permission[p] = "absent"
    /\ permission' = [permission EXCEPT ![p] = "active"]
    /\ UNCHANGED <<member, role, grants, version, cache, request, reader, excused>>

\* updatePermission (isActive) and deletePermission read the grants of the
\* permission first ...
PermissionRead(a, p, to) ==
    /\ permission[p] \notin {"absent", to}
    /\ Ask(a, [op |-> "permission", permission |-> p, to |-> to, affected |-> "unread",
               holders |-> {r \in Roles : p \in grants[r]}])

\* ... write the permission, which keeps other such writes away, and then look
\* which organizations are affected: that of a tenant role, and those with an
\* active membership of a system role ...
PermissionAffected(a) ==
    /\ Asks(a, "permission") /\ request[a].affected = "unread"
    /\ ~\E b \in Admins \ {a} : /\ Asks(b, "permission") /\ request[b].affected # "unread"
                                /\ request[b].permission = request[a].permission
    /\ permission[request[a].permission] # "absent"
    /\ LET present == {r \in request[a].holders : role[r] # "absent"}
           affected == \/ present \cap TenantRoles # {}
                       \/ SystemRole \in present /\ \E m \in Holders(SystemRole) : member[m].active
       IN request' = [request EXCEPT ![a].affected = IF affected THEN "yes" ELSE "no"]
    /\ UNCHANGED <<rows, version, cache, reader, excused>>

\* MUTANT of PermissionCommit: the grants do not go with the permission.
PermissionCommit_KeepsGrants(a) ==
    /\ Asks(a, "permission") /\ request[a].affected # "unread"
    /\ LET p == request[a].permission
           late == {m \in Members : Holds(m) # None /\ p \in grants[Holds(m)]}
       IN /\ permission' = [permission EXCEPT ![p] = request[a].to]
          /\ IF request[a].affected = "yes" THEN Bump
             ELSE excused' = excused \cup late /\ UNCHANGED <<version, cache>>
    /\ request' = [request EXCEPT ![a] = None]
    /\ UNCHANGED <<member, role, grants, reader>>

\* ... whose version moves when it commits.  The others are not told, whoever
\* has been given the permission in the meantime.
PermissionCommit(a) ==
    /\ Asks(a, "permission") /\ request[a].affected # "unread"
    /\ LET p == request[a].permission
           late == {m \in Members : Holds(m) # None /\ p \in grants[Holds(m)]}
       IN /\ permission' = [permission EXCEPT ![p] = request[a].to]
          /\ grants' = IF request[a].to = "absent" THEN [r \in Roles |-> grants[r] \ {p}] ELSE grants
          /\ IF request[a].affected = "yes" THEN Bump
             ELSE excused' = excused \cup late /\ UNCHANGED <<version, cache>>
    /\ request' = [request EXCEPT ![a] = None]
    /\ UNCHANGED <<member, role, reader>>

\* A permission that was deleted meanwhile is not found, and a transaction may
\* fail for any other reason.
Fail(a) ==
    /\ request[a] # None
    /\ request' = [request EXCEPT ![a] = None]
    /\ UNCHANGED <<rows, version, cache, reader, excused>>

-----------------------------------------------------------------------------
(* Resolution.                                                             *)

\* findMembership: the membership ...
ResolveMembership(d, m) ==
    /\ reader[d] = None /\ UnderWay < MaxUnderWay
    /\ member[m].active /\ Holds(m) # None
    /\ reader' = [reader EXCEPT ![d] = [member |-> m, role |-> Holds(m), seen |-> version,
                                        version |-> version, next |-> "organization"]]
    /\ UNCHANGED <<rows, version, cache, request, excused>>

\* ... and, with statements of their own, the organization with its version and
\* the role.  An unusable role is refused, an entry is served, and otherwise
\* buildContext goes on to the grants.
ResolveOrganization(d) ==
    /\ reader[d] # None /\ reader[d].next = "organization"
    /\ LET c == reader[d]
           done == role[c.role] # "active" \/ cache[c.member] # None
       IN reader' = [reader EXCEPT ![d] = IF done THEN None
                                          ELSE [c EXCEPT !.version = version, !.next = "grants"]]
    /\ UNCHANGED <<rows, version, cache, request, excused>>

\* The active permissions granted to the role are stored under the version.
ResolveGrants(d) ==
    /\ reader[d] # None /\ reader[d].next = "grants"
    /\ LET c == reader[d]
       IN IF c.version = version
          THEN /\ cache' = [cache EXCEPT ![c.member] = Granted(c.role)]
               /\ excused' = IF c.seen = c.version THEN excused ELSE excused \cup {c.member}
          ELSE UNCHANGED <<cache, excused>>
    /\ reader' = [reader EXCEPT ![d] = None]
    /\ UNCHANGED <<rows, version, request>>

\* MUTANT of Evict: no stdTTL.
Evict_Never(m) == FALSE /\ UNCHANGED vars

\* node-cache drops an entry after 600 seconds, a restart drops all of them.
Evict(m) ==
    /\ cache[m] # None
    /\ cache' = [cache EXCEPT ![m] = None]
    /\ UNCHANGED <<rows, version, request, reader, excused>>

-----------------------------------------------------------------------------
Next ==
    \/ \E m \in Members, r \in Roles : Assign(m, r) \/ SsoRole(m, r)
    \/ \E m \in Members : Revoke(m) \/ Evict(m)
    \/ \E m \in Members, active \in BOOLEAN : SetActive(m, active)
    \/ \E r \in Roles, p \in Presence : SetRole(r, p)
    \/ \E P \in SUBSET Permissions : GrantSystem(P) \/ RevokeSystem(P)
    \/ \E p \in Permissions : CreatePermission(p)
    \/ \E a \in Admins :
         \/ \E r \in TenantRoles : RemoveCheck(a, r)
         \/ RemoveDelete(a)
         \/ \E r \in Roles, want \in SUBSET Permissions : ReplaceDelete(a, r, want)
         \/ ReplaceInsert(a)
         \/ \E p \in Permissions, to \in Presence : PermissionRead(a, p, to)
         \/ PermissionAffected(a)
         \/ PermissionCommit(a)
         \/ Fail(a)
    \/ \E d \in Readers :
         \/ \E m \in Members : ResolveMembership(d, m)
         \/ ResolveOrganization(d)
         \/ ResolveGrants(d)

Spec == Init /\ [][Next]_vars

\* node-cache checks its entries for their age, whatever else happens.
FairSpec == Spec /\ \A m \in Members : WF_vars(Evict(m))

-----------------------------------------------------------------------------
(* Properties.                                                             *)

\* The entry a request of m would be served is not what is granted to m now.
Outdated(m) ==
    Eligible(m) /\ cache[m] # None /\ cache[m] # Granted(Holds(m))

\* buildContext never serves permissions that the role of the membership does
\* not give now, but after one of these races, until the next version:
\*   - the membership was read before a version and the organization after it;
\*   - a permission changed that the role was given, or that came into use
\*     here, after incrementAuthorizationVersionsForRoleIds had looked;
\*   - a single sign-on replaced a role that had been deleted or disabled.
ServedIsGranted == \A m \in Members \ excused : ~Outdated(m)

\* A replacement leaves exactly the permissions it was asked for, unless others
\* have granted to the role since it selected what to delete: then the two
\* requests add up.
ReplacedExactly ==
    [][\A a \in Admins :
         (Asks(a, "replace") /\ request'[a] = None /\ version' # version) =>
            request[a].raced \/ grants'[request[a].role] = request[a].want]_vars

\* Whatever the race, outdated permissions are served for a bounded time.
OutdatedLapses == \A m \in Members : Outdated(m) ~> ~Outdated(m)
=============================================================================
