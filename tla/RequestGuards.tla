--------------------------- MODULE RequestGuards ---------------------------
(***************************************************************************)
(* How a request of one user passes the guards, each of which reads the    *)
(* database for itself: JwtStrategy, TenantResolverService and             *)
(* PermissionsGuard at the doors of a tenant, PlatformJwtStrategy and      *)
(* PlatformAdminGuard at those of the platform.                            *)
(*                                                                         *)
(* Every row is read by a statement of its own, the relations of an        *)
(* include or a select too, and sees what is committed by then.  At the    *)
(* doors of a tenant: the account, the membership, its organization, its   *)
(* role, what the role is granted, and the account once more; at those of  *)
(* the platform: the account, the authority, and the authority's user.     *)
(*                                                                         *)
(* The request carries a valid access token with the claims of a           *)
(* membership.  What a role is granted is read here: the cache in front of *)
(* it is in Authorization.                                                 *)
(***************************************************************************)
EXTENDS Integers

CONSTANTS
    Permissions,
    Roles,
    None,
    MaxChanges   \* BOUND: changes of the rows under one behaviour

\* What the constants are; assumed where this module is instantiated.
GuardsAssumption == MaxChanges \in Nat /\ None \notin Roles

VARIABLES
    user,        \* the rows of the user
    request,     \* the request under way
    seen,        \* history: what the rows were since the request began
    changes      \* BOUND's counter

guardVars == <<user, request, seen, changes>>

\* The account is active, has the e-mail address of the token, and holds
\* platform authority; the role of the membership, if that is active; whether
\* its organization is; and of every role, whether it is and what it is granted.
User == [active : BOOLEAN, email : BOOLEAN, authority : BOOLEAN,
         role : Roles \cup {None}, organization : BOOLEAN,
         roleActive : [Roles -> BOOLEAN], granted : [Roles -> SUBSET Permissions]]

Policy == [actions : SUBSET Permissions, mode : {"all", "any"}]
Open == [actions |-> {}, mode |-> "all"]

\* A request: what it has passed, the membership's role and the permissions it
\* has read.  history: stale, a row it had read has changed; mixed, and after
\* that a row it had still to read.
Request == [at : {"idle", "tenant", "account", "membership", "organization", "role", "context",
                  "tenant admitted", "platform", "identified", "authority", "platform admitted"},
            policy : Policy, role : Roles \cup {None}, context : SUBSET Permissions,
            stale : BOOLEAN, mixed : BOOLEAN]

Arriving(door, policy) ==
    [at |-> door, policy |-> policy, role |-> None, context |-> {}, stale |-> FALSE, mixed |-> FALSE]
Idle == Arriving("idle", Open)

UnderWay == request.at \notin {"idle", "tenant admitted", "platform admitted"}

GuardsInit ==
    /\ user \in {u \in User : u.active /\ u.email /\ ~u.authority}
    /\ request = Idle
    /\ seen = {}
    /\ changes = 0

\* A guard has read a row and found it good.
Passes(from, to) ==
    /\ request.at = from
    /\ request' = [request EXCEPT !.at = to]
    /\ UNCHANGED <<user, seen, changes>>

-----------------------------------------------------------------------------
(* The doors of a tenant.                                                  *)

\* A request reaches a handler with a policy, or without one: no actions.
Arrive(policy, door) ==
    /\ request.at = "idle"
    /\ request' = Arriving(door, policy)
    /\ seen' = {user}
    /\ UNCHANGED <<user, changes>>

\* JwtStrategy.validate: resolveAuthenticatedTenant reads the account ...
ReadAccount == user.active /\ Passes("tenant", "account")

\* ... the membership of the claims ...
ReadMembership ==
    /\ request.at = "account"
    /\ user.role # None
    /\ request' = [request EXCEPT !.at = "membership", !.role = user.role]
    /\ UNCHANGED <<user, seen, changes>>

\* ... by its include, the organization and the role ...
ReadOrganization == Passes("membership", "organization") /\ user.organization

ReadRole == Passes("organization", "role") /\ user.roleActive[request.role]

\* ... and what the role is granted, which is the context.
ReadGrants ==
    /\ request.at = "role"
    /\ request' = [request EXCEPT !.at = "context", !.context = user.granted[request.role]]
    /\ UNCHANGED <<user, seen, changes>>

\* PermissionsGuard reads the account again.
StillActive == user.active

\* Permissions and AnyPermission.
Allows(policy, context) ==
    CASE policy.mode = "all" -> policy.actions \subseteq context
      [] policy.mode = "any" -> policy.actions \cap context # {}

\* PermissionsGuard: a handler without a policy is open to every context.
PermissionsGuard ==
    /\ request.policy.actions # {} => StillActive /\ Allows(request.policy, request.context)
    /\ Passes("context", "tenant admitted")

-----------------------------------------------------------------------------
(* The doors of the platform.                                              *)

\* PlatformJwtStrategy.validate.
ReadPlatformUser == user.active /\ user.email /\ Passes("platform", "identified")

\* PlatformAdminGuard reads the authority ...
ReadAuthority == user.authority /\ Passes("identified", "authority")

\* MUTANT of ReadAuthorityUser: without the look at the account.
ReadAuthorityUser_Row == Passes("authority", "platform admitted")

\* ... and by its select, the user who holds it.
ReadAuthorityUser == user.active /\ Passes("authority", "platform admitted")

-----------------------------------------------------------------------------
\* A guard refuses, or the handler has run.
Leave ==
    /\ request.at # "idle"
    /\ request' = Idle
    /\ seen' = {}
    /\ UNCHANGED <<user, changes>>

\* The rows that decide, in the order in which they are read; the first look at
\* the account decides nothing that the last does not.
Platform == {"platform", "identified", "authority"}
ToRead ==
    CASE request.at \in {"platform", "identified"} -> {"authority", "account"}
      [] request.at = "authority" -> {"account"}
      [] request.at \in {"tenant", "account"} ->
           {"membership", "organization", "role", "granted", "account"}
      [] request.at = "membership" -> {"organization", "role", "granted", "account"}
      [] request.at = "organization" -> {"role", "granted", "account"}
      [] request.at = "role" -> {"granted", "account"}
      [] request.at = "context" -> {"account"}
HaveRead ==
    (IF request.at \in Platform THEN {"authority", "account"}
     ELSE {"membership", "organization", "role", "granted", "account"}) \ ToRead

\* One of the rows, of this role if it is a role's, becomes another.
Becomes(row, role, row2) ==
    LET concerns == row \in {"role", "granted"} /\ request.role # None => role = request.role
    IN  /\ row2 # user
        /\ user' = row2
        /\ seen' = IF UnderWay THEN seen \cup {row2} ELSE seen
        /\ request' = IF UnderWay
                      THEN [request EXCEPT !.stale = @ \/ (row \in HaveRead /\ concerns),
                                           !.mixed = @ \/ (request.stale /\ row \in ToRead /\ concerns)]
                      ELSE request

\* Administrators and commands change one of the rows.  A grant of authority
\* is for an active account, but may commit after its deactivation.
Change ==
    /\ changes < MaxChanges
    /\ changes' = changes + 1
    /\ \/ \E active, email \in BOOLEAN :
            Becomes("account", None, [user EXCEPT !.active = active, !.email = email])
       \/ Becomes("authority", None, [user EXCEPT !.authority = ~@])
       \/ \E role \in Roles \cup {None} : Becomes("membership", None, [user EXCEPT !.role = role])
       \/ Becomes("organization", None, [user EXCEPT !.organization = ~@])
       \/ \E role \in Roles :
            Becomes("role", role, [user EXCEPT !.roleActive = [@ EXCEPT ![role] = ~@]])
       \/ \E role \in Roles, given \in SUBSET Permissions :
            Becomes("granted", role, [user EXCEPT !.granted = [@ EXCEPT ![role] = given]])

GuardsNext ==
    \/ Arrive(Open, "platform") \/ \E policy \in Policy : Arrive(policy, "tenant")
    \/ ReadAccount \/ ReadMembership \/ ReadOrganization \/ ReadRole \/ ReadGrants
    \/ PermissionsGuard
    \/ ReadPlatformUser \/ ReadAuthority \/ ReadAuthorityUser
    \/ Leave
    \/ Change

GuardsSpec == GuardsInit /\ [][GuardsNext]_guardVars

-----------------------------------------------------------------------------
(* Properties.                                                             *)

\* Types of the rows and of the request.
GuardsTypeOK ==
    /\ user \in User
    /\ request \in Request
    /\ seen \subseteq User /\ changes \in 0..MaxChanges

\* Rows u that let a request with the policy in: a handler without one asks for
\* a membership only.
Grounds(u, policy) ==
    /\ u.role # None /\ u.organization /\ u.roleActive[u.role]
    /\ policy.actions # {} => u.active /\ Allows(policy, u.granted[u.role])

\* Although no guard holds on to what the one before it has read, a request is
\* let in on rows that were good together at one moment since it began: the
\* account, the membership, its organization, its role and what the role is
\* granted, or the account and the authority.  The one exception is a row that
\* changes after it was read and another that changes later, before it is read.
\* Even so each of them was good at some moment, all for one and the same role.
AdmittedOnGrounds ==
    /\ request.at = "platform admitted" =>
         /\ request.mixed \/ \E u \in seen : u.active /\ u.authority
         /\ \E a, u \in seen : a.active /\ u.authority
    /\ request.at = "tenant admitted" =>
         /\ request.mixed \/ \E u \in seen : Grounds(u, request.policy)
         /\ \E m, o, r, g, a \in seen :
              /\ m.role # None /\ o.organization /\ r.roleActive[m.role] /\ a.active
              /\ request.policy.actions # {} => Allows(request.policy, g.granted[m.role])
=============================================================================
