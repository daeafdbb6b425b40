---------------------------- MODULE LoginContext ----------------------------
(***************************************************************************)
(* Which tenant a session of one user is in: TenantResolverService, under  *)
(* the login, refresh() and switchTenant() of AuthService, with the        *)
(* fallback of resolveLoginContext to a session of the platform only.      *)
(*                                                                         *)
(* Every row is read by a statement of its own, the relations of an        *)
(* include or a select too, and sees what is committed by then: for a      *)
(* tenant the account, the membership, its organization and its role; for  *)
(* the platform the authority and its user.  The step of a call names the  *)
(* row it reads next.  What a login does before the password is compared   *)
(* is in PasswordLogin; how sessions end, and the reuse of a rotated       *)
(* token, is in Sessions; here a session is live until it is rotated.      *)
(***************************************************************************)
EXTENDS FiniteSets, Integers

CONSTANTS
    Orgs,        \* organizations
    Roles,
    Platform,    \* the context of a platform administrator without a tenant
    None,
    Tokens,      \* refresh sessions
    Calls,       \* calls of the API under way at the same time
    MaxChanges   \* BOUND: changes of the rows under one behaviour

VARIABLES
    account,  \* what decides: the rows of the user, its tenants and roles
    allowed,  \* organizations whose allowPasswordLogin is not false
    session,  \* refresh_sessions, with the context of their tokens
    call,     \* calls under way
    changes   \* BOUND's counter

contextVars == <<account, allowed, session, call, changes>>

\* What generateRefreshToken puts into a token, for parseTenantContext to find.
Contexts == Orgs \cup {Platform}

\* That at most one membership is the default is shown in Tenancy.
Account == [active : BOOLEAN,              \* users.isActive
            admin : BOOLEAN,               \* platform_authorities: PLATFORM_ADMIN
            member : SUBSET Orgs,          \* memberships that are ACTIVE
            role : [Orgs -> Roles \cup {None}],
            default : Orgs \cup {None},
            organizations : SUBSET Orgs,   \* those that are ACTIVE
            roles : SUBSET Roles]          \* active, of the tenant or the system

\* from: the session a refresh has replaced, or None.
SessionRow == [live : BOOLEAN, context : Contexts, from : Tokens \cup {None}]

TenantReads == {"account", "membership", "organization", "role"}
PlatformReads == {"authority", "holder"}

\* history: what the rows were while the call reads those of one context; stale,
\* a row it had read has changed; mixed, and after that a row it had to read.
Call == [kind : {"login", "refresh", "leave", "select"},
         step : {"owner"} \cup TenantReads \cup PlatformReads \cup {"policy", "opening", "renewing", "rotating"},
         token : Tokens \cup {None},        \* the session a refresh presents
         to : Orgs \cup {None},             \* where switchTenant goes
         org : Orgs \cup {None},            \* claimed, or found by a search
         role : Roles \cup {None},          \* of the membership it has read
         context : Contexts \cup {None},    \* what has been resolved
         stale : BOOLEAN, mixed : BOOLEAN, seen : SUBSET Account]

\* What the constants are; assumed where this module is instantiated.
ContextAssumption ==
    /\ Platform \notin Orgs /\ None \notin Orgs \cup {Platform} /\ None \notin Roles
    /\ MaxChanges \in Nat /\ None \notin Tokens \cup SessionRow \cup Call

At(c, step) == call[c] # None /\ call[c].step = step
Live(t) == session[t] # None /\ session[t].live

\* The next id of a session.  BOUND: no call begins without one.
Fresh == LET unused == {t \in Tokens : session[t] = None}
         IN IF unused = {} THEN {} ELSE {CHOOSE t \in unused : TRUE}

\* Before any call the user belongs to every organization, by the same role,
\* which may be one that is not active.
ContextInit ==
    /\ \E admin \in BOOLEAN, o \in Orgs, r \in Roles, active \in SUBSET Roles :
         account = [active |-> TRUE, admin |-> admin, member |-> Orgs, role |-> [x \in Orgs |-> r],
                    default |-> o, organizations |-> Orgs, roles |-> active]
    /\ allowed = Orgs
    /\ session = [t \in Tokens |-> None]
    /\ call = [c \in Calls |-> None]
    /\ changes = 0

NewCall(kind) == [kind |-> kind, step |-> "owner", token |-> None, to |-> None, org |-> None, role |-> None,
                  context |-> None, stale |-> FALSE, mixed |-> FALSE, seen |-> {}]

\* k begins to read the rows of the organization o, or of the one it will find.
Asks(k, o) == [k EXCEPT !.step = "account", !.org = o, !.role = None,
                        !.stale = FALSE, !.mixed = FALSE, !.seen = {account}]
AsksPlatform(k) == [k EXCEPT !.step = "authority", !.org = None, !.role = None,
                             !.stale = FALSE, !.mixed = FALSE, !.seen = {account}]

\* A refusal, or a statement that fails, ends the call; in a login's look for a
\* tenant it is caught, and the login asks for the platform.
Refused(k) == IF k.kind = "login" /\ k.step \in TenantReads THEN AsksPlatform(k) ELSE None

\* c goes on as `then`, if what it has read is good.
GoesOn(c, good, then) ==
    /\ call' = [call EXCEPT ![c] = IF good THEN then ELSE Refused(call[c])]
    /\ UNCHANGED <<account, allowed, session, changes>>

-----------------------------------------------------------------------------
(* The calls.                                                              *)

\* login() has found the password right.
LogIn(c) ==
    /\ call[c] = None /\ Fresh # {}
    /\ GoesOn(c, TRUE, Asks(NewCall("login"), None))

\* refresh(), or switchTenant() to an organization, with the token t ...
Present(c, t, to) ==
    /\ call[c] = None /\ Fresh # {}
    /\ Live(t)
    /\ GoesOn(c, TRUE, [NewCall(IF to = None THEN "refresh" ELSE "leave") EXCEPT !.token = t, !.to = to])

\* ... whose user getActiveSession includes.  A refresh stays where its token is;
\* switchTenant() first resolves where that is: from the platform as if there
\* were no claims, but never as the platform.
ReadOwner(c) ==
    /\ At(c, "owner")
    /\ LET x == session[call[c].token].context
       IN  GoesOn(c, account.active,
                  IF x # Platform THEN Asks(call[c], x)
                  ELSE IF call[c].kind = "refresh" THEN AsksPlatform(call[c])
                  ELSE Asks(call[c], None))

\* resolveAuthenticatedTenant, selectTenant: the account ...
ReadAccount(c) ==
    /\ At(c, "account")
    /\ GoesOn(c, account.active, [call[c] EXCEPT !.step = "membership"])

\* Without claims: the active default membership of an active organization, or
\* else the only active one.
Sole ==
    LET active == account.member \cap account.organizations
    IN IF account.default \in active THEN {account.default}
       ELSE IF Cardinality(active) = 1 THEN active ELSE {}

\* ... the membership claimed, or the one that is found ...
ReadMembership(c) ==
    /\ At(c, "membership")
    /\ LET found == IF call[c].org = None THEN Sole ELSE {call[c].org} \cap account.member
       IN  \/ \E o \in found :
                GoesOn(c, TRUE, [call[c] EXCEPT !.step = "organization", !.org = o, !.role = account.role[o]])
           \/ found = {} /\ GoesOn(c, FALSE, None)

\* ... by its include, the organization ...
ReadOrganization(c) ==
    /\ At(c, "organization")
    /\ GoesOn(c, call[c].org \in account.organizations, [call[c] EXCEPT !.step = "role"])

\* ... and the role.  switchTenant() then asks for the tenant it goes to.
ReadRole(c) ==
    /\ At(c, "role")
    /\ GoesOn(c, call[c].role \in account.roles,
              IF call[c].kind = "leave" THEN Asks([call[c] EXCEPT !.kind = "select"], call[c].to)
              ELSE [call[c] EXCEPT !.step = IF call[c].kind = "login" THEN "policy" ELSE "renewing",
                                   !.context = call[c].org])

\* MUTANT of ReadHolder: without the look at the account.
ReadHolder_Row(c) ==
    /\ At(c, "holder")
    /\ GoesOn(c, TRUE, [call[c] EXCEPT !.step = IF call[c].kind = "login" THEN "opening" ELSE "renewing",
                                       !.context = Platform])

\* resolveLoginContext, for a session of the platform only: the authority ...
ReadAuthority(c) ==
    /\ At(c, "authority")
    /\ GoesOn(c, account.admin, [call[c] EXCEPT !.step = "holder"])

\* ... and by its select, the user who holds it.
ReadHolder(c) ==
    /\ At(c, "holder")
    /\ GoesOn(c, account.active,
              [call[c] EXCEPT !.step = IF call[c].kind = "login" THEN "opening" ELSE "renewing",
                              !.context = Platform])

\* login() reads the settings of the organization.
ReadPolicy(c) ==
    /\ At(c, "policy")
    /\ GoesOn(c, call[c].context \in allowed, [call[c] EXCEPT !.step = "opening"])

\* buildSessionLoginResponse
OpenSession(c) ==
    /\ At(c, "opening")
    /\ \E t \in Fresh :
         session' = [session EXCEPT ![t] = [live |-> TRUE, context |-> call[c].context, from |-> None]]
    /\ call' = [call EXCEPT ![c] = None]
    /\ UNCHANGED <<account, allowed, changes>>

\* rotateRefreshToken looks at the account again ...
ReadRenewed(c) ==
    /\ At(c, "renewing")
    /\ GoesOn(c, account.active, [call[c] EXCEPT !.step = "rotating"])

\* ... and then the conditional update, and the successor.
Rotate(c) ==
    /\ At(c, "rotating")
    /\ LET s == call[c].token
       IN IF session[s].live
          THEN \E t \in Fresh :
                 session' = [session EXCEPT
                   ![s].live = FALSE,
                   ![t] = [live |-> TRUE, context |-> call[c].context,
                           from |-> IF call[c].kind = "refresh" THEN s ELSE None]]
          ELSE UNCHANGED session
    /\ call' = [call EXCEPT ![c] = None]
    /\ UNCHANGED <<account, allowed, changes>>

-----------------------------------------------------------------------------
(* The environment.                                                        *)

\* The rows that decide what k asks for, and those of them it has still to read.
Decides(k) == IF k.step \in PlatformReads THEN {"authority", "account"} ELSE TenantReads
ToRead(k) ==
    CASE k.step = "account" -> TenantReads
      [] k.step = "membership" -> {"membership", "organization", "role"}
      [] k.step = "organization" -> {"organization", "role"}
      [] k.step = "role" -> {"role"}
      [] k.step = "authority" -> {"authority", "account"}
      [] k.step = "holder" -> {"account"}

\* One of the rows, of this organization or role if it is of one, changes before
\* k has read all it reads.
Meanwhile(k, row, of, rows) ==
    LET concerns == CASE row \in {"membership", "organization"} -> k.org \in {None, of}
                      [] row = "role" -> k.role \in {None, of}
                      [] OTHER -> TRUE
    IN [k EXCEPT !.stale = @ \/ (row \in Decides(k) \ ToRead(k) /\ concerns),
                 !.mixed = @ \/ (k.stale /\ row \in ToRead(k) /\ concerns),
                 !.seen = @ \cup {rows}]

Reading(c) == call[c] # None /\ call[c].step \in TenantReads \cup PlatformReads

Becomes(row, of, rows) ==
    /\ rows # account
    /\ account' = rows
    /\ call' = [c \in Calls |-> IF Reading(c) THEN Meanwhile(call[c], row, of, rows) ELSE call[c]]
    /\ UNCHANGED <<allowed, session>>

Switched(S, x) == IF x \in S THEN S \ {x} ELSE S \cup {x}

\* Administrators and commands change one of the rows, or a policy.
Change ==
    /\ changes < MaxChanges
    /\ changes' = changes + 1
    /\ \/ Becomes("account", None, [account EXCEPT !.active = ~@])
       \/ Becomes("authority", None, [account EXCEPT !.admin = ~@])
       \/ \E o \in Orgs \cup {None} : Becomes("default", None, [account EXCEPT !.default = o])
       \/ \E o \in Orgs, r \in Roles \cup {None} : \E member \in {account.member, Switched(account.member, o)} :
            Becomes("membership", o, [account EXCEPT !.member = member, !.role = [@ EXCEPT ![o] = r]])
       \/ \E o \in Orgs : Becomes("organization", o, [account EXCEPT !.organizations = Switched(@, o)])
       \/ \E r \in Roles : Becomes("role", r, [account EXCEPT !.roles = Switched(@, r)])
       \/ \E o \in Orgs : allowed' = Switched(allowed, o) /\ UNCHANGED <<account, session, call>>

\* The process stops, or a statement fails.
CallDies(c) ==
    /\ call[c] # None
    /\ call' \in {[call EXCEPT ![c] = None], [call EXCEPT ![c] = Refused(call[c])]}
    /\ UNCHANGED <<account, allowed, session, changes>>

ContextNext ==
    \/ \E c \in Calls :
         \/ LogIn(c) \/ \E t \in Tokens, to \in Orgs \cup {None} : Present(c, t, to)
         \/ ReadOwner(c) \/ ReadAccount(c) \/ ReadMembership(c) \/ ReadOrganization(c) \/ ReadRole(c)
         \/ ReadAuthority(c) \/ ReadHolder(c) \/ ReadPolicy(c)
         \/ OpenSession(c) \/ ReadRenewed(c) \/ Rotate(c) \/ CallDies(c)
    \/ Change

ContextSpec == ContextInit /\ [][ContextNext]_contextVars

-----------------------------------------------------------------------------
(* Properties.                                                             *)

\* Types of the rows, the sessions and the calls.
ContextTypeOK ==
    /\ account \in Account /\ allowed \subseteq Orgs
    /\ session \in [Tokens -> SessionRow \cup {None}]
    /\ call \in [Calls -> Call \cup {None}]
    /\ changes \in 0 .. MaxChanges

\* By the rows a, the user may be in the context x.
Holds(a, x) ==
    a.active /\ IF x = Platform THEN a.admin
                ELSE x \in a.member /\ x \in a.organizations /\ a.role[x] \in a.roles

\* A session is opened only in a context that the user held at one moment while
\* the call read the rows of it, each by a statement of its own.  The one
\* exception is a row that changes after it was read and another that changes
\* later, before it is read.  Even so each of them was good at some moment,
\* all for one and the same role.
EntersHeldContext ==
    [][\A t \in Tokens : session[t] = None /\ session'[t] # None =>
         \E c \in Calls : call[c] # None /\ call'[c] = None /\
           LET x == session'[t].context
               seen == call[c].seen
           IN  /\ call[c].mixed \/ \E a \in seen : Holds(a, x)
               /\ \E a \in seen : a.active
               /\ IF x = Platform THEN \E a \in seen : a.admin
                  ELSE /\ \E o \in seen : x \in o.organizations
                       /\ \E m, r \in seen : x \in m.member /\ m.role[x] \in r.roles]_contextVars

\* A refresh stays where its token was, also when another membership has
\* become the default: only switchTenant moves a session.
RefreshStays ==
    \A t \in Tokens : session[t] # None /\ session[t].from # None =>
        session[session[t].from].context = session[t].context
=============================================================================
