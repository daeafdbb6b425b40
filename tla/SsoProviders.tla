---------------------------- MODULE SsoProviders ----------------------------
(***************************************************************************)
(* The providers of single sign-on as they are administered:               *)
(* SsoProviderService, and the command that gives the providers of the     *)
(* time before tenants to an organization (sso-tenant-maintenance.ts).     *)
(*                                                                         *)
(* A provider is found by its routes, e-mail domains and subdomains; a     *)
(* route is unique among all providers.  isActive stands for the fields    *)
(* that an update writes only when it names them, and the mapping of       *)
(* groups to roles for the lists it replaces when it names them.  What     *)
(* SignOn models, the deletion of a provider and the logins, is not here.  *)
(***************************************************************************)
EXTENDS FiniteSets, Integers

CONSTANTS
    ProviderIds,
    Tenants,     \* organizations in business
    Names,       \* values of routes
    MapRoles,    \* roles a tenant may map groups to
    Calls,       \* calls of the API and commands under way at the same time
    None,
    MaxChanges   \* BOUND: calls that are begun

VARIABLES
    provider,    \* sso_providers with their routes and mappings; None: no row
    usable,      \* roles: those that are active
    call,        \* calls under way
    changes      \* BOUND's counter

providerVars == <<provider, usable, call, changes>>

Kinds == {"DOMAIN", "SUBDOMAIN"}
Routes == [Kinds -> SUBSET Names]
NoRoutes == [k \in Kinds |-> {}]

\* allowed: allowedDomains
Provider == [tenant : Tenants \cup {None}, active : BOOLEAN, allowed : SUBSET Names,
             routes : Routes, mapped : SUBSET MapRoles]

\* What an update names, or does not.
Optional(S) == {{}} \cup {{x} : x \in S}

\* An update names, or does not, whether it is active, the routes of either
\* kind, and the mapping; the routes it read; fresh is history: the kinds
\* nobody has written since.
UpdateCall == [step : {"validated"}, provider : ProviderIds, tenant : Tenants,
               active : Optional(BOOLEAN), routes : [Kinds -> Optional(SUBSET Names)],
               mapped : Optional(SUBSET MapRoles), read : Routes, fresh : SUBSET Kinds]
\* A command has found providers without an organization; overlap is history:
\* another command found one of them too.
AdoptCall == [step : {"adopting"}, tenant : Tenants, pending : SUBSET ProviderIds, overlap : BOOLEAN]

\* What the constants are; assumed where this module is instantiated.
ProvidersAssumption ==
    /\ None \notin Tenants \cup ProviderIds \cup Provider \cup UpdateCall
    /\ MaxChanges \in Nat

At(c, step) == call[c] # None /\ call[c].step = step
Return(c) == call' = [call EXCEPT ![c] = None]
Exists(p) == provider[p] # None

ProvidersInit ==
    /\ provider \in [ProviderIds -> {None} \cup
         [tenant : {None}, active : {TRUE}, allowed : SUBSET Names, routes : {NoRoutes}, mapped : {{}}]]
    /\ usable = MapRoles
    /\ call = [c \in Calls |-> None]
    /\ changes = 0

-----------------------------------------------------------------------------
\* The routes of the other providers.
Taken(p, k) == UNION {IF q # p /\ Exists(q) THEN provider[q].routes[k] ELSE {} : q \in ProviderIds}
RoutesFree(p, routes) == \A k \in Kinds : routes[k] \cap Taken(p, k) = {}

\* createProvider: the insert fails when a route is taken.
CreateProvider(p, o, routes, mapped) ==
    /\ changes < MaxChanges
    /\ ~Exists(p) /\ mapped \subseteq usable /\ RoutesFree(p, routes)
    /\ provider' = [provider EXCEPT ![p] = [tenant |-> o, active |-> TRUE, allowed |-> {},
                                            routes |-> routes, mapped |-> mapped]]
    /\ changes' = changes + 1
    /\ UNCHANGED <<usable, call>>

\* updateProvider reads the provider of this organization, validates the
\* mapping's roles ...
UpdateBegin(c, p, o, active, routes, mapped) ==
    /\ call[c] = None /\ changes < MaxChanges
    /\ Exists(p) /\ provider[p].tenant = o
    /\ \A roles \in mapped : roles \subseteq usable
    /\ call' = [call EXCEPT ![c] =
         [step |-> "validated", provider |-> p, tenant |-> o, active |-> active, routes |-> routes,
          mapped |-> mapped, read |-> provider[p].routes, fresh |-> Kinds]]
    /\ changes' = changes + 1
    /\ UNCHANGED <<provider, usable>>

Named(kept, given) == IF given = {} THEN kept ELSE CHOOSE x \in given : TRUE

\* When it names one kind of routes, all are deleted, and those of the other
\* kind are created again as they were read.
NewRoutes(row, u) ==
    IF \A k \in Kinds : u.routes[k] = {} THEN row.routes
    ELSE [k \in Kinds |-> Named(u.read[k], u.routes[k])]

\* The row once the update is written.
Updated(row, u) ==
    [row EXCEPT !.active = Named(row.active, u.active), !.mapped = Named(row.mapped, u.mapped),
                !.routes = NewRoutes(row, u)]

\* A write of routes, seen by the updates under way.
Rewritten(c, written, kinds) ==
    [d \in Calls |->
        IF d = c THEN None
        ELSE IF At(d, "validated") /\ call[d].provider \in written THEN [call[d] EXCEPT !.fresh = @ \ kinds]
        ELSE call[d]]

\* ... and writes by the id what it names, in one transaction, which fails
\* when a route is taken.
UpdateEnd(c) ==
    /\ At(c, "validated")
    /\ LET p == call[c].provider
           row == Updated(provider[p], call[c])
       IN IF Exists(p) /\ RoutesFree(p, row.routes)
          THEN /\ provider' = [provider EXCEPT ![p] = row]
               /\ call' = Rewritten(c, {p}, {k \in Kinds : row.routes[k] # provider[p].routes[k]})
          ELSE Return(c) /\ UNCHANGED provider
    /\ UNCHANGED <<usable, changes>>

\* disableProvider
DisableProvider(p, o) ==
    /\ changes < MaxChanges
    /\ Exists(p) /\ provider[p].tenant = o /\ provider[p].active
    /\ provider' = [provider EXCEPT ![p].active = FALSE]
    /\ changes' = changes + 1
    /\ UNCHANGED <<usable, call>>

\* discoverPublicProviders
Discovered(k, n) == {p \in ProviderIds : Exists(p) /\ n \in provider[p].routes[k] /\ provider[p].active}

-----------------------------------------------------------------------------
(* The command.                                                            *)

\* MUTANT of Pending: all providers are taken.
Pending_All == {p \in ProviderIds : Exists(p)}

Pending == {p \in ProviderIds : Exists(p) /\ provider[p].tenant = None}

\* ssoTenantPreflight: no two providers allow one domain.
Ready == \A p, q \in ProviderIds :
    Exists(p) /\ Exists(q) /\ p # q => provider[p].allowed \cap provider[q].allowed = {}

\* ssoTenantBackfill finds the providers before its transaction ...
AdoptBegin(c, o) ==
    /\ call[c] = None /\ changes < MaxChanges
    /\ Ready
    /\ LET others == {d \in Calls : At(d, "adopting") /\ call[d].pending \cap Pending # {}}
       IN call' = [d \in Calls |->
            IF d = c THEN [step |-> "adopting", tenant |-> o, pending |-> Pending, overlap |-> others # {}]
            ELSE IF d \in others THEN [call[d] EXCEPT !.overlap = TRUE] ELSE call[d]]
    /\ changes' = changes + 1
    /\ UNCHANGED <<provider, usable>>

\* ... which gives them to the organization by their ids, and makes routes of
\* the domains they allow, except for those that are taken.
AdoptEnd(c) ==
    /\ At(c, "adopting")
    /\ provider' = [p \in ProviderIds |->
         IF p \notin call[c].pending \/ ~Exists(p) THEN provider[p]
         ELSE [provider[p] EXCEPT !.tenant = call[c].tenant,
                                  !.routes["DOMAIN"] = @ \cup (provider[p].allowed \ Taken(p, "DOMAIN"))]]
    /\ call' = Rewritten(c, call[c].pending, {"DOMAIN"})
    /\ UNCHANGED <<usable, changes>>

-----------------------------------------------------------------------------
\* A role is deactivated.
DeactivateRole(r) ==
    /\ r \in usable /\ changes < MaxChanges
    /\ usable' = usable \ {r}
    /\ changes' = changes + 1
    /\ UNCHANGED <<provider, call>>

ProvidersDie(c) ==
    /\ call[c] # None
    /\ Return(c)
    /\ UNCHANGED <<provider, usable, changes>>

ProvidersNext ==
    \/ \E p \in ProviderIds, o \in Tenants :
         \/ DisableProvider(p, o)
         \/ \E routes \in Routes, mapped \in SUBSET MapRoles : CreateProvider(p, o, routes, mapped)
         \/ \E c \in Calls, active \in Optional(BOOLEAN),
               routes \in [Kinds -> Optional(SUBSET Names)], mapped \in Optional(SUBSET MapRoles) :
              UpdateBegin(c, p, o, active, routes, mapped)
    \/ \E c \in Calls : UpdateEnd(c) \/ AdoptEnd(c) \/ ProvidersDie(c) \/ \E o \in Tenants : AdoptBegin(c, o)
    \/ \E r \in MapRoles : DeactivateRole(r)

ProvidersSpec == ProvidersInit /\ [][ProvidersNext]_providerVars

-----------------------------------------------------------------------------
(* Properties.                                                             *)

\* Types of the providers.
ProvidersTypeOK ==
    /\ provider \in [ProviderIds -> Provider \cup {None}]
    /\ usable \subseteq MapRoles
    /\ call \in [Calls -> UpdateCall \cup AdoptCall \cup {None}]

\* An update leaves what it does not name: whether the provider is active,
\* even one disabled since the update read it, and the routes of the other
\* kind, unless these were written since: they are created again as read.
UnnamedStays ==
    [][\A c \in Calls :
         At(c, "validated") /\ call'[c] = None =>
           LET u == call[c]
               row == provider[u.provider]
           IN /\ u.active = {} => provider'[u.provider].active = row.active
              /\ \A k \in u.fresh :
                   u.routes[k] = {} => provider'[u.provider].routes[k] = row.routes[k]]_providerVars

\* A provider that belongs to an organization never goes to another, unless
\* two commands found it without one at the same time.
TenantUnlessRaced ==
    [][\A p \in ProviderIds :
         provider[p] # None /\ provider'[p] # None /\ provider'[p].tenant # provider[p].tenant =>
           \/ provider[p].tenant = None
           \/ \E c \in Calls : At(c, "adopting") /\ call'[c] = None /\ call[c].overlap]_providerVars
=============================================================================
