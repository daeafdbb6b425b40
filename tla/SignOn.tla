------------------------------- MODULE SignOn -------------------------------
(***************************************************************************)
(* Single sign-on of one organization: OidcService, SamlService,           *)
(* SsoTicketService, the exchange of a ticket for a session, and the       *)
(* deletion of a provider.                                                 *)
(*                                                                         *)
(* A login leaves the application with a state (SsoAuthTransaction),       *)
(* returns to a callback, which finds or provisions the user and creates a *)
(* ticket, and ends with the exchange of the ticket.  Each await is a      *)
(* place where other calls run.  OIDC works on the provider that was read  *)
(* with the state, and in one serializable transaction; SAML reads the     *)
(* provider anew, and writes statement by statement.                       *)
(*                                                                         *)
(* What the identity provider and its libraries check is external: the     *)
(* assertion names any person, with or without a group that is mapped to a *)
(* role, and with an address whose domain the provider allows or not.      *)
(* People are the users they become.                                       *)
(***************************************************************************)
EXTENDS FiniteSets, Integers

CONSTANTS
    Oidc, Saml,  \* the providers of either type
    Users,       \* people, by their address
    States,      \* sso_auth_transactions
    Tickets,     \* sso_login_tickets
    Calls,       \* calls of the API under way at the same time
    None,
    MaxChanges   \* BOUND: changes by administrators

Providers == Oidc \cup Saml

VARIABLES
    provider,    \* sso_providers; None: deleted
    user,        \* users.isActive; None: not a user yet
    membership,  \* organization_memberships of the organization
    identity,    \* external_identities
    state,       \* sso_auth_transactions
    ticket,      \* sso_login_tickets
    call,        \* calls under way
    changes,     \* BOUND's counter
    opened       \* history: the sessions opened with a ticket

signOnVars == <<provider, user, membership, identity, state, ticket, call, changes, opened>>

ProviderRow == [active : BOOLEAN, autoProvision : BOOLEAN]
MembershipRow == [active : BOOLEAN, usable : BOOLEAN]  \* status; the role
StateRow == [provider : Providers, open : BOOLEAN,     \* consumedAt is null
             late : BOOLEAN]                           \* expiresAt has passed

\* by and shared are history: the state of the login, and whether another
\* exchange of the ticket ran at the same time.
TicketRow == [user : Users, provider : Providers \cup {None}, open : BOOLEAN,
              by : States, shared : BOOLEAN]

\* The calls of a callback, an exchange and a deletion, as records of what
\* they carry from step to step.
CallbackCall == [step : {"consuming", "consumed", "asserted", "admitting", "linking", "ticketing"},
                 state : States, provider : Providers,
                 active : BOOLEAN, auto : BOOLEAN,    \* of the provider, as read
                 user : Users \cup {None}, mapped : BOOLEAN, allowed : BOOLEAN,
                 linked : BOOLEAN, seen : MembershipRow \cup {None}]
ExchangeCall == [step : {"taking", "taken"}, ticket : Tickets, provider : Providers \cup {None}]
DeleteCall == [step : {"deleting"}, provider : Providers, since : SUBSET Users]

\* What the constants are; assumed where this module is instantiated.
SignOnAssumption ==
    /\ Oidc \cap Saml = {} /\ MaxChanges \in Nat
    /\ None \notin BOOLEAN /\ None \notin Providers \cup Users \cup States \cup Tickets
    /\ None \notin ProviderRow \cup MembershipRow \cup StateRow \cup TicketRow
    /\ None \notin CallbackCall \cup ExchangeCall \cup DeleteCall

At(c, step) == call[c] # None /\ call[c].step = step
Return(c) == call' = [call EXCEPT ![c] = None]
Goto(c, step) == call' = [call EXCEPT ![c].step = step]
Exists(p) == provider[p] # None
IsActive(p) == Exists(p) /\ provider[p].active
Usable(u) == membership[u] # None /\ membership[u].active /\ membership[u].usable

\* The next id of a row.
Next1(rows) ==
    LET free == {x \in DOMAIN rows : rows[x] = None}
    IN IF free = {} THEN {} ELSE {CHOOSE x \in free : TRUE}

SignOnInit ==
    /\ provider \in [Providers -> [active : {TRUE}, autoProvision : BOOLEAN]]
    /\ user \in [Users -> {TRUE, None}]
    /\ membership \in [Users -> {None, [active |-> TRUE, usable |-> FALSE],
                                 [active |-> TRUE, usable |-> TRUE]}]
    /\ \A u \in Users : user[u] = None => membership[u] = None
    /\ identity = {}
    /\ state = [x \in States |-> None]
    /\ ticket = [t \in Tickets |-> None]
    /\ call = [c \in Calls |-> None]
    /\ changes = 0
    /\ opened = [t \in Tickets |-> 0]

-----------------------------------------------------------------------------
(* Leaving and returning.                                                  *)

CreateState(p) ==
    /\ \E x \in Next1(state) :
         state' = [state EXCEPT ![x] = [provider |-> p, open |-> TRUE, late |-> FALSE]]
    /\ UNCHANGED <<provider, user, membership, identity, ticket, call, changes, opened>>

\* OIDC: for an active provider, found by one of its routes.
BuildAuthorizationUrl(p) == p \in Oidc /\ IsActive(p) /\ CreateState(p)

\* SAML: getActiveSamlProvider, and again in the callback.
ActiveSaml(p) == p \in Saml /\ IsActive(p)

BuildLoginUrl(p) == ActiveSaml(p) /\ CreateState(p)

\* consume, consumeState: the state is read ...
ReadState(c, x) ==
    /\ call[c] = None
    /\ state[x] # None /\ state[x].open /\ ~state[x].late
    /\ call' = [call EXCEPT ![c] =
         [step |-> "consuming", state |-> x, provider |-> state[x].provider,
          active |-> IsActive(state[x].provider), auto |-> provider[state[x].provider].autoProvision,
          user |-> None, mapped |-> FALSE, allowed |-> FALSE, linked |-> FALSE, seen |-> None]]
    /\ UNCHANGED <<provider, user, membership, identity, state, ticket, changes, opened>>

\* MUTANT of MayConsume: the update goes by the id only.
MayConsume_ById(x) == TRUE

\* The condition of the update that consumes it: OIDC's looks at the time again.
MayConsume(x) == state[x].open /\ (state[x].provider \in Oidc => ~state[x].late)

\* ... and consumed by a conditional update.  OIDC goes on with the provider
\* it has read, if that was active.
ConsumeState(c) ==
    /\ At(c, "consuming")
    /\ LET x == call[c].state
       IN IF MayConsume(x)
          THEN state' = [state EXCEPT ![x].open = FALSE] /\ Goto(c, "consumed")
          ELSE Return(c) /\ UNCHANGED state
    /\ UNCHANGED <<provider, user, membership, identity, ticket, changes, opened>>

\* The provider's answer names a person; go on with autoProvision as read.
Asserted(c, auto) ==
    /\ \E u \in Users, mapped, allowed \in BOOLEAN :
         call' = [call EXCEPT ![c] = [@ EXCEPT
           !.step = "asserted", !.user = u, !.mapped = mapped, !.allowed = allowed, !.auto = auto]]
    /\ UNCHANGED <<provider, user, membership, identity, state, ticket, changes, opened>>

\* OIDC: handleCallback, with the provider that came with the state.
HandleCallback(c) ==
    /\ At(c, "consumed") /\ call[c].provider \in Oidc
    /\ call[c].active
    /\ Asserted(c, call[c].auto)

\* SAML: handleAcsInternal reads the provider again.
HandleAcs(c) ==
    /\ At(c, "consumed")
    /\ ActiveSaml(call[c].provider)
    /\ Asserted(c, provider[call[c].provider].autoProvision)

-----------------------------------------------------------------------------
(* Finding or provisioning the user.                                       *)

Member == [active |-> TRUE, usable |-> TRUE]

\* May a login go on with membership m, as it is or with the mapped role?
Admits(m, mapped, create) ==
    IF m = None THEN create /\ mapped ELSE m.active /\ (m.usable \/ mapped)

Link(c) ==
    /\ identity' = identity \cup {<<call[c].provider, call[c].user>>}
    /\ call' = [d \in Calls |->
         IF d = c THEN [call[c] EXCEPT !.step = "ticketing"]
         ELSE IF At(d, "deleting") /\ call[d].provider = call[c].provider
              THEN [call[d] EXCEPT !.since = @ \cup {call[c].user}]
              ELSE call[d]]

\* OIDC: resolveIdentity.  The identity needs its provider's row.
ResolveIdentity(c) ==
    /\ At(c, "asserted") /\ call[c].provider \in Oidc
    /\ LET u == call[c].user
       IN IF /\ call[c].allowed
             /\ Exists(call[c].provider)
             /\ user[u] = TRUE \/ (user[u] = None /\ call[c].auto)
             /\ Admits(membership[u], call[c].mapped, call[c].auto)
          THEN /\ user' = [user EXCEPT ![u] = TRUE]
               /\ membership' = [membership EXCEPT ![u] = Member]
               /\ Link(c)
          ELSE Return(c) /\ UNCHANGED <<user, membership, identity>>
    /\ UNCHANGED <<provider, state, ticket, changes, opened>>

\* SAML: resolveUser for somebody who is not a user yet, in one transaction.
Provision(c) ==
    /\ At(c, "asserted") /\ call[c].provider \in Saml
    /\ LET u == call[c].user
       IN /\ user[u] = None
          /\ IF call[c].auto /\ call[c].allowed /\ call[c].mapped /\ Exists(call[c].provider)
             THEN /\ user' = [user EXCEPT ![u] = TRUE]
                  /\ membership' = [membership EXCEPT ![u] = Member]
                  /\ Link(c)
             ELSE Return(c) /\ UNCHANGED <<user, membership, identity>>
    /\ UNCHANGED <<provider, state, ticket, changes, opened>>

\* SAML: resolveUser reads an active user and, in assertOrCreateMembership,
\* the membership.  A linked user's membership is not created.
ReadMembership(c) ==
    /\ At(c, "asserted") /\ call[c].provider \in Saml
    /\ LET u == call[c].user
           linked == <<call[c].provider, u>> \in identity
       IN /\ user[u] # None
          /\ IF user[u] /\ Admits(membership[u], call[c].mapped, call[c].auto /\ ~linked)
             THEN call' = [call EXCEPT ![c] = [@ EXCEPT
                    !.step = "admitting", !.linked = linked, !.seen = membership[u]]]
             ELSE Return(c)
    /\ UNCHANGED <<provider, user, membership, identity, state, ticket, changes, opened>>

\* MUTANT of WriteMembership: an upsert that makes the membership active.
WriteMembership_Upserts(c) ==
    /\ At(c, "admitting")
    /\ membership' = [membership EXCEPT ![call[c].user] = Member]
    /\ Goto(c, "linking")
    /\ UNCHANGED <<provider, user, identity, state, ticket, changes, opened>>

\* It writes what that read called for: nothing, the role, or a new row, which
\* the unique index refuses when there is one by now.
WriteMembership(c) ==
    /\ At(c, "admitting")
    /\ LET u == call[c].user
           seen == call[c].seen
       IN IF seen = None /\ membership[u] # None
          THEN Return(c) /\ UNCHANGED membership
          ELSE /\ membership' = IF seen = None THEN [membership EXCEPT ![u] = Member]
                                ELSE IF seen.usable THEN membership
                                ELSE [membership EXCEPT ![u].usable = TRUE]
               /\ Goto(c, "linking")
    /\ UNCHANGED <<provider, user, identity, state, ticket, changes, opened>>

\* externalIdentity.create, unless the user was linked: refused if somebody
\* has linked the user by now, or deleted the provider.
LinkIdentity(c) ==
    /\ At(c, "linking")
    /\ IF call[c].linked THEN Goto(c, "ticketing") /\ UNCHANGED identity
       ELSE IF Exists(call[c].provider) /\ <<call[c].provider, call[c].user>> \notin identity
            THEN Link(c) ELSE Return(c) /\ UNCHANGED identity
    /\ UNCHANGED <<provider, user, membership, state, ticket, changes, opened>>

-----------------------------------------------------------------------------
(* Tickets.                                                                *)

\* createTicket
CreateTicket(c) ==
    /\ At(c, "ticketing")
    /\ IF Exists(call[c].provider)
       THEN \E t \in Next1(ticket) :
              ticket' = [ticket EXCEPT ![t] =
                [user |-> call[c].user, provider |-> call[c].provider, open |-> TRUE,
                 by |-> call[c].state, shared |-> FALSE]]
       ELSE UNCHANGED ticket
    /\ Return(c)
    /\ UNCHANGED <<provider, user, membership, identity, state, changes, opened>>

\* consumeTicket reads the ticket, neither consumed nor expired ...
ReadTicket(c, t) ==
    /\ call[c] = None
    /\ ticket[t] # None /\ ticket[t].open
    /\ ticket' = [ticket EXCEPT ![t].shared = @ \/ \E d \in Calls : At(d, "taking") /\ call[d].ticket = t]
    /\ call' = [call EXCEPT ![c] = [step |-> "taking", ticket |-> t, provider |-> ticket[t].provider]]
    /\ UNCHANGED <<provider, user, membership, identity, state, changes, opened>>

\* ... and consumes it by its id.
TakeTicket(c) ==
    /\ At(c, "taking")
    /\ ticket' = [ticket EXCEPT ![call[c].ticket].open = FALSE]
    /\ Goto(c, "taken")
    /\ UNCHANGED <<provider, user, membership, identity, state, changes, opened>>

\* exchange: user, provider and organization are active, selectTenant finds
\* the membership usable, and buildSessionLoginResponse opens the session.
OpenSession(c) ==
    /\ At(c, "taken")
    /\ LET t == call[c].ticket
           p == call[c].provider
       IN IF user[ticket[t].user] = TRUE /\ p # None /\ Usable(ticket[t].user) /\ IsActive(p)
          THEN opened' = [opened EXCEPT ![t] = @ + 1]
          ELSE UNCHANGED opened
    /\ Return(c)
    /\ UNCHANGED <<provider, user, membership, identity, state, ticket, changes>>

-----------------------------------------------------------------------------
(* The deletion of a provider.                                             *)

\* disableProvider, and updateProvider of isActive and autoProvision.
SetProvider(p) ==
    /\ Exists(p) /\ changes < MaxChanges
    /\ provider' \in {[provider EXCEPT ![p].active = ~@], [provider EXCEPT ![p].autoProvision = ~@]}
    /\ changes' = changes + 1
    /\ UNCHANGED <<user, membership, identity, state, ticket, call, opened>>

\* Does a provider have identities or tickets?
InUse(p) ==
    \/ \E u \in Users : <<p, u>> \in identity
    \/ \E t \in Tickets : ticket[t] # None /\ ticket[t].provider = p

\* deleteProvider counts them; one in use is disabled instead ...
DeleteBegin(c, p) ==
    /\ call[c] = None /\ changes < MaxChanges
    /\ Exists(p)
    /\ IF InUse(p)
       THEN provider' = [provider EXCEPT ![p].active = FALSE] /\ UNCHANGED call
       ELSE /\ call' = [call EXCEPT ![c] = [step |-> "deleting", provider |-> p, since |-> {}]]
            /\ UNCHANGED provider
    /\ changes' = changes + 1
    /\ UNCHANGED <<user, membership, identity, state, ticket, opened>>

\* ... and any other deleted, with what refers to it by now: identities and
\* states are deleted, tickets lose it.
DeleteEnd(c) ==
    /\ At(c, "deleting")
    /\ LET p == call[c].provider
       IN /\ provider' = [provider EXCEPT ![p] = None]
          /\ identity' = {i \in identity : i[1] # p}
          /\ state' = [x \in States |-> IF state[x] # None /\ state[x].provider = p
                                        THEN [state[x] EXCEPT !.open = FALSE] ELSE state[x]]
          /\ ticket' = [t \in Tickets |-> IF ticket[t] # None /\ ticket[t].provider = p
                                          THEN [ticket[t] EXCEPT !.provider = None] ELSE ticket[t]]
    /\ Return(c)
    /\ UNCHANGED <<user, membership, changes, opened>>

-----------------------------------------------------------------------------
(* The environment.                                                        *)

\* A user is deactivated or activated, with the membership; a membership is
\* suspended; a role becomes unusable.
ChangeUser(u) ==
    /\ changes < MaxChanges
    /\ changes' = changes + 1
    /\ \/ /\ user[u] # None
          /\ user' = [user EXCEPT ![u] = ~@]
          /\ membership' = [membership EXCEPT ![u] = IF @ = None THEN None ELSE [@ EXCEPT !.active = ~user[u]]]
       \/ /\ membership[u] # None
          /\ membership' \in {[membership EXCEPT ![u].active = FALSE], [membership EXCEPT ![u].usable = FALSE]}
          /\ UNCHANGED user
    /\ UNCHANGED <<provider, identity, state, ticket, call, opened>>

\* expiresAt of a state or of a ticket passes.
ExpireSignOn ==
    /\ \/ /\ \E x \in States : /\ state[x] # None /\ state[x].open /\ ~state[x].late
                               /\ state' = [state EXCEPT ![x].late = TRUE]
          /\ UNCHANGED ticket
       \/ /\ \E t \in Tickets : /\ ticket[t] # None /\ ticket[t].open
                                /\ ticket' = [ticket EXCEPT ![t].open = FALSE]
          /\ UNCHANGED state
    /\ UNCHANGED <<provider, user, membership, identity, call, changes, opened>>

\* The process stops, a statement fails, or an answer is refused.
SignOnDies(c) ==
    /\ call[c] # None
    /\ Return(c)
    /\ UNCHANGED <<provider, user, membership, identity, state, ticket, changes, opened>>

SignOnNext ==
    \/ \E c \in Calls :
         \/ ConsumeState(c) \/ HandleCallback(c) \/ HandleAcs(c) \/ ResolveIdentity(c) \/ Provision(c)
         \/ ReadMembership(c) \/ WriteMembership(c) \/ LinkIdentity(c) \/ CreateTicket(c)
         \/ TakeTicket(c) \/ OpenSession(c) \/ DeleteEnd(c) \/ SignOnDies(c)
         \/ \E x \in States : ReadState(c, x)
         \/ \E t \in Tickets : ReadTicket(c, t)
         \/ \E p \in Providers : DeleteBegin(c, p)
    \/ \E p \in Providers : BuildAuthorizationUrl(p) \/ BuildLoginUrl(p) \/ SetProvider(p)
    \/ \E u \in Users : ChangeUser(u)
    \/ ExpireSignOn

SignOnSpec == SignOnInit /\ [][SignOnNext]_signOnVars

-----------------------------------------------------------------------------
(* Properties.                                                             *)

\* Types of the state of single sign-on.
SignOnTypeOK ==
    /\ provider \in [Providers -> ProviderRow \cup {None}]
    /\ \A u \in Users : user[u] \in BOOLEAN \/ user[u] = None
    /\ membership \in [Users -> MembershipRow \cup {None}]
    /\ identity \subseteq Providers \X Users
    /\ state \in [States -> StateRow \cup {None}]
    /\ ticket \in [Tickets -> TicketRow \cup {None}]
    /\ call \in [Calls -> CallbackCall \cup ExchangeCall \cup DeleteCall \cup {None}]

\* A state gives one ticket, however often its callback is called: the update
\* that consumes it is conditional.
StateGivesOneTicket ==
    \A s, t \in Tickets : ticket[s] # None /\ ticket[t] # None /\ ticket[s].by = ticket[t].by => s = t

\* A ticket opens one session, unless two exchanges read it before either
\* consumed it: the update that consumes a ticket is not conditional.
TicketOpensOnce ==
    \A t \in Tickets : opened[t] > 1 => ticket[t].shared

\* A login never activates a membership that is suspended, nor replaces it,
\* even one suspended between its reads and its writes.
SignOnNeverReadmits ==
    [][changes' = changes =>
         \A u \in Users : membership[u] # None /\ ~membership[u].active => ~membership'[u].active]_signOnVars

\* Deleting a provider takes no identity with it, unless a login linked it
\* after the identities were counted.
DeletionKeepsIdentities ==
    [][\A i \in identity \ identity' :
         \E c \in Calls : At(c, "deleting") /\ call[c].provider = i[1] /\ i[2] \in call[c].since]_signOnVars
=============================================================================
