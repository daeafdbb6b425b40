--------------------------- MODULE Subscriptions ---------------------------
(***************************************************************************)
(* Plans, subscriptions and entitlement overrides                          *)
(* (PlatformEntitlementsService), and the cached answer to "does this      *)
(* organization have the feature?" (EntitlementService), for one feature   *)
(* and organizations that are ACTIVE.                                      *)
(*                                                                         *)
(* Every operation of the administrators is one transaction at READ        *)
(* COMMITTED.  What runs under the advisory lock of the organization is    *)
(* one action; a read before the lock is an action of its own, and so is   *)
(* the selection of the subscribers of a plan, which no lock protects.     *)
(* resolve() reads its rows with one statement after the other.            *)
(*                                                                         *)
(* The type, contract reference and note of a subscription, and the text   *)
(* columns of a plan, decide nothing here and are left out; so is the      *)
(* reason of an override.                                                  *)
(***************************************************************************)
EXTENDS Integers, FiniteSets

CONSTANTS
    Orgs, Plans,
    Subs,       \* subscription ids
    Admins,     \* administrators' requests under way at the same time
    Readers,    \* calls of resolve() under way at the same time
    None,       \* no subscription, no request, no entry
    Terms,      \* the terms administrators choose from
    MaxTime,    \* BOUND: the clock
    MaxVersion, \* BOUND: changes of one organization's entitlements
    MaxUnderWay \* BOUND: requests and calls between two statements

\* A term that never ends ends after the last instant; no grace ends at 0.
Never == MaxTime + 1
Term == [start : 0 .. MaxTime, end : 1 .. Never, grace : 0 .. MaxTime]
IsSound(t) == t.end > t.start /\ (t.grace # 0 => t.grace > t.end)

ASSUME SubscriptionsAssumption ==
    /\ MaxTime \in Nat /\ MaxVersion \in Nat /\ MaxUnderWay \in Nat
    /\ Terms \subseteq {t \in Term : IsSound(t)}
    /\ None \notin Subs \cup Orgs \cup Plans

VARIABLES
    plan,      \* plans.isActive and plan_features.enabled
    sub,       \* subscriptions
    override,  \* organization_entitlements.state
    version,   \* organizations.entitlementVersion
    cache,     \* node-cache: the entry under the version of the organization;
               \* those under older versions are never asked for again
    now,
    request,   \* administrators' transactions between two statements
    reader,    \* resolve() calls between two statements
    missed     \* history: organizations whose plan changed after their last
               \* version, because the change had not seen them subscribe

vars == <<plan, sub, override, version, cache, now, request, reader, missed>>

Status == {"PENDING", "ACTIVE", "SUSPENDED", "CANCELLED", "EXPIRED"}
Current == {"PENDING", "ACTIVE", "SUSPENDED"}
Override == {"NONE", "ENABLED", "DISABLED"}
PlanRow == [active : BOOLEAN, enabled : BOOLEAN]
SubRow == [org : Orgs, plan : Plans, status : Status, term : {t \in Term : IsSound(t)}]
Answer == [enabled : BOOLEAN, sub : Subs \cup {None},
           source : {"PLAN", "OVERRIDE", "GRACE", "LEGACY_COMPATIBILITY", "DENIED"}]
Entry == [answer : Answer, validUntil : 1 .. Never]

ASSUME NoneIsNoRow == None \notin SubRow

Versions == 0 .. MaxVersion

\* What a request has read when it waits; what it was asked to write matters
\* when it writes, and is chosen then.
Request == [op : {"transition"}, sub : Subs, from : Status]
    \cup [op : {"update"}, sub : Subs, term : {t \in Term : IsSound(t)}]
    \cup [op : {"plan"}, plan : Plans, selected : SUBSET Orgs]
Reading == [org : Orgs, at : 0 .. MaxTime, version : Versions,
            sub : Subs \cup {None}, row : SubRow \cup {None}, granted : BOOLEAN,
            next : {"subscription", "plan", "rest"}]

\* Type correctness; the dates of every subscription are in order, although an
\* update writes dates it has read before the lock.
TypeOK ==
    /\ plan \in [Plans -> PlanRow]
    /\ sub \in [Subs -> SubRow \cup {None}]
    /\ override \in [Orgs -> Override]
    /\ version \in [Orgs -> Versions]
    /\ cache \in [Orgs -> Entry \cup {None}]
    /\ now \in 0 .. MaxTime
    /\ request \in [Admins -> Request \cup {None}]
    /\ reader \in [Readers -> Reading \cup {None}]
    /\ missed \subseteq Orgs

\* createPlan: active, and no feature row yet.
Init ==
    /\ plan = [p \in Plans |-> [active |-> TRUE, enabled |-> FALSE]]
    /\ sub = [s \in Subs |-> None]
    /\ override = [o \in Orgs |-> "NONE"]
    /\ version = [o \in Orgs |-> 0]
    /\ cache = [o \in Orgs |-> None]
    /\ now = 0
    /\ request = [a \in Admins |-> None]
    /\ reader = [r \in Readers |-> None]
    /\ missed = {}

Exists(s) == sub[s] # None
History(o) == {s \in Subs : Exists(s) /\ sub[s].org = o}
CurrentOf(o) == {s \in History(o) : sub[s].status \in Current}
Asks(a, op) == request[a] # None /\ request[a].op = op
UnderWay == Cardinality({a \in Admins : request[a] # None}) + Cardinality({r \in Readers : reader[r] # None})
Subscribers(p) == {o \in Orgs : \E s \in CurrentOf(o) : sub[s].plan = p}

\* The entitlementVersion of the organizations in O moves; `late` subscribe to
\* a plan that changes.
Bump(O, late) ==
    /\ \A o \in O : version[o] < MaxVersion
    /\ version' = [o \in Orgs |-> IF o \in O THEN version[o] + 1 ELSE version[o]]
    /\ cache' = [o \in Orgs |-> IF o \in O THEN None ELSE cache[o]]
    /\ missed' = (missed \cup late) \ O

-----------------------------------------------------------------------------
(* Administrators.                                                         *)

\* MUTANT of Taken: no partial unique index on the current subscriptions.
Taken_Never(s, o) == FALSE

\* The partial unique index refuses a second current subscription.
Taken(s, o) == CurrentOf(o) \ {s} # {}

\* The lock first, then the reads: the check, the insert and the new version
\* are one action.
CreateSubscription(s, o, p) ==
    /\ ~Exists(s) /\ plan[p].active /\ ~Taken(s, o)
    /\ \E t \in Terms, st \in {"PENDING", "ACTIVE"} :
         sub' = [sub EXCEPT ![s] = [org |-> o, plan |-> p, status |-> st, term |-> t]]
    /\ Bump({o}, {})
    /\ UNCHANGED <<plan, override, now, request, reader>>

Transitions == [PENDING |-> {"ACTIVE", "CANCELLED"},
                ACTIVE |-> {"SUSPENDED", "CANCELLED", "EXPIRED"},
                SUSPENDED |-> {"ACTIVE", "CANCELLED", "EXPIRED"},
                CANCELLED |-> {}, EXPIRED |-> {}]

Ask(a, asked) ==
    /\ request[a] = None /\ UnderWay < MaxUnderWay
    /\ request' = [request EXCEPT ![a] = asked]
    /\ UNCHANGED <<plan, sub, override, version, cache, now, reader, missed>>

Answered(a) ==
    /\ request' = [request EXCEPT ![a] = None]
    /\ UNCHANGED <<override, now, reader>>

\* transition() reads the subscription, and then waits for the lock ...
TransitionRead(a, s) ==
    Exists(s) /\ Ask(a, [op |-> "transition", sub |-> s, from |-> sub[s].status])

\* ... and judges what it has read.
TransitionWrite(a, to) ==
    /\ Asks(a, "transition") /\ Answered(a)
    /\ LET s == request[a].sub
           may == /\ to \in Transitions[request[a].from]
                  /\ ~(to \in Current /\ Taken(s, sub[s].org))
       IN /\ sub' = IF may THEN [sub EXCEPT ![s].status = to] ELSE sub
          /\ Bump(IF may THEN {sub[s].org} ELSE {}, {})
    /\ UNCHANGED plan

\* updateSubscription() also reads before the lock ...
UpdateRead(a, s) == Exists(s) /\ Ask(a, [op |-> "update", sub |-> s, term |-> sub[s].term])

\* MUTANT of UpdateWrite: only the given dates are validated, against each
\* other.
UpdateWrite_GivenOnly(a, given, named, p) ==
    /\ Asks(a, "update") /\ Answered(a)
    /\ LET s == request[a].sub
           t == [d \in {"start", "end", "grace"} |->
                   IF d \in named THEN given[d] ELSE request[a].term[d]]
       IN /\ sub' = [sub EXCEPT ![s].term = [start |-> t["start"], end |-> t["end"], grace |-> t["grace"]]]
          /\ Bump({sub[s].org}, {})
    /\ UNCHANGED plan

\* ... and writes all three dates, those not given as it has read them; and a
\* plan, if it is given one that is active.
UpdateWrite(a, given, named, p) ==
    /\ Asks(a, "update") /\ Answered(a)
    /\ LET s == request[a].sub
           read == request[a].term
           t == [start |-> IF "start" \in named THEN given.start ELSE read.start,
                 end |-> IF "end" \in named THEN given.end ELSE read.end,
                 grace |-> IF "grace" \in named THEN given.grace ELSE read.grace]
           may == IsSound(t) /\ (p = None \/ plan[p].active)
       IN /\ sub' = IF may THEN [sub EXCEPT ![s].term = t, ![s].plan = IF p = None THEN @ ELSE p]
                    ELSE sub
          /\ Bump(IF may THEN {sub[s].org} ELSE {}, {})
    /\ UNCHANGED plan

\* updatePlan (isActive) and setFeature (enabled) write the row of the plan,
\* which keeps other changes of the plan away, select its subscribers ...
PlanSelect(a, p) ==
    /\ ~\E b \in Admins : Asks(b, "plan") /\ request[b].plan = p
    /\ Ask(a, [op |-> "plan", plan |-> p, selected |-> Subscribers(p)])

\* ... move their versions, and commit.
PlanCommit(a, row) ==
    /\ Asks(a, "plan") /\ Answered(a)
    /\ LET p == request[a].plan
       IN /\ row.active = plan[p].active \/ row.enabled = plan[p].enabled
          /\ plan' = [plan EXCEPT ![p] = row]
          /\ Bump(request[a].selected, Subscribers(p))
    /\ UNCHANGED sub

\* setOverride, removeOverride.
SetOverride(o, state) ==
    /\ state # override[o]
    /\ override' = [override EXCEPT ![o] = state]
    /\ Bump({o}, {})
    /\ UNCHANGED <<plan, sub, now, request, reader>>

-----------------------------------------------------------------------------
(* Entitlement.                                                            *)

Denied == [enabled |-> FALSE, source |-> "DENIED", sub |-> None]

\* What resolve() answers at t from the current subscription s with its row,
\* the grant of its plan, the override and the existence of older rows.
Effective(s, row, granted, ov, history, t) ==
    CASE s = None /\ ~history ->
           [enabled |-> ov # "DISABLED", sub |-> None,
            source |-> IF ov = "NONE" THEN "LEGACY_COMPATIBILITY" ELSE "OVERRIDE"]
      [] s = None /\ history -> Denied
      [] OTHER ->
           IF \/ row.status # "ACTIVE" \/ row.term.start > t
              \/ t >= row.term.end /\ t >= row.term.grace
           THEN Denied
           ELSE [enabled |-> IF ov = "NONE" THEN granted ELSE ov = "ENABLED", sub |-> s,
                 source |-> CASE ov # "NONE" -> "OVERRIDE"
                              [] ov = "NONE" /\ t < row.term.end -> "PLAN"
                              [] OTHER -> "GRACE"]

\* MUTANT of ValidUntil: an answer given in grace never lapses.
ValidUntil_IgnoresGrace(s, row, t) ==
    IF s = None \/ row.status # "ACTIVE" THEN Never
    ELSE CASE row.term.start > t -> row.term.start
           [] row.term.start <= t /\ t < row.term.end -> row.term.end
           [] OTHER -> Never

\* The instant at which that answer may change by itself.
ValidUntil(s, row, t) ==
    IF s = None \/ row.status # "ACTIVE" THEN Never
    ELSE CASE row.term.start > t -> row.term.start
           [] row.term.start <= t /\ t < row.term.end -> row.term.end
           [] row.term.end <= t /\ t < row.term.grace -> row.term.grace
           [] OTHER -> Never

Granted(p) == plan[p].active /\ plan[p].enabled

Usable(o, t) == cache[o] # None /\ t < cache[o].validUntil

\* A call takes its `now` first and reads the version when it gets to it; a
\* usable entry answers it at once.
ResolveBegin(r, o) ==
    /\ reader[r] = None /\ UnderWay < MaxUnderWay
    /\ \E at \in 0 .. now :
         /\ ~Usable(o, at)
         /\ reader' = [reader EXCEPT ![r] =
              [org |-> o, at |-> at, version |-> version[o], sub |-> None, row |-> None,
               granted |-> FALSE, next |-> "subscription"]]
    /\ UNCHANGED <<plan, sub, override, version, cache, now, request, missed>>

ResolveSubscription(r) ==
    /\ reader[r] # None /\ reader[r].next = "subscription"
    /\ \/ /\ CurrentOf(reader[r].org) = {}
          /\ reader' = [reader EXCEPT ![r].next = "rest"]
       \/ \E s \in CurrentOf(reader[r].org) :
            reader' = [reader EXCEPT ![r].next = "plan", ![r].sub = s, ![r].row = sub[s]]
    /\ UNCHANGED <<plan, sub, override, version, cache, now, request, missed>>

\* The include of the plan and its features, statements of their own.
ResolvePlan(r) ==
    /\ reader[r] # None /\ reader[r].next = "plan"
    /\ reader' = [reader EXCEPT ![r].next = "rest", ![r].granted = Granted(reader[r].row.plan)]
    /\ UNCHANGED <<plan, sub, override, version, cache, now, request, missed>>

\* The override and the history; the answer is stored under the version that
\* was read first.
ResolveRest(r) ==
    /\ reader[r] # None /\ reader[r].next = "rest"
    /\ LET c == reader[r]
           entry == [answer |-> Effective(c.sub, c.row, c.granted, override[c.org],
                                          History(c.org) # {}, c.at),
                     validUntil |-> ValidUntil(c.sub, c.row, c.at)]
       IN cache' = IF c.version = version[c.org] THEN [cache EXCEPT ![c.org] = entry] ELSE cache
    /\ reader' = [reader EXCEPT ![r] = None]
    /\ UNCHANGED <<plan, sub, override, version, now, request, missed>>

\* node-cache drops an entry after 300 seconds, a restart drops all of them.
Evict(o) ==
    /\ cache[o] # None
    /\ cache' = [cache EXCEPT ![o] = None]
    /\ UNCHANGED <<plan, sub, override, version, now, request, reader, missed>>

Tick ==
    /\ now < MaxTime
    /\ now' = now + 1
    /\ UNCHANGED <<plan, sub, override, version, cache, request, reader, missed>>

-----------------------------------------------------------------------------
Next ==
    \/ \E s \in Subs, o \in Orgs, p \in Plans : CreateSubscription(s, o, p)
    \/ \E a \in Admins, s \in Subs : TransitionRead(a, s)
    \/ \E a \in Admins, to \in Status : TransitionWrite(a, to)
    \/ \E a \in Admins, s \in Subs : UpdateRead(a, s)
    \/ \E a \in Admins, given \in Terms, named \in SUBSET {"start", "end", "grace"},
         p \in Plans \cup {None} : UpdateWrite(a, given, named, p)
    \/ \E a \in Admins, p \in Plans : PlanSelect(a, p)
    \/ \E a \in Admins, row \in PlanRow : PlanCommit(a, row)
    \/ \E o \in Orgs, state \in Override : SetOverride(o, state)
    \/ \E r \in Readers, o \in Orgs : ResolveBegin(r, o)
    \/ \E r \in Readers : ResolveSubscription(r)
    \/ \E r \in Readers : ResolvePlan(r)
    \/ \E r \in Readers : ResolveRest(r)
    \/ \E o \in Orgs : Evict(o)
    \/ Tick

Spec == Init /\ [][Next]_vars

-----------------------------------------------------------------------------
(* Properties.                                                             *)

\* No organization has two current subscriptions, although transitions judge
\* statuses that were read before the lock.
OneCurrent == \A o \in Orgs : Cardinality(CurrentOf(o)) <= 1

\* What the rows say about o now.
Truth(o) ==
    IF CurrentOf(o) = {} THEN Effective(None, None, FALSE, override[o], History(o) # {}, now)
    ELSE LET s == CHOOSE x \in CurrentOf(o) : TRUE
         IN Effective(s, sub[s], Granted(sub[s].plan), override[o], TRUE, now)

\* An entry that resolve() would serve now is the answer it would compute now,
\* terms and grace included, but for an organization that subscribed to a plan
\* while the plan was being changed: bumpPlanSubscribers did not select it.
CachedIsCurrent ==
    \A o \in Orgs \ missed : Usable(o, now) => cache[o].answer = Truth(o)

Closed(s) == Exists(s) /\ sub[s].status \notin Current

\* A cancelled or expired subscription stays so, unless a transition that read
\* it before it was closed is still under way.
ClosedUnlessRaced ==
    [][\A s \in Subs :
         /\ Closed(s)
         /\ ~\E a \in Admins : /\ Asks(a, "transition")
                               /\ request[a].sub = s /\ request[a].from \in Current
         => sub'[s].status = sub[s].status]_vars

\* What the documentation says of transitions, under the advisory lock: no
\* concurrent request brings a cancelled or expired subscription back.  The
\* code refutes it.
ClosedStaysClosed ==
    [][\A s \in Subs : Closed(s) => sub'[s].status = sub[s].status]_vars
=============================================================================
