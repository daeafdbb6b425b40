--------------------------- MODULE EffectiveQuota ---------------------------
(***************************************************************************)
(* The quota of one metric that is in force for one organization:          *)
(* QuotaResolverService.resolve, the administrators' writes of             *)
(* PlatformQuotaService and of plans, and the bootstrap of                 *)
(* QuotaMaintenance.                                                       *)
(*                                                                         *)
(* The resolver takes its `now` first and then reads the organization, the *)
(* latest subscription that is not over, its plan, the plan's quota (the   *)
(* last two are includes, which Prisma reads with statements of their own) *)
(* and the override.  Each statement sees what is committed by then.  The  *)
(* override is merged into the plan's quota field by field.  Of the result *)
(* this module keeps what reserve() refuses by: the limit, if one is       *)
(* enforced.                                                               *)
(*                                                                         *)
(* A change of a plan selects the subscribers of the plan in a statement   *)
(* of its own, after its write and before it commits; no lock keeps an     *)
(* organization from subscribing in between.                               *)
(*                                                                         *)
(* Soft limits, which nothing enforces, and periods are left out.  The     *)
(* changes of organization and subscription are those of their own         *)
(* services, each with its version.                                        *)
(***************************************************************************)
EXTENDS Integers

CONSTANTS
    Limits,     \* hard limits
    Plans,
    Terms,      \* sets of instants: from a start to an end, or to the end of grace
    Operators,  \* changes of a plan under way at the same time
    Calls,      \* resolutions under way at the same time
    None,
    MaxTime,    \* BOUND: the clock
    MaxChanges  \* BOUND: changes by administrators

\* What the constants are; assumed where this module is instantiated.
EffectiveAssumption ==
    /\ MaxChanges \in Nat /\ MaxTime \in Nat
    /\ Terms \subseteq SUBSET (0 .. MaxTime)
    /\ None \notin Limits /\ None \notin BOOLEAN

VARIABLES
    active,        \* organizations.status is ACTIVE
    subscription,  \* its latest subscription that is not over; None: over or never
    planActive,    \* plans.isActive
    planQuota,     \* plan_quotas of each plan and the metric
    override,      \* organization_quota_overrides
    version,       \* organizations.entitlementVersion
    now,           \* the clock
    changes,       \* BOUND's counter
    request,       \* changes of a plan between their selection and their commit
    call           \* resolutions

quotaVars == <<active, subscription, planActive, planQuota, override, version, now, changes,
               request, call>>

Optional(S) == {{}} \cup {{x} : x \in S}
PlanQuota == [enabled : BOOLEAN, unlimited : BOOLEAN, hard : Optional(Limits)]
Override == [enabled : Optional(BOOLEAN), unlimited : Optional(BOOLEAN), hard : Optional(Limits)]
Subscription == [status : {"PENDING", "ACTIVE", "SUSPENDED"}, plan : Plans, term : Terms]

\* The rows, and those a resolution has read before each.
Rows == {"organization", "subscription", "plan", "quota", "override"}
Before(next) ==
    CASE next = "organization" -> {}
      [] next = "subscription" -> {"organization"}
      [] next = "plan" -> {"organization", "subscription"}
      [] next = "quota" -> {"organization", "subscription", "plan"}
      [] next = "override" -> Rows \ {"override"}
      [] next = "nothing" -> Rows

\* A resolution: the row it reads next, its `now` and what it has read.
\* history: known, the limits in force since it began; configured, the limits in
\* the rows since then; stale, a row it had read has changed; mixed, and after
\* that a row which it had still to read.
Call == [next : Rows \cup {"nothing"}, at : 0 .. MaxTime,
         row : Subscription \cup {None}, planActive : BOOLEAN, quota : PlanQuota \cup {None},
         limit : Optional(Limits), known : SUBSET Optional(Limits), configured : SUBSET Limits,
         stale : BOOLEAN, mixed : BOOLEAN]

\* A change of a plan: of its quota, or whether it is active; and whether its
\* select found the organization.  history: subscribed, the organization then was
\* a subscriber.
Request ==
    [what : {"quota"}, plan : Plans, quota : PlanQuota, selected : BOOLEAN, subscribed : BOOLEAN]
    \cup [what : {"plan"}, plan : Plans, isActive : BOOLEAN, selected : BOOLEAN, subscribed : BOOLEAN]

Reads(c, row) == call[c] # None /\ call[c].next = row

-----------------------------------------------------------------------------
(* The merge.                                                              *)

\* A field of the override, or else of the plan, or else a default.
Merged(over, quota, field, default) ==
    IF over # None /\ over[field] # {} THEN over[field]
    ELSE IF quota # None THEN {quota[field]} ELSE {default}

\* Is a subscription, with its plan's isActive, in force at t?
InTerm(row, isActive, t) == row.status = "ACTIVE" /\ t \in row.term /\ isActive

\* resolveWithDb, once the rows are read: the limit that is enforced, if any.
\* Whatever is missing leaves usage unlimited.
Effective(inTerm, quota, over) ==
    IF /\ inTerm /\ (quota # None \/ over # None)
       /\ TRUE \in Merged(over, quota, "enabled", FALSE)
       /\ FALSE \in Merged(over, quota, "unlimited", FALSE)
    THEN IF over # None /\ over.hard # {} THEN over.hard
         ELSE IF quota # None THEN quota.hard ELSE {}
    ELSE {}

\* The limit for a request made at t, by rows of one moment.
LimitBy(isActive, row, actives, quotas, over, t) ==
    Effective(isActive /\ row # None /\ InTerm(row, actives[row.plan], t),
              IF row = None THEN None ELSE quotas[row.plan], over)
InForce(t) == LimitBy(active, subscription, planActive, planQuota, override, t)

\* The limits in the rows.
Configured ==
    {l \in Limits : \/ override # None /\ l \in override.hard
                    \/ \E p \in Plans : planQuota[p] # None /\ l \in planQuota[p].hard}

\* limits(): may a request set these?
Allowed(enabled, unlimited, hard) ==
    /\ unlimited = {TRUE} => hard = {}
    /\ enabled = {TRUE} /\ unlimited = {FALSE} => hard # {}

EffectiveInit ==
    /\ active = TRUE
    /\ subscription \in Subscription \cup {None}
    /\ planActive = [p \in Plans |-> TRUE]
    /\ planQuota \in [Plans -> {q \in PlanQuota : Allowed({q.enabled}, {q.unlimited}, q.hard)} \cup {None}]
    /\ override = None
    /\ version = 1 /\ now = 0 /\ changes = 0
    /\ request = [o \in Operators |-> None]
    /\ call = [c \in Calls |-> None]

-----------------------------------------------------------------------------
(* The resolver.                                                           *)

Rest == <<active, subscription, planActive, planQuota, override, version, now, changes, request>>

\* reserve() takes its `now` before it waits for the lock of the pair.
Begin(c) ==
    /\ call[c] = None
    /\ call' = [call EXCEPT ![c] =
         [next |-> "organization", at |-> now, row |-> None, planActive |-> FALSE, quota |-> None,
          limit |-> {}, known |-> {InForce(now)}, configured |-> Configured,
          stale |-> FALSE, mixed |-> FALSE]]
    /\ UNCHANGED Rest

\* MUTANT of ReadOrganization: the status is not looked at.
ReadOrganization_AnyStatus(c) ==
    /\ Reads(c, "organization")
    /\ call' = [call EXCEPT ![c].next = "subscription"]
    /\ UNCHANGED Rest

\* That of an inactive organization is no limit.
ReadOrganization(c) ==
    /\ Reads(c, "organization")
    /\ call' = [call EXCEPT ![c].next = IF active THEN "subscription" ELSE "nothing"]
    /\ UNCHANGED Rest

\* The subscription; its relations are read if there is one.
ReadSubscription(c) ==
    /\ Reads(c, "subscription")
    /\ call' = [call EXCEPT ![c].row = subscription,
                            ![c].next = IF subscription = None THEN "override" ELSE "plan"]
    /\ UNCHANGED Rest

\* The include of its plan.
ReadPlan(c) ==
    /\ Reads(c, "plan")
    /\ call' = [call EXCEPT ![c].planActive = planActive[call[c].row.plan], ![c].next = "quota"]
    /\ UNCHANGED Rest

\* The include of the plan's quota.
ReadQuota(c) ==
    /\ Reads(c, "quota")
    /\ call' = [call EXCEPT ![c].quota = planQuota[call[c].row.plan], ![c].next = "override"]
    /\ UNCHANGED Rest

\* The override, and the merge.
ReadOverride(c) ==
    /\ Reads(c, "override")
    /\ call' = [call EXCEPT ![c].next = "nothing",
          ![c].limit = Effective(call[c].row # None
                                   /\ InTerm(call[c].row, call[c].planActive, call[c].at),
                                 call[c].quota, override)]
    /\ UNCHANGED Rest

\* reserve() has used it.
Use(c) ==
    /\ Reads(c, "nothing")
    /\ call' = [call EXCEPT ![c] = None]
    /\ UNCHANGED Rest

-----------------------------------------------------------------------------
(* The administrators.                                                     *)

\* Does a change of such rows touch what the resolution r has read?  Of plans
\* and their quotas only those of its subscription.
Touches(r, row, plans) ==
    row \in Before(r.next) /\ (row \in {"plan", "quota"} => r.row # None /\ r.row.plan \in plans)

\* A change of one kind of rows, of these plans if it is of plans; resolutions
\* under way go on.
Change(row, plans) ==
    /\ changes < MaxChanges
    /\ changes' = changes + 1
    /\ UNCHANGED now
    /\ call' = [c \in Calls |->
         IF call[c] = None \/ call[c].next = "nothing" THEN call[c]
         ELSE [call[c] EXCEPT
                 !.known = @ \cup {LimitBy(active', subscription', planActive', planQuota',
                                          override', call[c].at)},
                 !.configured = @ \cup Configured',
                 !.stale = @ \/ Touches(call[c], row, plans),
                 !.mixed = @ \/ (call[c].stale /\ row \notin Before(call[c].next))]]

Subscribes(p) == subscription # None /\ subscription.plan = p

Reading(o, p) ==
    /\ request[o] = None
    /\ \A b \in Operators : request[b] # None => request[b].plan # p
    /\ UNCHANGED <<active, subscription, planActive, planQuota, override, version, now, changes, call>>

\* MUTANT of SelectSubscribers: only ACTIVE subscriptions are selected.
SelectSubscribers_ActiveOnly(o, p) ==
    /\ Reading(o, p)
    /\ \E q \in PlanQuota :
         /\ Allowed({q.enabled}, {q.unlimited}, q.hard)
         /\ request' = [request EXCEPT ![o] =
              [what |-> "quota", plan |-> p, quota |-> q, subscribed |-> Subscribes(p),
               selected |-> Subscribes(p) /\ subscription.status = "ACTIVE"]]

\* setPlanQuota and updatePlan, up to the select of the plan's subscribers: the
\* write, which holds rows of the plan, is not committed.
SelectSubscribers(o, p) ==
    /\ Reading(o, p)
    /\ \/ \E q \in PlanQuota :
            /\ Allowed({q.enabled}, {q.unlimited}, q.hard)
            /\ request' = [request EXCEPT ![o] =
                 [what |-> "quota", plan |-> p, quota |-> q,
                  selected |-> Subscribes(p), subscribed |-> Subscribes(p)]]
       \/ \E b \in BOOLEAN :
            request' = [request EXCEPT ![o] =
              [what |-> "plan", plan |-> p, isActive |-> b,
               selected |-> Subscribes(p), subscribed |-> Subscribes(p)]]

\* The selected organizations get a version, and the transaction commits.
SetPlanQuota(o) ==
    /\ request[o] # None /\ request[o].what = "quota"
    /\ planQuota' = [planQuota EXCEPT ![request[o].plan] = request[o].quota]
    /\ version' = IF request[o].selected THEN version + 1 ELSE version
    /\ request' = [request EXCEPT ![o] = None]
    /\ UNCHANGED <<active, subscription, planActive, override>>
    /\ Change("quota", {request[o].plan})

UpdatePlan(o) ==
    /\ request[o] # None /\ request[o].what = "plan"
    /\ planActive' = [planActive EXCEPT ![request[o].plan] = request[o].isActive]
    /\ version' = IF request[o].selected THEN version + 1 ELSE version
    /\ request' = [request EXCEPT ![o] = None]
    /\ UNCHANGED <<active, subscription, planQuota, override>>
    /\ Change("plan", {request[o].plan})

\* A transaction that fails leaves nothing.
GiveUp(o) ==
    /\ request[o] # None
    /\ request' = [request EXCEPT ![o] = None]
    /\ UNCHANGED <<active, subscription, planActive, planQuota, override, version, now, changes, call>>

\* setOverride: fields the request does not name keep their values, but the
\* limit; only the request is looked at.
SetOverride ==
    /\ \E q \in Override, named \in SUBSET {"enabled", "unlimited"} :
         LET given(f) == IF f \in named THEN q[f] ELSE {}
             new(f) == IF f \in named \/ override = None THEN given(f) ELSE override[f]
         IN /\ Allowed(given("enabled"), given("unlimited"), q.hard)
            /\ override' = [enabled |-> new("enabled"), unlimited |-> new("unlimited"), hard |-> q.hard]
    /\ version' = version + 1
    /\ UNCHANGED <<active, subscription, planActive, planQuota, request>>
    /\ Change("override", {})

RemoveOverride ==
    /\ override # None
    /\ override' = None
    /\ version' = version + 1
    /\ UNCHANGED <<active, subscription, planActive, planQuota, request>>
    /\ Change("override", {})

\* bootstrap: a row for every plan without one; the version of nobody moves.
Bootstrap ==
    LET missing == {p \in Plans : planQuota[p] = None}
    IN  /\ missing # {}
        /\ \A o \in Operators : request[o] # None => request[o].plan \notin missing
        /\ planQuota' = [p \in Plans |->
             IF p \in missing THEN [enabled |-> FALSE, unlimited |-> FALSE, hard |-> {}] ELSE planQuota[p]]
        /\ UNCHANGED <<active, subscription, planActive, override, version, request>>
        /\ Change("quota", missing)

-----------------------------------------------------------------------------
(* The environment.                                                        *)

\* The organization is suspended or resumed; subscriptions begin, pause, change
\* their plan or dates and end, each with a version of its own.
ChangeAccount ==
    /\ UNCHANGED <<planActive, planQuota, override, request>>
    /\ \/ /\ active' = ~active
          /\ UNCHANGED <<subscription, version>>
          /\ Change("organization", {})
       \/ /\ subscription' \in (Subscription \cup {None}) \ {subscription}
          /\ version' = version + 1
          /\ UNCHANGED active
          /\ Change("subscription", {})

Tick ==
    /\ now < MaxTime
    /\ now' = now + 1
    /\ UNCHANGED <<active, subscription, planActive, planQuota, override, version, changes, request, call>>

EffectiveNext ==
    \/ \E c \in Calls :
          \/ Begin(c) \/ ReadOrganization(c) \/ ReadSubscription(c) \/ ReadPlan(c) \/ ReadQuota(c)
          \/ ReadOverride(c) \/ Use(c)
    \/ \E o \in Operators :
          \/ \E p \in Plans : SelectSubscribers(o, p)
          \/ SetPlanQuota(o) \/ UpdatePlan(o) \/ GiveUp(o)
    \/ SetOverride \/ RemoveOverride \/ Bootstrap
    \/ ChangeAccount \/ Tick

EffectiveSpec == EffectiveInit /\ [][EffectiveNext]_quotaVars

-----------------------------------------------------------------------------
(* Properties.                                                             *)

\* Type correctness.
EffectiveTypeOK ==
    /\ active \in BOOLEAN
    /\ subscription \in Subscription \cup {None}
    /\ planActive \in [Plans -> BOOLEAN]
    /\ planQuota \in [Plans -> PlanQuota \cup {None}]
    /\ override \in Override \cup {None}
    /\ version \in Nat /\ now \in 0 .. MaxTime /\ changes \in 0 .. MaxChanges
    /\ request \in [Operators -> Request \cup {None}]
    /\ call \in [Calls -> Call \cup {None}]

\* Although a resolution reads five rows with as many statements, the limit it
\* returns was in force, for its `now`, at some moment since it began.  The one
\* exception is a row that changes after it was read and another that changes
\* later, before it is read: the answer then joins an old row with a new one.
\* Even so it is never a limit that no row had meanwhile.
ResolvedWasInForce ==
    \A c \in Calls : Reads(c, "nothing") =>
        /\ call[c].limit \in call[c].known \/ call[c].mixed
        /\ call[c].limit \subseteq call[c].configured

\* The commit of a change of a plan whose select ran before the organization
\* subscribed to it.
Overlooks ==
    \E o \in Operators :
        /\ request[o] # None /\ request'[o] = None
        /\ ~request[o].subscribed /\ Subscribes(request[o].plan)

\* Whoever changes the limit of an active organization, other than the clock,
\* gives it a new version, but for the change of a plan that overlooks it; the
\* bootstrap of plans, which gives none, changes no limit, whatever overrides
\* there are.
LimitMovesWithVersion ==
    [][InForce(now)' # InForce(now) /\ now' = now /\ active' = active
         => version' > version \/ Overlooks]_quotaVars
=============================================================================
