--------------------------- MODULE MCEntitlements --------------------------
(***************************************************************************)
(* Instances of Subscriptions, and of EffectiveQuota, the limits that      *)
(* follow from a subscription.  EffectiveQuota has its own, coarser view   *)
(* of one subscription, so a behaviour follows one of the two, its focus.  *)
(***************************************************************************)
EXTENDS MCSubscriptions

CONSTANTS Limits, QuotaPlans, QuotaTerms, MaxDay, Operators, Resolutions, MaxChanges

VARIABLES focus, active, subscription, planActive, planQuota, limitOverride, limitVersion, day,
          changes, change, resolution

quotaVars == <<active, subscription, planActive, planQuota, limitOverride, limitVersion, day,
               changes, change, resolution>>

Quota == INSTANCE EffectiveQuota
    WITH Plans <- QuotaPlans, Terms <- QuotaTerms, MaxTime <- MaxDay, Calls <- Resolutions,
         override <- limitOverride, version <- limitVersion, now <- day, request <- change,
         call <- resolution

ASSUME LimitsAssumption == Quota!EffectiveAssumption

\* A term that begins on the second day.
MCQuotaTerms == {{1}}

\* What is not in focus starts in one of its initial states only; the plan has
\* an enforced limit, or no quota.
MCInit ==
    /\ focus \in {"subscriptions", "quota"}
    /\ Init
    /\ Quota!EffectiveInit
    /\ \A p \in QuotaPlans :
         planQuota[p] # None => planQuota[p].enabled /\ ~planQuota[p].unlimited
    /\ focus # "quota" => subscription = None /\ \A p \in QuotaPlans : planQuota[p] = None

MCNext ==
    /\ UNCHANGED focus
    /\ \/ focus = "subscriptions" /\ Next /\ UNCHANGED quotaVars
       \/ focus = "quota" /\ Quota!EffectiveNext /\ UNCHANGED vars

MCSpec == MCInit /\ [][MCNext]_<<focus, vars, quotaVars>>

\* The types of both modules, each where it moves.
MCTypeOK ==
    /\ focus = "subscriptions" => TypeOK
    /\ focus = "quota" => Quota!EffectiveTypeOK

\* EffectiveQuota: what a resolution answers was the limit at some moment while
\* it read, unless rows changed against the order of its reads; and it is always
\* a limit that some row had.
QuotaWasInForce == focus = "quota" => Quota!ResolvedWasInForce

\* Subscriptions and EffectiveQuota: a subscription that is over stays over,
\* outside the race named there, and no limit changes under an old version but
\* by a change of a plan that overlooks a new subscriber.
ChangesAreInOrder == ClosedUnlessRaced /\ Quota!LimitMovesWithVersion
=============================================================================
