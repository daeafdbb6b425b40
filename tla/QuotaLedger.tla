---------------------------- MODULE QuotaLedger ----------------------------
(***************************************************************************)
(* The usage ledger of ONE (organization, metric) pair: the counters, the  *)
(* reservations, the threshold alerts and the closed-period snapshots that *)
(* QuotaService and QuotaSchedulerService keep in PostgreSQL.              *)
(*                                                                         *)
(* The advisory lock "quota:<org>:<metric>" makes pairs independent, so a  *)
(* single pair is modelled.  reserve() runs its statements under that lock *)
(* and is one action.  commitReservations() also holds the lock, but        *)
(* releaseReservation() and the scheduler do not take it: a commit is      *)
(* therefore split where it has READ the row and has not written it yet.   *)
(* This module is the ledger under its most general client: any key may be *)
(* reserved, committed or released at any time, in any order, repeatedly.  *)
(* EventMetering and SeatMetering are the two clients the code has.        *)
(***************************************************************************)
EXTENDS QuotaSums

CONSTANTS
    Keys,          \* idempotency keys, one usage_reservations row each
    NoKey,         \* "no transaction holds the lock between read and write"
    Quotas,        \* configurations QuotaResolverService can resolve to
    MaxLimit,      \* BOUND: largest hard limit among the enforced ones
    FirstInstant,  \* when the model starts, later than the epoch period
    TTL,           \* QUOTA_RESERVATION_TTL_MS, in clock ticks
    Passes,        \* scheduler passes that may overlap (cron does not wait)
    BatchLimit,    \* the scheduler's LIMIT 500
    MaxClock       \* BOUND: last instant of the model

NoLimit == -1
NoEnd == -1                       \* periodEnd null
Epoch == 0                        \* new Date(0), the period of reset NONE
Instants == FirstInstant..MaxClock
Periods == 0..MaxClock            \* a period is named by its start

\* A resolved configuration: is the hard limit in force, what is it, and the
\* length of the aligned period it resets with (DAILY, MONTHLY); 0 for NONE.
Quota == [enforced : BOOLEAN, hardLimit : Nat \cup {NoLimit}, reset : 0..FirstInstant]

ASSUME KeysAssumption == IsFiniteSet(Keys) /\ NoKey \notin Keys
ASSUME BoundsAssumption ==
    /\ MaxAmount \in Nat \ {0} /\ FirstInstant \in Nat \ {0} /\ TTL \in Nat
    /\ BatchLimit \in Nat \ {0} /\ MaxClock \in Nat /\ MaxLimit \in Nat
    /\ FirstInstant <= MaxClock
ASSUME QuotasAssumption ==
    /\ Quotas \subseteq Quota /\ Quotas # {}
    /\ \A q \in Quotas : q.enforced => q.hardLimit \in 0..MaxLimit

VARIABLES
    clock,       \* wall clock
    quota,       \* what the resolver would answer now
    counter,     \* usage_counters, by period start
    rsv,         \* usage_reservations, by idempotency key
    committing,  \* key whose commit holds the lock, row read but not written
    alerts,      \* quota_threshold_events
    snapshots,   \* usage_snapshots
    pass         \* the scheduler's passes: where each is, its now, what it read

vars == <<clock, quota, counter, rsv, committing, alerts, snapshots, pass>>
ledgerVars == <<counter, rsv, committing, alerts>>
schedulerVars == <<snapshots, pass>>

Status == {"ABSENT", "RESERVED", "COMMITTED", "RELEASED", "EXPIRED"}
Counter == [exists : BOOLEAN, value : Nat, limit : Nat \cup {NoLimit}, end : Nat \cup {NoEnd}]
Reservation == [status : Status, period : Periods, amount : 0..MaxAmount, expiresAt : Nat]
Alert == [period : Periods, threshold : {80, 90}, usage : Nat, limit : Nat]
Snapshot == [period : Periods, usage : Nat, exceeded : BOOLEAN]
ClosedRow == [period : Periods, usage : Nat, limit : Nat \cup {NoLimit}]
Pass == [at : {"idle", "swept", "selected", "writing"}, now : Nat,
         ids : SUBSET Periods, rows : SUBSET ClosedRow]

TypeOK ==
    /\ clock \in Instants
    /\ quota \in Quotas
    /\ counter \in [Periods -> Counter]
    /\ rsv \in [Keys -> Reservation]
    /\ committing \in Keys \cup {NoKey}
    /\ alerts \subseteq Alert
    /\ snapshots \subseteq Snapshot
    /\ pass \in [Passes -> Pass]

Idle == [at |-> "idle", now |-> 0, ids |-> {}, rows |-> {}]

Init ==
    /\ clock = FirstInstant
    /\ quota \in Quotas
    /\ counter = [p \in Periods |->
                    [exists |-> FALSE, value |-> 0, limit |-> NoLimit, end |-> NoEnd]]
    /\ rsv = [k \in Keys |-> [status |-> "ABSENT", period |-> Epoch, amount |-> 0, expiresAt |-> 0]]
    /\ committing = NoKey
    /\ alerts = {}
    /\ snapshots = {}
    /\ pass = [w \in Passes |-> Idle]

InPeriod(r, p, st) == {k \in Keys : r[k].status = st /\ r[k].period = p}

\* QuotaResolverService.period: the epoch for ever, or the current window.
PeriodStart(q, now) == IF q.reset = 0 THEN Epoch ELSE now - (now % q.reset)
PeriodEnd(q, now) == IF q.reset = 0 THEN NoEnd ELSE PeriodStart(q, now) + q.reset

\* MUTANT of Expired: forgets the RESERVED filter.
Expired_AnyStatus(r, now, ps) ==
    [k \in Keys |->
        IF r[k].status # "ABSENT" /\ r[k].period \in ps /\ r[k].expiresAt <= now
        THEN [r[k] EXCEPT !.status = "EXPIRED"]
        ELSE r[k]]

\* MUTANT of Expired: measures a hold's age from the wrong end.
Expired_Early(r, now, ps) ==
    [k \in Keys |->
        IF r[k].status = "RESERVED" /\ r[k].period \in ps /\ r[k].expiresAt <= now + TTL
        THEN [r[k] EXCEPT !.status = "EXPIRED"]
        ELSE r[k]]

\* Rows of one counter (reserve) or of all (the scheduler) past their expiry.
Expired(r, now, ps) ==
    [k \in Keys |->
        IF r[k].status = "RESERVED" /\ r[k].period \in ps /\ r[k].expiresAt <= now
        THEN [r[k] EXCEPT !.status = "EXPIRED"]
        ELSE r[k]]

\* counter(): upsert, baseline on create; the limit and the end of the period
\* are refreshed on every call.
Upserted(now, baseline) ==
    [counter EXCEPT ![PeriodStart(quota, now)] =
        [exists |-> TRUE,
         value  |-> IF @.exists THEN @.value ELSE baseline,
         limit  |-> quota.hardLimit,
         end    |-> PeriodEnd(quota, now)]]

----------------------------------------------------------------------------
\* MUTANT of LockFree: pg_advisory_xact_lock on a key no two calls share.
LockFree_Unshared == TRUE

\* lock(): nobody else is between reading and writing this pair's rows.
LockFree == committing = NoKey

\* MUTANT of ReserveOutcome: leaves the live holds out of the projection.
ReserveOutcome_IgnoresHolds(k, n, now, baseline) ==
    LET p == PeriodStart(quota, now)
        row == Expired(rsv, now, {p})[k]
    IN  IF row.status # "ABSENT" /\ row.amount # n THEN "MISMATCH"
        ELSE IF row.status \in {"RESERVED", "COMMITTED"} THEN "ALREADY_RESERVED"
        ELSE IF quota.enforced /\ Upserted(now, baseline)[p].value + n > quota.hardLimit
             THEN "EXCEEDED"
        ELSE "RESERVED"

(***************************************************************************)
(* QuotaService.reserve.  `now` is taken by the caller before it waits for *)
(* the lock, so it may lag behind the clock.                               *)
(***************************************************************************)
ReserveOutcome(k, n, now, baseline) ==
    LET p == PeriodStart(quota, now)
        row == Expired(rsv, now, {p})[k]
        reserved == Sum(rsv, InPeriod(Expired(rsv, now, {p}), p, "RESERVED"))
    IN  IF row.status # "ABSENT" /\ row.amount # n THEN "MISMATCH"
        ELSE IF row.status \in {"RESERVED", "COMMITTED"} THEN "ALREADY_RESERVED"
        ELSE IF quota.enforced
                /\ Upserted(now, baseline)[p].value + reserved + n > quota.hardLimit
             THEN "EXCEEDED"
        ELSE "RESERVED"

\* A mismatch throws and rolls the transaction back, so it has no step here.
Reserve(k, n, now, baseline) ==
    LET p == PeriodStart(quota, now)
        swept == Expired(rsv, now, {p})
        outcome == ReserveOutcome(k, n, now, baseline)
    IN  /\ LockFree
        /\ outcome # "MISMATCH"
        /\ counter' = Upserted(now, baseline)
        /\ rsv' = IF outcome = "RESERVED"
                  THEN [swept EXCEPT ![k] = [status |-> "RESERVED", period |-> p,
                                             amount |-> n, expiresAt |-> now + TTL]]
                  ELSE swept
        /\ UNCHANGED <<clock, quota, committing, alerts, schedulerVars>>

\* MUTANT of CommitRead: counts a row again on a repeated commit.
CommitRead_AnyStatus(k) ==
    /\ LockFree
    /\ rsv[k].status # "ABSENT"
    /\ committing' = k
    /\ UNCHANGED <<clock, quota, counter, rsv, alerts, schedulerVars>>

(***************************************************************************)
(* QuotaService.commitReservations for one id.  Anything but a RESERVED    *)
(* row is answered without a write.                                        *)
(***************************************************************************)
CommitRead(k) ==
    /\ LockFree
    /\ rsv[k].status = "RESERVED"
    /\ committing' = k
    /\ UNCHANGED <<clock, quota, counter, rsv, alerts, schedulerVars>>

\* MUTANT of NewAlerts: createMany without skipDuplicates.
NewAlerts_Repeated(p, usage, limit) ==
    {a \in {[period |-> p, threshold |-> t, usage |-> usage, limit |-> limit] : t \in {80, 90}} :
        limit > 0 /\ usage * 100 >= limit * a.threshold}

\* thresholds(): one alert per period and threshold, duplicates skipped.
NewAlerts(p, usage, limit) ==
    {a \in {[period |-> p, threshold |-> t, usage |-> usage, limit |-> limit] : t \in {80, 90}} :
        /\ limit > 0
        /\ usage * 100 >= limit * a.threshold
        /\ ~\E b \in alerts : b.period = p /\ b.threshold = a.threshold}

\* The row is overwritten by id whatever its status has become meanwhile.
CommitWrite ==
    /\ committing \in Keys
    /\ LET row == rsv[committing]
           usage == counter[row.period].value + row.amount
       IN  /\ counter' = [counter EXCEPT ![row.period].value = usage]
           /\ rsv' = [rsv EXCEPT ![committing].status = "COMMITTED"]
           /\ alerts' = alerts \cup NewAlerts(row.period, usage, counter[row.period].limit)
    /\ committing' = NoKey
    /\ UNCHANGED <<clock, quota, schedulerVars>>

\* The transaction dies: nothing is written and the lock is freed.
CommitAbort ==
    /\ committing \in Keys
    /\ committing' = NoKey
    /\ UNCHANGED <<clock, quota, counter, rsv, alerts, schedulerVars>>

\* MUTANT of Release: gives back usage that was never counted.
Release_Refunds(k) ==
    /\ rsv[k].status = "RESERVED"
    /\ rsv' = [rsv EXCEPT ![k].status = "RELEASED"]
    /\ counter' = [counter EXCEPT ![rsv[k].period].value = @ - rsv[k].amount]
    /\ UNCHANGED <<clock, quota, committing, alerts, schedulerVars>>

\* QuotaService.releaseReservation: state-conditional, takes no lock.
Release(k) ==
    /\ rsv[k].status = "RESERVED"
    /\ rsv' = [rsv EXCEPT ![k].status = "RELEASED"]
    /\ UNCHANGED <<clock, quota, counter, committing, alerts, schedulerVars>>

----------------------------------------------------------------------------
\* MUTANT of SweepExpired: sweeps the current period only.
SweepExpired_CurrentOnly(w) ==
    /\ pass[w].at = "idle"
    /\ rsv' = Expired(rsv, clock, {PeriodStart(quota, clock)})
    /\ pass' = [pass EXCEPT ![w] = [Idle EXCEPT !.at = "swept", !.now = clock]]
    /\ UNCHANGED <<clock, quota, counter, committing, alerts, snapshots>>

(***************************************************************************)
(* QuotaSchedulerService.finalizeClosedPeriods: one statement after the    *)
(* other, no lock and no transaction around them.                          *)
(***************************************************************************)
SweepExpired(w) ==
    /\ pass[w].at = "idle"
    /\ rsv' = Expired(rsv, clock, Periods)
    /\ pass' = [pass EXCEPT ![w] = [Idle EXCEPT !.at = "swept", !.now = clock]]
    /\ UNCHANGED <<clock, quota, counter, committing, alerts, snapshots>>

Snapshotted(p) == \E s \in snapshots : s.period = p
Ended(p, now) == counter[p].exists /\ counter[p].end # NoEnd /\ counter[p].end <= now

\* MUTANT of SelectClosed: the batch also selects what is already snapshotted.
SelectClosed_Again(w) ==
    /\ pass[w].at = "swept"
    /\ LET due == {p \in Periods : Ended(p, pass[w].now)}
       IN \E ids \in SUBSET due :
              /\ Cardinality(ids) <= BatchLimit
              /\ ids = due \/ Cardinality(ids) = BatchLimit
              /\ \A p \in ids, o \in due \ ids : counter[p].end <= counter[o].end
              /\ pass' = [pass EXCEPT ![w] = IF ids = {} THEN Idle
                                             ELSE [@ EXCEPT !.at = "selected", !.ids = ids]]
    /\ UNCHANGED <<clock, quota, ledgerVars, snapshots>>

\* At most BatchLimit ended periods without a snapshot, earliest end first.
SelectClosed(w) ==
    /\ pass[w].at = "swept"
    /\ LET due == {p \in Periods : Ended(p, pass[w].now) /\ ~Snapshotted(p)}
       IN \E ids \in SUBSET due :
              /\ Cardinality(ids) <= BatchLimit
              /\ ids = due \/ Cardinality(ids) = BatchLimit
              /\ \A p \in ids, o \in due \ ids : counter[p].end <= counter[o].end
              /\ pass' = [pass EXCEPT ![w] = IF ids = {} THEN Idle
                                             ELSE [@ EXCEPT !.at = "selected", !.ids = ids]]
    /\ UNCHANGED <<clock, quota, ledgerVars, snapshots>>

\* findMany over the ids: values may have moved on since the selection.
LoadClosed(w) ==
    /\ pass[w].at = "selected"
    /\ pass' = [pass EXCEPT ![w] =
                   [@ EXCEPT !.at = "writing", !.ids = {},
                             !.rows = {[period |-> p, usage |-> counter[p].value,
                                        limit |-> counter[p].limit] : p \in pass[w].ids}]]
    /\ UNCHANGED <<clock, quota, ledgerVars, snapshots>>

\* MUTANT of WriteSnapshot: createMany without skipDuplicates.
WriteSnapshot_Repeated(w, r) ==
    /\ pass[w].at = "writing" /\ r \in pass[w].rows
    /\ snapshots' = snapshots \cup
                      {[period |-> r.period, usage |-> r.usage,
                        exceeded |-> r.limit # NoLimit /\ r.usage > r.limit]}
    /\ LET left == pass[w].rows \ {r}
       IN pass' = [pass EXCEPT ![w] = IF left = {} THEN Idle ELSE [pass[w] EXCEPT !.rows = left]]
    /\ UNCHANGED <<clock, quota, ledgerVars>>

\* One iteration of the loop; createMany skips a period already snapshotted.
WriteSnapshot(w, r) ==
    /\ pass[w].at = "writing" /\ r \in pass[w].rows
    /\ snapshots' = IF Snapshotted(r.period) THEN snapshots
                    ELSE snapshots \cup
                         {[period |-> r.period, usage |-> r.usage,
                           exceeded |-> r.limit # NoLimit /\ r.usage > r.limit]}
    /\ LET left == pass[w].rows \ {r}
       IN pass' = [pass EXCEPT ![w] = IF left = {} THEN Idle ELSE [pass[w] EXCEPT !.rows = left]]
    /\ UNCHANGED <<clock, quota, ledgerVars>>

\* The process stops in mid-pass; the next cron tick starts from scratch.
PassDies(w) ==
    /\ pass[w].at # "idle"
    /\ pass' = [pass EXCEPT ![w] = Idle]
    /\ UNCHANGED <<clock, quota, ledgerVars, snapshots>>

----------------------------------------------------------------------------
\* PlatformQuotaService.setPlanQuota/setOverride/removeOverride, a plan or a
\* subscription change: the next resolve() answers something else.
ChangeQuota(q) ==
    /\ quota' = q
    /\ UNCHANGED <<clock, ledgerVars, schedulerVars>>

Tick ==
    /\ clock < MaxClock
    /\ clock' = clock + 1
    /\ UNCHANGED <<quota, ledgerVars, schedulerVars>>

Scheduler ==
    \E w \in Passes :
        \/ SweepExpired(w)
        \/ SelectClosed(w)
        \/ LoadClosed(w)
        \/ \E r \in pass[w].rows : WriteSnapshot(w, r)
        \/ PassDies(w)

Environment ==
    \/ \E q \in Quotas : ChangeQuota(q)
    \/ Tick

\* authoritativeInventory is null for an event metric: baseline 0.
Next ==
    \/ \E k \in Keys, n \in 1..MaxAmount, now \in FirstInstant..clock : Reserve(k, n, now, 0)
    \/ \E k \in Keys : CommitRead(k) \/ Release(k)
    \/ CommitWrite
    \/ CommitAbort
    \/ Scheduler
    \/ Environment

Spec == Init /\ [][Next]_vars

\* Cron starts a pass every hour, and a pass is not killed for ever at the
\* same statement.
FairSpec ==
    /\ Spec
    /\ \A w \in Passes :
          /\ WF_vars(SweepExpired(w))
          /\ SF_vars(SelectClosed(w))
          /\ SF_vars(LoadClosed(w))
          /\ SF_vars(\E r \in pass[w].rows : WriteSnapshot(w, r))

----------------------------------------------------------------------------
(***************************************************************************)
(* Safety.                                                                 *)
(***************************************************************************)

\* A counter is exactly the sum of the amounts of the rows committed in its
\* period: a commit is counted once, whatever was released, expired, retried
\* or aborted around it (commitReservations, quota.service.ts).
CounterMatchesCommitted ==
    \A p \in Periods : counter[p].value = Sum(rsv, InPeriod(rsv, p, "COMMITTED"))

\* What makes it inductive: a row always has its counter, and the row a commit
\* has read is never COMMITTED under its feet.
RowsHaveCounter == \A k \in Keys : rsv[k].status # "ABSENT" => counter[rsv[k].period].exists
CommittingIsPending ==
    committing \in Keys => rsv[committing].status \in {"RESERVED", "RELEASED", "EXPIRED"}
LedgerInv == CounterMatchesCommitted /\ RowsHaveCounter /\ CommittingIsPending

\* The keys that hold a share of period p: admitted, not yet given back; a key
\* whose commit has read it as RESERVED keeps its share until it is written.
Claimed(p) == {k \in Keys : /\ rsv[k].period = p
                            /\ rsv[k].status \in {"RESERVED", "COMMITTED"} \/ committing = k}
Claims(p) == Sum(rsv, Claimed(p))

\* What a period has promised only grows within the hard limit in force at that
\* moment: concurrent reserves cannot overbook, not even when a hold expires
\* or is released while its commit is under way (reserve, quota.service.ts).
GrowsWithinLimit ==
    \A p \in Periods : (quota.enforced /\ Claims(p)' > Claims(p)) => Claims(p)' <= quota.hardLimit
LimitRespected == [][GrowsWithinLimit]_vars

ClaimsBounded ==
    (\A q \in Quotas : q.enforced) => \A p \in Periods : Claims(p) <= MaxLimit

\* The absolute form: while every configuration enforces a limit, usage plus
\* live holds of a period never exceed the largest of them.
NoOverbooking ==
    (\A q \in Quotas : q.enforced) =>
        \A p \in Periods :
            counter[p].value + Sum(rsv, InPeriod(rsv, p, "RESERVED")) <= MaxLimit

\* Alerts are raised once per period and threshold, at a usage that was really
\* reached, and the 90% alert never comes without the 80% one (thresholds).
AlertsSound ==
    \A a \in alerts :
        /\ a.usage * 100 >= a.limit * a.threshold
        /\ a.usage <= counter[a.period].value
        /\ \A b \in alerts : (b.period = a.period /\ b.threshold = a.threshold) => b = a
        /\ a.threshold = 90 =>
             \E b \in alerts : b.period = a.period /\ b.threshold = 80 /\ b.usage <= a.usage

\* Overlapping and killed passes leave one snapshot per period, of a usage that
\* the counter did reach (finalizeClosedPeriods).
SnapshotsSound ==
    \A s \in snapshots :
        /\ s.usage <= counter[s.period].value
        /\ \A t \in snapshots : t.period = s.period => t = s

(***************************************************************************)
(* The abstract view: a key holds a share from the moment it is admitted   *)
(* until it is released, expires, or its pending commit is given up.       *)
(***************************************************************************)
Promise == INSTANCE QuotaPromise WITH
    usage <- [p \in Periods |-> counter[p].value],
    share <- [k \in Keys |->
                IF rsv[k].status = "COMMITTED"
                THEN [state |-> "used", period |-> rsv[k].period, amount |-> rsv[k].amount]
                ELSE IF rsv[k].status = "RESERVED" \/ committing = k
                THEN [state |-> "held", period |-> rsv[k].period, amount |-> rsv[k].amount]
                ELSE [state |-> "none", period |-> 0, amount |-> 0]]

\* Every ledger step, whatever it interleaves with, is a step of the promise:
\* shares are admitted within the limit, used once, and never taken back.
KeepsPromise == Promise!Spec

(***************************************************************************)
(* Liveness, under FairSpec.                                               *)
(***************************************************************************)

\* An ended period gets its snapshot, whatever passes die on the way, unless
\* a longer reset re-opens it first.
EndedIsSnapshotted ==
    \A p \in Periods : Ended(p, clock) ~> (Snapshotted(p) \/ ~Ended(p, clock))

\* A hold whose client vanished does not keep its share for ever: once expired
\* it is freed, or held anew by a retry, whatever passes die on the way.
Overdue(k) == rsv[k].status = "RESERVED" /\ rsv[k].expiresAt <= clock
OverdueIsFreed == \A k \in Keys : Overdue(k) ~> ~Overdue(k)

============================================================================
