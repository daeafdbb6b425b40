------------------------- MODULE QuotaLedgerProofs -------------------------
(***************************************************************************)
(* The ledger's invariants, its records and the promise it keeps, for any  *)
(* number of keys and passes, any configurations and any length of run.    *)
(***************************************************************************)
EXTENDS QuotaLedger, FiniteSetTheorems, TLAPS

----------------------------------------------------------------------------
\* What Sum, the aggregate of the amounts of a set of rows, preserves.

\* The units of finitely many rows are finitely many (reserve's aggregate).
LEMMA UnitsFinite ==
    ASSUME NEW r, NEW K, IsFiniteSet(K), MaxAmount \in Nat
    PROVE  IsFiniteSet(Units(r, K)) /\ Sum(r, K) \in Nat
<1>1. IsFiniteSet(1..MaxAmount)
  BY FS_Interval
<1>2. IsFiniteSet(K \X (1..MaxAmount))
  BY <1>1, FS_Product
<1>3. Units(r, K) \in SUBSET (K \X (1..MaxAmount))
  BY DEF Units
<1>4. IsFiniteSet(Units(r, K))
  BY <1>2, <1>3, FS_Subset
<1> QED
  BY <1>4, FS_CardinalityType DEF Sum

\* A sum only depends on the amounts of the rows it ranges over.
LEMMA SumCongruence ==
    ASSUME NEW r, NEW s, NEW K, \A k \in K : r[k].amount = s[k].amount
    PROVE  Sum(r, K) = Sum(s, K)
<1>1. Units(r, K) = Units(s, K)
  BY DEF Units
<1> QED
  BY <1>1 DEF Sum

\* The sum over no row is 0.
LEMMA SumEmpty ==
    ASSUME NEW r, MaxAmount \in Nat
    PROVE  Sum(r, {}) = 0
<1>1. Units(r, {}) = {}
  BY DEF Units
<1> QED
  BY <1>1, FS_EmptySet DEF Sum

\* The sum over one row is its amount.
LEMMA SumSingleton ==
    ASSUME NEW r, NEW k, MaxAmount \in Nat, r[k].amount \in 0..MaxAmount
    PROVE  Sum(r, {k}) = r[k].amount
<1>1. PICK n \in 0..MaxAmount : n = r[k].amount
  OBVIOUS
<1>2. n \in Nat
  OBVIOUS
<1>3. Units(r, {k}) = {k} \X (1..n)
  BY <1>1 DEF Units
<1>4. IsFiniteSet({k}) /\ Cardinality({k}) = 1
  BY FS_Singleton
<1>5. IsFiniteSet(1..n) /\ Cardinality(1..n) = n
  <2>1. 1 \in Int /\ n \in Int
    BY <1>2
  <2>2. IsFiniteSet(1..n) /\ Cardinality(1..n) = IF 1 > n THEN 0 ELSE n - 1 + 1
    BY <2>1, FS_Interval, Zenon
  <2> QED
    BY <1>2, <2>2
<1>6. Cardinality({k} \X (1..n)) = Cardinality({k}) * Cardinality(1..n)
  BY <1>4, <1>5, FS_Product
<1>7. Cardinality({k} \X (1..n)) = n
  BY <1>2, <1>4, <1>5, <1>6
<1> QED
  BY <1>1, <1>3, <1>7 DEF Sum

\* Sums over disjoint sets of rows add up.
LEMMA SumDisjoint ==
    ASSUME NEW r, NEW K, NEW L, IsFiniteSet(K), IsFiniteSet(L), K \cap L = {}, MaxAmount \in Nat
    PROVE  Sum(r, K \cup L) = Sum(r, K) + Sum(r, L)
<1>1. Units(r, K \cup L) = Units(r, K) \cup Units(r, L)
  BY DEF Units
<1>2. Units(r, K) \cap Units(r, L) = {}
  BY DEF Units
<1>3. IsFiniteSet(Units(r, K)) /\ IsFiniteSet(Units(r, L))
  BY UnitsFinite
<1>4. Cardinality({}) = 0
  BY FS_EmptySet
<1>5. Cardinality(Units(r, K)) \in Nat /\ Cardinality(Units(r, L)) \in Nat
  BY <1>3, FS_CardinalityType
<1>6. Cardinality(Units(r, K) \cup Units(r, L)) =
        Cardinality(Units(r, K)) + Cardinality(Units(r, L)) - Cardinality(Units(r, K) \cap Units(r, L))
  BY <1>3, FS_Union
<1>7. Cardinality(Units(r, K) \cup Units(r, L)) = Cardinality(Units(r, K)) + Cardinality(Units(r, L))
  <2>1. Cardinality(Units(r, K) \cap Units(r, L)) = 0
    BY <1>2, <1>4, Zenon
  <2> QED
    BY <2>1, <1>5, <1>6
<1> QED
  BY <1>1, <1>7 DEF Sum

\* One more row adds its amount.
LEMMA SumAdd ==
    ASSUME NEW r, NEW K, NEW k, IsFiniteSet(K), k \notin K, MaxAmount \in Nat,
           r[k].amount \in 0..MaxAmount
    PROVE  Sum(r, K \cup {k}) = Sum(r, K) + r[k].amount
<1>1. IsFiniteSet({k}) /\ K \cap {k} = {}
  BY FS_Singleton
<1> QED
  BY <1>1, SumDisjoint, SumSingleton

\* Fewer rows sum to less.
LEMMA SumMonotone ==
    ASSUME NEW r, NEW K, NEW L, IsFiniteSet(L), K \subseteq L, MaxAmount \in Nat
    PROVE  Sum(r, K) <= Sum(r, L)
<1>1. Units(r, K) \in SUBSET Units(r, L)
  BY DEF Units
<1>2. IsFiniteSet(Units(r, L))
  BY UnitsFinite
<1> QED
  BY <1>1, <1>2, FS_Subset DEF Sum

----------------------------------------------------------------------------
\* The counters: every unit is counted once, within the limit, never overbooked.

\* The current period of any configuration is one of the periods (period()).
LEMMA PeriodStartType ==
    ASSUME NEW q \in Quotas, NEW now \in Instants
    PROVE  PeriodStart(q, now) \in Periods /\ PeriodEnd(q, now) \in Nat \cup {NoEnd}
<1>1. /\ q.reset \in 0..FirstInstant /\ now \in FirstInstant..MaxClock
      /\ FirstInstant \in Nat /\ MaxClock \in Nat
  BY QuotasAssumption, BoundsAssumption DEF Quota, Instants
<1>2. CASE q.reset = 0
  BY <1>1, <1>2 DEF PeriodStart, PeriodEnd, Epoch, Periods, NoEnd
<1>3. CASE q.reset # 0
  <2>1. PICK r \in 1..FirstInstant : r = q.reset
    BY <1>1, <1>3
  <2>2. PICK n \in FirstInstant..MaxClock : n = now
    BY <1>1
  <2>3. n % r \in 0..(r - 1)
    BY <1>1
  <2>4. n - (n % r) \in 0..MaxClock
    BY <1>1, <2>3
  <2> QED
    BY <1>1, <1>3, <2>1, <2>2, <2>4 DEF PeriodStart, PeriodEnd, Epoch, Periods, NoEnd
<1> QED
  BY <1>2, <1>3


\* Expiring rows changes nothing but their status.
LEMMA ExpiredType ==
    ASSUME NEW r \in [Keys -> Reservation], NEW now, NEW ps
    PROVE  /\ Expired(r, now, ps) \in [Keys -> Reservation]
           /\ \A k \in Keys :
                 \/ Expired(r, now, ps)[k] = r[k]
                 \/ /\ r[k].status = "RESERVED"
                    /\ Expired(r, now, ps)[k] = [r[k] EXCEPT !.status = "EXPIRED"]
  BY DEF Expired, Reservation, Status

\* The alerts a commit raises are alerts (thresholds()).
LEMMA NewAlertsType ==
    ASSUME NEW p \in Periods, NEW usage \in Nat, NEW limit \in Nat \cup {NoLimit}
    PROVE  NewAlerts(p, usage, limit) \subseteq Alert
  BY DEF NewAlerts, Alert, NoLimit

\* Every variable keeps its type, in every action.
THEOREM TypeCorrect == Spec => []TypeOK
<1> USE BoundsAssumption
<1>1. Init => TypeOK
  BY DEF Init, TypeOK, Idle, Counter, Reservation, Status, Alert, Snapshot, Pass, Periods,
         Instants, NoLimit, NoEnd, Epoch
<1>2. TypeOK /\ [Next]_vars => TypeOK'
  <2> SUFFICES ASSUME TypeOK, [Next]_vars PROVE TypeOK'
    OBVIOUS
  <2>1. ASSUME NEW k \in Keys, NEW n \in 1..MaxAmount, NEW now \in FirstInstant..clock,
               Reserve(k, n, now, 0)
        PROVE  TypeOK'
    <3> DEFINE p == PeriodStart(quota, now)
               swept == Expired(rsv, now, {p})
    <3>1. now \in Instants /\ now \in Nat
      BY DEF TypeOK, Instants
    <3>2. p \in Periods /\ PeriodEnd(quota, now) \in Nat \cup {NoEnd}
      BY <3>1, PeriodStartType DEF TypeOK
    <3>3. swept \in [Keys -> Reservation]
      BY ExpiredType DEF TypeOK
    <3>4. [status |-> "RESERVED", period |-> p, amount |-> n, expiresAt |-> now + TTL] \in Reservation
      BY <3>1, <3>2 DEF Reservation, Status
    <3>5. rsv' \in [Keys -> Reservation]
      BY <2>1, <3>3, <3>4 DEF Reserve, LockFree
    <3>6. quota.hardLimit \in Nat \cup {NoLimit}
      BY QuotasAssumption DEF TypeOK, Quota
    <3>7. counter' \in [Periods -> Counter]
      <4> DEFINE row == [exists |-> TRUE,
                         value  |-> IF counter[p].exists THEN counter[p].value ELSE 0,
                         limit  |-> quota.hardLimit,
                         end    |-> PeriodEnd(quota, now)]
      <4>1. row \in Counter
        BY <3>2, <3>6 DEF TypeOK, Counter
      <4>2. counter' = [counter EXCEPT ![p] = row]
        BY <2>1 DEF Reserve, Upserted
      <4> HIDE DEF p, row
      <4> QED
        BY <3>2, <4>1, <4>2 DEF TypeOK
    <3> QED
      BY <2>1, <3>5, <3>7 DEF TypeOK, Reserve, schedulerVars
  <2>2. ASSUME NEW k \in Keys, CommitRead(k) PROVE TypeOK'
    BY <2>2 DEF TypeOK, CommitRead, LockFree, schedulerVars
  <2>3. ASSUME NEW k \in Keys, Release(k) PROVE TypeOK'
    BY <2>3 DEF TypeOK, Release, schedulerVars, Reservation, Status
  <2>4. CASE CommitWrite
    <3> DEFINE row == rsv[committing]
               usage == counter[row.period].value + row.amount
    <3>1. committing \in Keys /\ row \in Reservation /\ row.period \in Periods
      BY <2>4 DEF CommitWrite, TypeOK, Reservation
    <3>2. counter[row.period] \in Counter /\ usage \in Nat
      BY <3>1 DEF TypeOK, Counter, Reservation
    <3>3. counter' \in [Periods -> Counter]
      BY <2>4, <3>1, <3>2 DEF TypeOK, CommitWrite, Counter
    <3>4. rsv' \in [Keys -> Reservation]
      BY <2>4, <3>1 DEF TypeOK, CommitWrite, Reservation, Status
    <3>5. NewAlerts(row.period, usage, counter[row.period].limit) \subseteq Alert
      BY <3>1, <3>2, NewAlertsType DEF Counter
    <3>6. alerts' \subseteq Alert
      BY <2>4, <3>5 DEF CommitWrite, TypeOK
    <3> QED
      BY <2>4, <3>3, <3>4, <3>6 DEF TypeOK, CommitWrite, schedulerVars
  <2>5. CASE CommitAbort
    BY <2>5 DEF TypeOK, CommitAbort, schedulerVars
  <2>6. ASSUME NEW w \in Passes, SweepExpired(w) PROVE TypeOK'
    <3>1. rsv' \in [Keys -> Reservation]
      BY <2>6, ExpiredType DEF TypeOK, SweepExpired
    <3>2. clock \in Nat
      BY DEF TypeOK, Instants
    <3>3. [Idle EXCEPT !.at = "swept", !.now = clock] \in Pass
      BY <3>2 DEF Pass, Idle
    <3>4. pass' \in [Passes -> Pass]
      BY <2>6, <3>3 DEF TypeOK, SweepExpired
    <3> QED
      BY <2>6, <3>1, <3>4 DEF TypeOK, SweepExpired
  <2>7. ASSUME NEW w \in Passes, SelectClosed(w) PROVE TypeOK'
    <3>1. PICK ids \in SUBSET Periods :
              pass' = [pass EXCEPT ![w] = IF ids = {} THEN Idle
                                          ELSE [pass[w] EXCEPT !.at = "selected", !.ids = ids]]
      BY <2>7 DEF SelectClosed
    <3>2. Idle \in Pass /\ [pass[w] EXCEPT !.at = "selected", !.ids = ids] \in Pass
      BY DEF TypeOK, Pass, Idle
    <3>3. pass' \in [Passes -> Pass]
      BY <3>1, <3>2 DEF TypeOK
    <3> QED
      BY <2>7, <3>3 DEF TypeOK, SelectClosed, ledgerVars
  <2>8. ASSUME NEW w \in Passes, LoadClosed(w) PROVE TypeOK'
    <3> DEFINE rows == {[period |-> p, usage |-> counter[p].value,
                         limit |-> counter[p].limit] : p \in pass[w].ids}
    <3>1. rows \subseteq ClosedRow
      BY DEF TypeOK, Pass, ClosedRow, Counter
    <3>2. pass' = [pass EXCEPT ![w] = [pass[w] EXCEPT !.at = "writing", !.ids = {}, !.rows = rows]]
      BY <2>8 DEF LoadClosed
    <3> HIDE DEF rows
    <3>3. pass' \in [Passes -> Pass]
      BY <3>1, <3>2 DEF TypeOK, Pass
    <3> QED
      BY <2>8, <3>3 DEF TypeOK, LoadClosed, ledgerVars
  <2>9. ASSUME NEW w \in Passes, NEW r \in pass[w].rows, WriteSnapshot(w, r) PROVE TypeOK'
    <3>1. r \in ClosedRow
      BY DEF TypeOK, Pass
    <3>2. [period |-> r.period, usage |-> r.usage,
           exceeded |-> r.limit # NoLimit /\ r.usage > r.limit] \in Snapshot
      BY <3>1 DEF Snapshot, ClosedRow
    <3>3. snapshots' \subseteq Snapshot
      BY <2>9, <3>2 DEF TypeOK, WriteSnapshot
    <3>4. Idle \in Pass /\ [pass[w] EXCEPT !.rows = pass[w].rows \ {r}] \in Pass
      BY DEF TypeOK, Pass, Idle
    <3>5. PICK next \in Pass : pass' = [pass EXCEPT ![w] = next]
      BY <2>9, <3>4 DEF WriteSnapshot
    <3>6. pass' \in [Passes -> Pass]
      BY <3>5 DEF TypeOK
    <3> QED
      BY <2>9, <3>3, <3>6 DEF TypeOK, WriteSnapshot, ledgerVars
  <2>10. ASSUME NEW w \in Passes, PassDies(w) PROVE TypeOK'
    BY <2>10 DEF TypeOK, PassDies, Pass, Idle, ledgerVars
  <2>11. ASSUME NEW q \in Quotas, ChangeQuota(q) PROVE TypeOK'
    BY <2>11 DEF TypeOK, ChangeQuota, ledgerVars, schedulerVars
  <2>12. CASE Tick
    BY <2>12 DEF TypeOK, Tick, ledgerVars, schedulerVars, Instants
  <2>13. CASE UNCHANGED vars
    BY <2>13 DEF TypeOK, vars
  <2> QED
    BY <2>1, <2>2, <2>3, <2>4, <2>5, <2>6, <2>7, <2>8, <2>9, <2>10, <2>11, <2>12, <2>13
       DEF Next, Scheduler, Environment
<1> QED
  BY <1>1, <1>2, PTL DEF Spec


----------------------------------------------------------------------------
\* Steps that leave the committed rows alone leave their sums alone.
LEMMA CommittedUnchanged ==
    ASSUME NEW r, NEW s,
           \A k \in Keys : (r[k].status = "COMMITTED" \/ s[k].status = "COMMITTED") => s[k] = r[k]
    PROVE  \A p \in Periods :
               Sum(s, InPeriod(s, p, "COMMITTED")) = Sum(r, InPeriod(r, p, "COMMITTED"))
<1> TAKE p \in Periods
<1>1. InPeriod(s, p, "COMMITTED") = InPeriod(r, p, "COMMITTED")
  BY DEF InPeriod
<1>2. \A k \in InPeriod(r, p, "COMMITTED") : s[k].amount = r[k].amount
  BY DEF InPeriod
<1>3. Sum(s, InPeriod(r, p, "COMMITTED")) = Sum(r, InPeriod(r, p, "COMMITTED"))
  BY <1>2, SumCongruence
<1> QED
  BY <1>1, <1>3, Zenon

\* A counter that does not exist yet has counted nothing, so the upsert of
\* counter() with baseline 0 never changes a value.
LEMMA AbsentCounterIsZero ==
    ASSUME TypeOK, CounterMatchesCommitted, RowsHaveCounter,
           NEW p \in Periods, ~counter[p].exists
    PROVE  counter[p].value = 0
<1>1. InPeriod(rsv, p, "COMMITTED") = {}
  BY DEF InPeriod, RowsHaveCounter
<1>2. Sum(rsv, {}) = 0
  BY SumEmpty, BoundsAssumption
<1>3. counter[p].value = Sum(rsv, InPeriod(rsv, p, "COMMITTED"))
  BY DEF CounterMatchesCommitted
<1> QED
  BY <1>1, <1>2, <1>3, Zenon

\* reserve() admits, answers or refuses; it never touches a committed row, and
\* every row keeps or gets a counter.
LEMMA ReserveKeeps ==
    ASSUME TypeOK, LedgerInv, NEW k \in Keys, NEW n \in 1..MaxAmount,
           NEW now \in FirstInstant..clock, Reserve(k, n, now, 0)
    PROVE  LedgerInv'
<1> DEFINE p == PeriodStart(quota, now)
           swept == Expired(rsv, now, {p})
           new == [status |-> "RESERVED", period |-> p, amount |-> n, expiresAt |-> now + TTL]
<1>1. now \in Instants
  BY BoundsAssumption DEF TypeOK, Instants
<1>2. p \in Periods
  BY <1>1, PeriodStartType DEF TypeOK
<1>3. /\ swept \in [Keys -> Reservation]
      /\ \A j \in Keys : \/ swept[j] = rsv[j]
                         \/ /\ rsv[j].status = "RESERVED"
                            /\ swept[j].status = "EXPIRED"
                            /\ swept[j].period = rsv[j].period
  <2>1. /\ swept \in [Keys -> Reservation]
        /\ \A j \in Keys : \/ swept[j] = rsv[j]
                           \/ /\ rsv[j].status = "RESERVED"
                              /\ swept[j] = [rsv[j] EXCEPT !.status = "EXPIRED"]
    BY ExpiredType DEF TypeOK
  <2> HIDE DEF p, swept
  <2> QED
    BY <2>1 DEF TypeOK, Reservation
<1>4. \/ rsv' = swept
      \/ swept[k].status # "COMMITTED" /\ rsv' = [swept EXCEPT ![k] = new]
  BY DEF Reserve, LockFree, ReserveOutcome
<1>5. \A j \in Keys : (rsv[j].status = "COMMITTED" \/ rsv'[j].status = "COMMITTED") => rsv'[j] = rsv[j]
  <2> HIDE DEF p, swept
  <2> QED
    BY <1>3, <1>4
<1>6. counter' = [counter EXCEPT ![p] =
                    [exists |-> TRUE,
                     value  |-> IF counter[p].exists THEN counter[p].value ELSE 0,
                     limit  |-> quota.hardLimit,
                     end    |-> PeriodEnd(quota, now)]]
  BY DEF Reserve, Upserted
<1> HIDE DEF p, swept
<1>7. \A q \in Periods : /\ counter'[q].value = counter[q].value
                         /\ (counter[q].exists \/ q = p) => counter'[q].exists
  BY <1>2, <1>6, AbsentCounterIsZero DEF TypeOK, Counter, LedgerInv
<1>8. CounterMatchesCommitted'
  <2>1. \A q \in Periods : Sum(rsv', InPeriod(rsv', q, "COMMITTED"))
                             = Sum(rsv, InPeriod(rsv, q, "COMMITTED"))
    BY <1>5, CommittedUnchanged
  <2> QED
    BY <1>7, <2>1 DEF LedgerInv, CounterMatchesCommitted
<1>9. RowsHaveCounter'
  <2> SUFFICES ASSUME NEW j \in Keys, rsv'[j].status # "ABSENT"
               PROVE  counter'[rsv'[j].period].exists
    BY DEF RowsHaveCounter
  <2>1. CASE rsv'[j] = new
    <3>1. rsv'[j].period = p
      BY <2>1
    <3> QED
      BY <1>2, <1>7, <3>1
  <2>2. CASE rsv'[j] = swept[j]
    <3>1. rsv[j].status # "ABSENT" /\ rsv'[j].period = rsv[j].period /\ rsv[j].period \in Periods
      BY <1>3, <2>2 DEF TypeOK, Reservation
    <3> QED
      BY <1>7, <3>1 DEF LedgerInv, RowsHaveCounter
  <2> QED
    BY <1>3, <1>4, <2>1, <2>2
<1>10. CommittingIsPending'
  BY KeysAssumption DEF Reserve, LockFree, CommittingIsPending
<1> QED
  BY <1>8, <1>9, <1>10 DEF LedgerInv

\* commitReservations() counts the row it writes exactly once.
LEMMA CommitWriteKeeps ==
    ASSUME TypeOK, LedgerInv, CommitWrite
    PROVE  LedgerInv'
<1> DEFINE k == committing
           q == rsv[k].period
           before(p) == InPeriod(rsv, p, "COMMITTED")
<1>1. k \in Keys /\ rsv[k] \in Reservation /\ rsv[k].status \in {"RESERVED", "RELEASED", "EXPIRED"}
  BY DEF CommitWrite, TypeOK, LedgerInv, CommittingIsPending
<1>2. q \in Periods /\ rsv[k].amount \in 0..MaxAmount
  BY <1>1 DEF Reservation
<1>3. /\ rsv' = [rsv EXCEPT ![k].status = "COMMITTED"]
      /\ counter' = [counter EXCEPT ![q].value = counter[q].value + rsv[k].amount]
  BY DEF CommitWrite
<1>4. \A j \in Keys : rsv'[j].amount = rsv[j].amount /\ rsv'[j].period = rsv[j].period
  BY <1>1, <1>3 DEF TypeOK, Reservation
<1>5. ASSUME NEW p \in Periods PROVE counter'[p].value = Sum(rsv', InPeriod(rsv', p, "COMMITTED"))
  <2>1. IsFiniteSet(before(p)) /\ before(p) \subseteq Keys /\ k \notin before(p)
    <3>1. before(p) \in SUBSET Keys
      BY DEF InPeriod
    <3> QED
      BY <1>1, <3>1, KeysAssumption, FS_Subset DEF InPeriod
  <2>2. Sum(rsv', before(p)) = Sum(rsv, before(p))
    BY <1>4, <2>1, SumCongruence
  <2>3. counter[p].value = Sum(rsv, before(p))
    BY DEF LedgerInv, CounterMatchesCommitted
  <2>4. CASE p = q
    <3>1. InPeriod(rsv', p, "COMMITTED") = before(p) \cup {k}
      BY <1>1, <1>3, <2>4 DEF TypeOK, Reservation, InPeriod
    <3>2. rsv'[k].amount \in 0..MaxAmount /\ MaxAmount \in Nat
      BY <1>1, <1>2, <1>4, BoundsAssumption
    <3>3. Sum(rsv', before(p) \cup {k}) = Sum(rsv', before(p)) + rsv'[k].amount
      BY <2>1, <3>2, SumAdd
    <3>4. counter'[p].value = counter[p].value + rsv[k].amount
      BY <1>2, <1>3, <2>4 DEF TypeOK, Counter
    <3>5. counter'[p].value = Sum(rsv', before(p) \cup {k})
      BY <1>1, <1>4, <2>2, <2>3, <3>3, <3>4
    <3> QED
      BY <3>1, <3>5, Zenon
  <2>5. CASE p # q
    <3>1. InPeriod(rsv', p, "COMMITTED") = before(p)
      BY <1>1, <1>3, <2>5 DEF TypeOK, Reservation, InPeriod
    <3>2. counter'[p].value = counter[p].value
      BY <1>2, <1>3, <2>5 DEF TypeOK, Counter
    <3>3. counter'[p].value = Sum(rsv', before(p))
      BY <2>2, <2>3, <3>2
    <3> QED
      BY <3>1, <3>3, Zenon
  <2> QED
    BY <2>4, <2>5
<1>6. CounterMatchesCommitted'
  BY <1>5 DEF CounterMatchesCommitted
<1>7. \A p \in Periods : counter'[p].exists = counter[p].exists
  BY <1>2, <1>3 DEF TypeOK, Counter
<1>8. RowsHaveCounter'
  BY <1>1, <1>2, <1>3, <1>4, <1>7 DEF LedgerInv, RowsHaveCounter, TypeOK, Reservation
<1>9. CommittingIsPending'
  BY KeysAssumption DEF CommitWrite, CommittingIsPending
<1> QED
  BY <1>6, <1>8, <1>9 DEF LedgerInv


\* Steps in which holds only lapse: releases, sweeps and steps elsewhere.
LEMMA LapseKeeps ==
    ASSUME TypeOK, LedgerInv, counter' = counter, committing' = committing,
           \A j \in Keys : \/ rsv'[j] = rsv[j]
                           \/ /\ rsv[j].status = "RESERVED"
                              /\ rsv'[j].status \in {"RELEASED", "EXPIRED"}
                              /\ rsv'[j].period = rsv[j].period
    PROVE  LedgerInv'
<1>1. CounterMatchesCommitted'
  <2>1. \A j \in Keys : (rsv[j].status = "COMMITTED" \/ rsv'[j].status = "COMMITTED") => rsv'[j] = rsv[j]
    OBVIOUS
  <2>2. \A q \in Periods : Sum(rsv', InPeriod(rsv', q, "COMMITTED"))
                             = Sum(rsv, InPeriod(rsv, q, "COMMITTED"))
    BY <2>1, CommittedUnchanged
  <2> QED
    BY <2>2 DEF LedgerInv, CounterMatchesCommitted
<1>2. RowsHaveCounter'
  BY DEF LedgerInv, RowsHaveCounter
<1>3. CommittingIsPending'
  BY DEF LedgerInv, CommittingIsPending
<1> QED
  BY <1>1, <1>2, <1>3 DEF LedgerInv

\* What Release and a sweep do to the rows.
LEMMA ReleaseLapses ==
    ASSUME TypeOK, NEW k \in Keys, Release(k)
    PROVE  \A j \in Keys : \/ rsv'[j] = rsv[j]
                           \/ /\ rsv[j].status = "RESERVED"
                              /\ rsv'[j].status \in {"RELEASED", "EXPIRED"}
                              /\ rsv'[j].period = rsv[j].period
                              /\ rsv'[j].amount = rsv[j].amount
  BY DEF TypeOK, Release, Reservation

\* A scheduler sweep only makes holds lapse, in every period.
LEMMA SweepLapses ==
    ASSUME TypeOK, NEW w \in Passes, SweepExpired(w)
    PROVE  \A j \in Keys : \/ rsv'[j] = rsv[j]
                           \/ /\ rsv[j].status = "RESERVED"
                              /\ rsv'[j].status \in {"RELEASED", "EXPIRED"}
                              /\ rsv'[j].period = rsv[j].period
                              /\ rsv'[j].amount = rsv[j].amount
<1>1. rsv' = Expired(rsv, clock, Periods)
  BY DEF SweepExpired
<1>2. \A j \in Keys : \/ rsv'[j] = rsv[j]
                      \/ /\ rsv[j].status = "RESERVED"
                         /\ rsv'[j] = [rsv[j] EXCEPT !.status = "EXPIRED"]
  BY <1>1, ExpiredType DEF TypeOK
<1> TAKE j \in Keys
<1>3. rsv[j] \in Reservation
  BY DEF TypeOK
<1>4. CASE rsv'[j] = [rsv[j] EXCEPT !.status = "EXPIRED"]
  BY <1>2, <1>3, <1>4 DEF Reservation
<1> QED
  BY <1>2, <1>4

\* Scheduler steps after the sweep, and the environment, leave the rows alone.
Elsewhere ==
    \/ \E w \in Passes : SelectClosed(w) \/ LoadClosed(w) \/ PassDies(w)
    \/ \E w \in Passes : \E r \in pass[w].rows : WriteSnapshot(w, r)
    \/ \E q \in Quotas : ChangeQuota(q)
    \/ Tick
    \/ UNCHANGED vars

\* Steps of the scheduler's snapshots, the clock and the configuration.
LEMMA ElsewhereLeavesLedger ==
    ASSUME Elsewhere PROVE UNCHANGED ledgerVars
  BY DEF Elsewhere, SelectClosed, LoadClosed, PassDies, WriteSnapshot, ChangeQuota, Tick,
         vars, ledgerVars, schedulerVars

\* The actions, once.
LEMMA Steps ==
    ASSUME [Next]_vars
    PROVE  \/ \E k \in Keys, n \in 1..MaxAmount, now \in FirstInstant..clock : Reserve(k, n, now, 0)
           \/ \E k \in Keys : CommitRead(k)
           \/ \E k \in Keys : Release(k)
           \/ CommitWrite
           \/ CommitAbort
           \/ \E w \in Passes : SweepExpired(w)
           \/ Elsewhere
  BY DEF Next, Scheduler, Environment, Elsewhere

\* Every action keeps the inductive invariant LedgerInv.
LEMMA LedgerInvStep ==
    ASSUME TypeOK, LedgerInv, [Next]_vars
    PROVE  LedgerInv'
<1>1. ASSUME NEW k \in Keys, NEW n \in 1..MaxAmount, NEW now \in FirstInstant..clock,
             Reserve(k, n, now, 0)
      PROVE  LedgerInv'
  BY <1>1, ReserveKeeps
<1>2. ASSUME NEW k \in Keys, CommitRead(k) PROVE LedgerInv'
  BY <1>2 DEF CommitRead, LockFree, LedgerInv, CounterMatchesCommitted, InPeriod, RowsHaveCounter,
              CommittingIsPending
<1>3. ASSUME NEW k \in Keys, Release(k) PROVE LedgerInv'
  BY <1>3, ReleaseLapses, LapseKeeps DEF Release
<1>4. CASE CommitWrite
  BY <1>4, CommitWriteKeeps
<1>5. CASE CommitAbort
  BY <1>5, KeysAssumption DEF CommitAbort, LedgerInv, CounterMatchesCommitted, InPeriod, RowsHaveCounter,
              CommittingIsPending
<1>6. ASSUME NEW w \in Passes, SweepExpired(w) PROVE LedgerInv'
  BY <1>6, SweepLapses, LapseKeeps DEF SweepExpired
<1>7. CASE Elsewhere
  BY <1>7, ElsewhereLeavesLedger, LapseKeeps DEF ledgerVars
<1> QED
  BY <1>1, <1>2, <1>3, <1>4, <1>5, <1>6, <1>7, Steps

\* An empty ledger satisfies it.
LEMMA LedgerInvInit == Init => LedgerInv
<1> SUFFICES ASSUME Init PROVE LedgerInv
  OBVIOUS
<1>1. \A p \in Periods : InPeriod(rsv, p, "COMMITTED") = {}
  BY DEF Init, InPeriod
<1>2. Sum(rsv, {}) = 0
  BY SumEmpty, BoundsAssumption
<1>3. \A p \in Periods : counter[p].value = 0
  BY DEF Init
<1>4. ASSUME NEW p \in Periods PROVE counter[p].value = Sum(rsv, InPeriod(rsv, p, "COMMITTED"))
  <2>1. InPeriod(rsv, p, "COMMITTED") = {} /\ counter[p].value = 0
    BY <1>1, <1>3
  <2> QED
    BY <1>2, <2>1, Zenon
<1> QED
  BY <1>4, KeysAssumption DEF Init, LedgerInv, CounterMatchesCommitted, RowsHaveCounter, CommittingIsPending

\* A counter is the sum of its committed rows, whatever interleaves with the
\* commits: nothing is counted twice and nothing counted is lost.
THEOREM CountedOnce == Spec => []CounterMatchesCommitted
<1>1. TypeOK /\ LedgerInv /\ [Next]_vars => LedgerInv'
  BY LedgerInvStep
<1>2. LedgerInv => CounterMatchesCommitted
  BY DEF LedgerInv
<1> QED
  BY <1>1, <1>2, LedgerInvInit, TypeCorrect, PTL DEF Spec


----------------------------------------------------------------------------
\* Fewer claims on the same amounts add up to less.
LEMMA SumShrinks ==
    ASSUME NEW r, NEW s, NEW K, NEW L, L \subseteq Keys, K \subseteq L,
           \A k \in K : s[k].amount = r[k].amount
    PROVE  Sum(s, K) <= Sum(r, L)
<1>1. L \in SUBSET Keys
  OBVIOUS
<1>2. IsFiniteSet(L)
  BY <1>1, KeysAssumption, FS_Subset
<1>3. Sum(s, K) = Sum(r, K)
  BY SumCongruence
<1>4. Sum(r, K) <= Sum(r, L)
  BY <1>2, SumMonotone, BoundsAssumption
<1> QED
  BY <1>3, <1>4

\* Steps that only let holds go never grow what a period has promised.
LEMMA ClaimsShrink ==
    ASSUME NEW p \in Periods, Claimed(p)' \subseteq Claimed(p),
           \A k \in Claimed(p)' : rsv'[k].amount = rsv[k].amount
    PROVE  Claims(p)' <= Claims(p)
<1>1. Claimed(p) \subseteq Keys
  BY DEF Claimed
<1>2. Sum(rsv', Claimed(p)') <= Sum(rsv, Claimed(p))
  BY <1>1, SumShrinks
<1> QED
  BY <1>2 DEF Claims

Swept(now) == Expired(rsv, now, {PeriodStart(quota, now)})
Admitted(now, n) ==
    [status |-> "RESERVED", period |-> PeriodStart(quota, now), amount |-> n, expiresAt |-> now + TTL]

\* reserve() either only lapses holds, or admits k on top of what period p has
\* used and still holds, and then the limit in force covers all of it.
LEMMA ReserveCases ==
    ASSUME TypeOK, LedgerInv, NEW k \in Keys, NEW n \in 1..MaxAmount,
           NEW now \in FirstInstant..clock, Reserve(k, n, now, 0)
    PROVE  LET p == PeriodStart(quota, now)
               held == InPeriod(Swept(now), p, "RESERVED")
           IN  /\ p \in Periods
               /\ Swept(now) \in [Keys -> Reservation]
               /\ \A j \in Keys :
                     \/ Swept(now)[j] = rsv[j]
                     \/ rsv[j].status = "RESERVED" /\ Swept(now)[j] = [rsv[j] EXCEPT !.status = "EXPIRED"]
               /\ \A q \in Periods : counter'[q].value = counter[q].value
               /\ \/ rsv' = Swept(now)
                  \/ /\ rsv' = [Swept(now) EXCEPT ![k] = Admitted(now, n)]
                     /\ Swept(now)[k].status \notin {"RESERVED", "COMMITTED"}
                     /\ quota.enforced => counter[p].value + Sum(rsv, held) + n <= quota.hardLimit
<1> DEFINE p == PeriodStart(quota, now)
           held == InPeriod(Swept(now), p, "RESERVED")
<1>1. now \in Instants
  BY BoundsAssumption DEF TypeOK, Instants
<1>2. p \in Periods
  BY <1>1, PeriodStartType DEF TypeOK
<1>3. /\ Swept(now) \in [Keys -> Reservation]
      /\ \A j \in Keys :
            \/ Swept(now)[j] = rsv[j]
            \/ rsv[j].status = "RESERVED" /\ Swept(now)[j] = [rsv[j] EXCEPT !.status = "EXPIRED"]
  BY ExpiredType DEF TypeOK, Swept
<1>4. Upserted(now, 0) = [counter EXCEPT ![p] =
                            [exists |-> TRUE,
                             value  |-> IF counter[p].exists THEN counter[p].value ELSE 0,
                             limit  |-> quota.hardLimit,
                             end    |-> PeriodEnd(quota, now)]]
  BY DEF Upserted
<1>5. \A q \in Periods : Upserted(now, 0)[q].value = counter[q].value
  <2> HIDE DEF p
  <2> QED
    BY <1>2, <1>4, AbsentCounterIsZero DEF TypeOK, Counter, LedgerInv
<1>6. counter' = Upserted(now, 0)
  BY DEF Reserve
<1>7. \/ rsv' = Swept(now)
      \/ rsv' = [Swept(now) EXCEPT ![k] = Admitted(now, n)] /\ ReserveOutcome(k, n, now, 0) = "RESERVED"
  BY DEF Reserve, Swept, Admitted
<1>8. ReserveOutcome(k, n, now, 0) = "RESERVED" =>
        /\ Swept(now)[k].status \notin {"RESERVED", "COMMITTED"}
        /\ ~(quota.enforced /\ Upserted(now, 0)[p].value + Sum(rsv, held) + n > quota.hardLimit)
  BY DEF ReserveOutcome, Swept
<1>9. counter[p].value \in Nat /\ Sum(rsv, held) \in Nat /\ n \in Nat
  <2>1. held \in SUBSET Keys
    BY DEF InPeriod
  <2>2. IsFiniteSet(held)
    BY <2>1, KeysAssumption, FS_Subset
  <2> QED
    BY <1>2, <2>2, UnitsFinite, BoundsAssumption DEF TypeOK, Counter
<1>10. quota.enforced => quota.hardLimit \in Nat
  BY QuotasAssumption, BoundsAssumption DEF TypeOK
<1>11. ReserveOutcome(k, n, now, 0) = "RESERVED" =>
         (quota.enforced => counter[p].value + Sum(rsv, held) + n <= quota.hardLimit)
  <2> HIDE DEF p, held
  <2> QED
    BY <1>2, <1>5, <1>8, <1>9, <1>10
<1> QED
  BY <1>2, <1>3, <1>5, <1>6, <1>7, <1>8, <1>11, Zenon

\* What an admission adds up to, over the rows before it.
LEMMA AdmittedSum ==
    ASSUME TypeOK, LedgerInv, NEW p \in Periods, NEW k \in Keys, NEW n \in 1..MaxAmount,
           NEW s \in [Keys -> Reservation], NEW t,
           \A j \in Keys : s[j].amount = rsv[j].amount,
           InPeriod(s, p, "COMMITTED") = InPeriod(rsv, p, "COMMITTED"),
           s[k].status \notin {"RESERVED", "COMMITTED"},
           \A j \in Keys \ {k} : t[j].amount = s[j].amount,
           t[k].amount = n
    PROVE  Sum(t, (InPeriod(s, p, "COMMITTED") \cup InPeriod(s, p, "RESERVED")) \cup {k})
             = counter[p].value + Sum(rsv, InPeriod(s, p, "RESERVED")) + n
<1> DEFINE C == InPeriod(s, p, "COMMITTED")
           R == InPeriod(s, p, "RESERVED")
<1>1. C \in SUBSET Keys /\ R \in SUBSET Keys /\ C \cap R = {} /\ k \notin C /\ k \notin R
  BY DEF InPeriod
<1>2. IsFiniteSet(C) /\ IsFiniteSet(R) /\ IsFiniteSet(C \cup R)
  <2>1. IsFiniteSet(C) /\ IsFiniteSet(R)
    BY <1>1, KeysAssumption, FS_Subset
  <2> QED
    BY <2>1, FS_Union
<1>3. Sum(rsv, C) = counter[p].value
  BY Zenon DEF LedgerInv, CounterMatchesCommitted
<1>4. \A j \in C \cup R : t[j].amount = rsv[j].amount
  BY <1>1
<1>5. Sum(t, C \cup R) = Sum(rsv, C \cup R)
  BY <1>4, SumCongruence
<1>6. Sum(rsv, C \cup R) = Sum(rsv, C) + Sum(rsv, R)
  BY <1>1, <1>2, SumDisjoint, BoundsAssumption
<1>7. t[k].amount \in 0..MaxAmount /\ MaxAmount \in Nat
  BY BoundsAssumption
<1>8. Sum(t, (C \cup R) \cup {k}) = Sum(t, C \cup R) + t[k].amount
  BY <1>1, <1>2, <1>7, SumAdd
<1>9. Sum(t, (C \cup R) \cup {k}) = counter[p].value + Sum(rsv, R) + n
  BY <1>3, <1>5, <1>6, <1>8
<1> QED
  BY <1>9, Zenon

\* No step overbooks, and steps that do not admit never grow a period's claims.
LEMMA WithinLimitStep ==
    ASSUME TypeOK, LedgerInv, [Next]_vars
    PROVE  GrowsWithinLimit
<1> SUFFICES ASSUME NEW p \in Periods, quota.enforced, Claims(p)' > Claims(p)
             PROVE  Claims(p)' <= quota.hardLimit
  BY DEF GrowsWithinLimit
<1> DEFINE same(j) == rsv'[j].amount = rsv[j].amount /\ rsv'[j].period = rsv[j].period
<1>0. /\ \A K : K \subseteq Keys => Sum(rsv, K) \in Nat /\ Sum(rsv', K) \in Nat
      /\ Claims(p) \in Nat /\ Claims(p)' \in Nat
  <2>1. ASSUME NEW K, K \subseteq Keys PROVE Sum(rsv, K) \in Nat /\ Sum(rsv', K) \in Nat
    <3>1. K \in SUBSET Keys
      BY <2>1
    <3>2. IsFiniteSet(K)
      BY <3>1, KeysAssumption, FS_Subset
    <3> QED
      BY <3>2, UnitsFinite, BoundsAssumption
  <2>2. Claimed(p) \subseteq Keys /\ Claimed(p)' \subseteq Keys
    BY DEF Claimed
  <2> QED
    BY <2>1, <2>2 DEF Claims
<1>1. ASSUME NEW k \in Keys, NEW n \in 1..MaxAmount, NEW now \in FirstInstant..clock,
             Reserve(k, n, now, 0)
      PROVE  Claims(p)' <= quota.hardLimit
  <2> DEFINE q == PeriodStart(quota, now)
             s == Swept(now)
  <2>1. committing = NoKey /\ committing' = NoKey
    BY <1>1 DEF Reserve, LockFree
  <2>2. /\ q \in Periods /\ s \in [Keys -> Reservation]
        /\ \A j \in Keys : \/ s[j] = rsv[j]
                           \/ rsv[j].status = "RESERVED" /\ s[j] = [rsv[j] EXCEPT !.status = "EXPIRED"]
        /\ \/ rsv' = s
           \/ /\ rsv' = [s EXCEPT ![k] = Admitted(now, n)]
              /\ s[k].status \notin {"RESERVED", "COMMITTED"}
              /\ quota.enforced => counter[q].value + Sum(rsv, InPeriod(s, q, "RESERVED")) + n <= quota.hardLimit
    BY <1>1, ReserveCases
  <2>3. Admitted(now, n).status = "RESERVED" /\ Admitted(now, n).amount = n /\ Admitted(now, n).period = q
    BY DEF Admitted
  <2> HIDE DEF q, s
  <2>4. \A j \in Keys : /\ s[j].amount = rsv[j].amount /\ s[j].period = rsv[j].period
                        /\ s[j].status = rsv[j].status \/ (rsv[j].status = "RESERVED" /\ s[j].status = "EXPIRED")
    <3> TAKE j \in Keys
    <3>1. rsv[j] \in Reservation
      BY DEF TypeOK
    <3> QED
      BY <2>2, <3>1 DEF Reservation
  <2>5. CASE rsv' = s \/ p # q
    <3>1. ASSUME NEW j \in Claimed(p)' PROVE j \in Claimed(p) /\ rsv'[j].amount = rsv[j].amount
      <4>1. j \in Keys /\ rsv'[j].period = p /\ rsv'[j].status \in {"RESERVED", "COMMITTED"}
        BY <2>1, <3>1, KeysAssumption DEF Claimed
      <4>2. rsv'[j] = s[j]
        BY <2>2, <2>3, <2>5, <4>1
      <4> QED
        BY <2>4, <4>1, <4>2 DEF Claimed
    <3>2. Claims(p)' <= Claims(p)
      BY <3>1, ClaimsShrink
    <3> QED
      BY <1>0, <3>2
  <2>6. CASE rsv' # s /\ p = q
    <3>1. /\ rsv' = [s EXCEPT ![k] = Admitted(now, n)]
          /\ s[k].status \notin {"RESERVED", "COMMITTED"}
          /\ counter[p].value + Sum(rsv, InPeriod(s, p, "RESERVED")) + n <= quota.hardLimit
      BY <2>2, <2>6
    <3>2. rsv'[k] = Admitted(now, n) /\ \A j \in Keys \ {k} : rsv'[j] = s[j]
      BY <2>2, <3>1
    <3>3. InPeriod(s, p, "COMMITTED") = InPeriod(rsv, p, "COMMITTED")
      BY <2>4 DEF InPeriod
    <3>4. Claimed(p)' = (InPeriod(s, p, "COMMITTED") \cup InPeriod(s, p, "RESERVED")) \cup {k}
      BY <2>1, <2>3, <2>6, <3>2, KeysAssumption DEF Claimed, InPeriod
    <3>5. Sum(rsv', Claimed(p)') = counter[p].value + Sum(rsv, InPeriod(s, p, "RESERVED")) + n
      <4>1. /\ s \in [Keys -> Reservation]
            /\ \A j \in Keys : s[j].amount = rsv[j].amount
            /\ s[k].status \notin {"RESERVED", "COMMITTED"}
            /\ \A j \in Keys \ {k} : rsv'[j].amount = s[j].amount
            /\ rsv'[k].amount = n
        BY <2>2, <2>3, <2>4, <3>1, <3>2
      <4>2. Sum(rsv', (InPeriod(s, p, "COMMITTED") \cup InPeriod(s, p, "RESERVED")) \cup {k})
              = counter[p].value + Sum(rsv, InPeriod(s, p, "RESERVED")) + n
        BY <4>1, <3>3, AdmittedSum
      <4> QED
        BY <4>2, <3>4, Zenon
    <3> QED
      BY <3>1, <3>5 DEF Claims
  <2> QED
    BY <2>5, <2>6
<1>2. ASSUME \A j \in Claimed(p)' : j \in Claimed(p) /\ rsv'[j].amount = rsv[j].amount
      PROVE  Claims(p)' <= quota.hardLimit
  <2>1. Claims(p)' <= Claims(p)
    BY <1>2, ClaimsShrink
  <2> QED
    BY <1>0, <2>1
<1>3. ASSUME NEW k \in Keys, CommitRead(k) PROVE Claims(p)' <= quota.hardLimit
  BY <1>2, <1>3, KeysAssumption DEF CommitRead, LockFree, Claimed
<1>4. ASSUME NEW k \in Keys, Release(k) PROVE Claims(p)' <= quota.hardLimit
  <2>1. committing' = committing
    BY <1>4 DEF Release
  <2> QED
    BY <1>2, <1>4, <2>1, ReleaseLapses DEF Claimed
<1>5. CASE CommitWrite
  <2>1. /\ committing \in Keys /\ committing' = NoKey
        /\ rsv' = [rsv EXCEPT ![committing].status = "COMMITTED"]
    BY <1>5 DEF CommitWrite
  <2>2. \A j \in Keys : same(j) /\ (j # committing => rsv'[j].status = rsv[j].status)
    BY <2>1 DEF TypeOK, Reservation
  <2> QED
    BY <1>2, <2>1, <2>2, KeysAssumption DEF Claimed
<1>6. CASE CommitAbort
  BY <1>2, <1>6, KeysAssumption DEF CommitAbort, Claimed
<1>7. ASSUME NEW w \in Passes, SweepExpired(w) PROVE Claims(p)' <= quota.hardLimit
  <2>1. committing' = committing
    BY <1>7 DEF SweepExpired
  <2> QED
    BY <1>2, <1>7, <2>1, SweepLapses DEF Claimed
<1>8. CASE Elsewhere
  BY <1>2, <1>8, ElsewhereLeavesLedger DEF ledgerVars, Claimed
<1> QED
  BY <1>1, <1>3, <1>4, <1>5, <1>6, <1>7, <1>8, Steps

\* Concurrent reserves cannot overbook a period, whatever commits, releases,
\* expiries, retries and changes of configuration they interleave with.
THEOREM NeverOverLimit == Spec => LimitRespected
<1>1. TypeOK /\ LedgerInv /\ [Next]_vars => LedgerInv' /\ [GrowsWithinLimit]_vars
  BY LedgerInvStep, WithinLimitStep
<1> QED
  BY <1>1, LedgerInvInit, TypeCorrect, PTL DEF Spec, LimitRespected


\* Where every configuration enforces a limit, the largest one bounds usage
\* plus live holds of every period, at every moment.
THEOREM NeverOverbooked == Spec => []NoOverbooking
<1>0. \A p \in Periods, K \in SUBSET Keys :
          /\ IsFiniteSet(K) /\ Sum(rsv, K) \in Nat
          /\ IsFiniteSet(Claimed(p)) /\ Claims(p) \in Nat
  <2>1. \A K \in SUBSET Keys : IsFiniteSet(K)
    BY KeysAssumption, FS_Subset
  <2>2. \A p \in Periods : Claimed(p) \in SUBSET Keys
    BY DEF Claimed
  <2> QED
    BY <2>1, <2>2, UnitsFinite, BoundsAssumption DEF Claims
<1>1. Init => ClaimsBounded
  <2> SUFFICES ASSUME Init, NEW p \in Periods PROVE Claims(p) <= MaxLimit
    BY DEF ClaimsBounded
  <2>1. Claimed(p) = {}
    BY KeysAssumption DEF Init, Claimed
  <2>2. Sum(rsv, {}) = 0
    BY SumEmpty, BoundsAssumption
  <2>3. Claims(p) = 0
    BY <2>1, <2>2, Zenon DEF Claims
  <2> QED
    BY <2>3, BoundsAssumption
<1>2. TypeOK /\ LedgerInv /\ ClaimsBounded /\ [Next]_vars => LedgerInv' /\ ClaimsBounded'
  <2> SUFFICES ASSUME TypeOK, LedgerInv, ClaimsBounded, [Next]_vars
               PROVE  LedgerInv' /\ ClaimsBounded'
    OBVIOUS
  <2>1. GrowsWithinLimit
    BY WithinLimitStep
  <2>2. \A p \in Periods : Claims(p) \in Nat /\ Claims(p)' \in Nat
    <3>1. \A p \in Periods : Claimed(p)' \in SUBSET Keys
      BY DEF Claimed
    <3>2. \A K \in SUBSET Keys : IsFiniteSet(K)
      BY KeysAssumption, FS_Subset
    <3>3. \A p \in Periods : Claims(p)' \in Nat
      BY <3>1, <3>2, UnitsFinite, BoundsAssumption DEF Claims
    <3> QED
      BY <1>0, <3>3
  <2>3. ClaimsBounded'
    <3> SUFFICES ASSUME \A q \in Quotas : q.enforced, NEW p \in Periods
                 PROVE  Claims(p)' <= MaxLimit
      BY DEF ClaimsBounded
    <3>1. quota.enforced /\ quota.hardLimit <= MaxLimit /\ quota.hardLimit \in Nat /\ MaxLimit \in Nat
      BY QuotasAssumption, BoundsAssumption DEF TypeOK
    <3>2. Claims(p) <= MaxLimit
      BY DEF ClaimsBounded
    <3> QED
      BY <2>1, <2>2, <3>1, <3>2 DEF GrowsWithinLimit
  <2> QED
    BY <2>3, LedgerInvStep
<1>3. LedgerInv /\ ClaimsBounded => NoOverbooking
  <2> SUFFICES ASSUME LedgerInv, ClaimsBounded, \A q \in Quotas : q.enforced, NEW p \in Periods
               PROVE  counter[p].value + Sum(rsv, InPeriod(rsv, p, "RESERVED")) <= MaxLimit
    BY DEF NoOverbooking
  <2> DEFINE C == InPeriod(rsv, p, "COMMITTED")
             R == InPeriod(rsv, p, "RESERVED")
  <2>1. C \in SUBSET Keys /\ R \in SUBSET Keys /\ C \cap R = {}
    BY DEF InPeriod
  <2>2. Sum(rsv, C \cup R) = Sum(rsv, C) + Sum(rsv, R)
    BY <1>0, <2>1, SumDisjoint, BoundsAssumption
  <2>3. counter[p].value = Sum(rsv, C)
    BY Zenon DEF LedgerInv, CounterMatchesCommitted
  <2>4. C \cup R \subseteq Claimed(p)
    BY DEF InPeriod, Claimed
  <2>5. Sum(rsv, C \cup R) <= Claims(p)
    BY <1>0, <2>4, SumMonotone, BoundsAssumption DEF Claims
  <2>6. Claims(p) <= MaxLimit
    BY DEF ClaimsBounded
  <2>7. Sum(rsv, C) \in Nat /\ Sum(rsv, R) \in Nat /\ Claims(p) \in Nat /\ MaxLimit \in Nat
    BY <1>0, <2>1, BoundsAssumption
  <2> QED
    BY <2>2, <2>3, <2>5, <2>6, <2>7
<1> QED
  BY <1>1, <1>2, <1>3, LedgerInvInit, TypeCorrect, PTL DEF Spec

----------------------------------------------------------------------------
\* The records: alerts and snapshots of closed periods are true of the counters.

\* Usage is never taken back.
UsageGrows == \A p \in Periods : counter[p].value <= counter'[p].value

\* Only a commit moves a counter, and it adds the amount of its row.
LEMMA UsageOnlyGrows ==
    ASSUME TypeOK, LedgerInv, [Next]_vars
    PROVE  UsageGrows
<1>0. \A p \in Periods : counter[p].value \in Nat
  BY DEF TypeOK, Counter
<1>1. ASSUME NEW k \in Keys, NEW n \in 1..MaxAmount, NEW now \in FirstInstant..clock,
             Reserve(k, n, now, 0)
      PROVE  UsageGrows
  BY <1>0, <1>1, ReserveCases DEF UsageGrows
<1>2. CASE CommitWrite
  <2>1. PICK k \in Keys : k = committing
    BY <1>2 DEF CommitWrite
  <2>2. rsv[k].period \in Periods /\ rsv[k].amount \in Nat
    BY BoundsAssumption DEF TypeOK, Reservation
  <2>3. counter' = [counter EXCEPT ![rsv[k].period].value = counter[rsv[k].period].value + rsv[k].amount]
    BY <1>2, <2>1 DEF CommitWrite
  <2> QED
    BY <1>0, <2>2, <2>3 DEF UsageGrows, TypeOK, Counter
<1>3. CASE counter' = counter
  BY <1>0, <1>3 DEF UsageGrows
<1> QED
  BY <1>1, <1>2, <1>3, Steps, ElsewhereLeavesLedger
     DEF CommitRead, Release, CommitAbort, SweepExpired, ledgerVars

----------------------------------------------------------------------------
\* The alerts a commit raises, and what it leaves the counter at.
LEMMA CommitRaises ==
    ASSUME TypeOK, CommitWrite
    PROVE  \E p \in Periods, usage \in Nat, limit \in Nat \cup {NoLimit} :
              /\ alerts' = alerts \cup NewAlerts(p, usage, limit)
              /\ counter'[p].value = usage
<1>1. PICK k \in Keys : k = committing
  BY DEF CommitWrite
<1>2. rsv[k].period \in Periods /\ rsv[k].amount \in Nat
  BY BoundsAssumption DEF TypeOK, Reservation
<1>3. PICK p \in Periods : p = rsv[k].period
  BY <1>2
<1>4. counter[p].value \in Nat /\ counter[p].limit \in Nat \cup {NoLimit}
  BY DEF TypeOK, Counter
<1>5. PICK usage \in Nat : usage = counter[p].value + rsv[k].amount
  BY <1>2, <1>4
<1>6. PICK limit \in Nat \cup {NoLimit} : limit = counter[p].limit
  BY <1>4
<1>7. /\ alerts' = alerts \cup NewAlerts(p, usage, limit)
      /\ counter' = [counter EXCEPT ![p].value = usage]
  BY <1>1, <1>3, <1>5, <1>6 DEF CommitWrite
<1>8. counter'[p].value = usage
  BY <1>7 DEF TypeOK, Counter
<1> QED
  BY <1>7, <1>8

\* They are sound beside the alerts that are there.
LEMMA CommitAlerts ==
    ASSUME TypeOK, TypeOK', AlertsSound, UsageGrows, CommitWrite
    PROVE  AlertsSound'
<1>1. PICK p \in Periods, usage \in Nat, limit \in Nat \cup {NoLimit} :
          alerts' = alerts \cup NewAlerts(p, usage, limit) /\ counter'[p].value = usage
  BY CommitRaises
<1> DEFINE new(t) == [period |-> p, threshold |-> t, usage |-> usage, limit |-> limit]
           raised(t) == \E b \in alerts : b.period = p /\ b.threshold = t
<1>2. ASSUME NEW a \in alerts
      PROVE  /\ a.period \in Periods /\ a.threshold \in {80, 90} /\ a.usage \in Nat
             /\ a.usage <= counter'[a.period].value
  <2>1. a.period \in Periods /\ a.threshold \in {80, 90} /\ a.usage \in Nat
    BY DEF TypeOK, Alert
  <2>2. a.usage <= counter[a.period].value
    BY DEF AlertsSound
  <2>3. /\ counter[a.period].value \in Nat /\ counter'[a.period].value \in Nat
        /\ counter[a.period].value <= counter'[a.period].value
    BY <2>1 DEF UsageGrows, TypeOK, Counter
  <2> QED
    BY <2>1, <2>2, <2>3
<1>3. \A a \in alerts' \ alerts :
          /\ a = new(80) \/ a = new(90)
          /\ ~raised(a.threshold) /\ limit > 0 /\ usage * 100 >= limit * a.threshold
  BY <1>1 DEF NewAlerts
<1>4. \A t \in {80, 90} :
          ~raised(t) /\ limit > 0 /\ usage * 100 >= limit * t => new(t) \in alerts'
  BY <1>1 DEF NewAlerts
<1>5. alerts \subseteq alerts'
  BY <1>1
<1>6. ASSUME NEW a \in alerts'
      PROVE  a.usage * 100 >= a.limit * a.threshold /\ a.usage <= counter'[a.period].value
  <2>1. CASE a \in alerts
    BY <1>2, <2>1 DEF AlertsSound
  <2>2. CASE a \notin alerts
    <3>1. a = new(80) \/ a = new(90)
      BY <1>3, <2>2
    <3>2. a.period = p /\ a.usage = usage /\ a.limit = limit /\ usage * 100 >= limit * a.threshold
      BY <1>3, <2>2, <3>1
    <3> QED
      BY <1>1, <3>2
  <2> QED
    BY <2>1, <2>2
<1>7. ASSUME NEW a \in alerts', NEW b \in alerts', b.period = a.period, b.threshold = a.threshold
      PROVE  b = a
  <2>1. CASE a \in alerts /\ b \in alerts
    BY <1>7, <2>1 DEF AlertsSound
  <2>2. CASE a \notin alerts /\ b \notin alerts
    BY <1>3, <1>7, <2>2
  <2>3. CASE a \in alerts /\ b \notin alerts
    <3>1. b.period = p /\ ~raised(b.threshold)
      BY <1>3, <2>3
    <3> QED
      BY <1>7, <2>3, <3>1
  <2>4. CASE a \notin alerts /\ b \in alerts
    <3>1. a.period = p /\ ~raised(a.threshold)
      BY <1>3, <2>4
    <3> QED
      BY <1>7, <2>4, <3>1
  <2> QED
    BY <2>1, <2>2, <2>3, <2>4
<1>8. ASSUME NEW a \in alerts', a.threshold = 90
      PROVE  \E b \in alerts' : b.period = a.period /\ b.threshold = 80 /\ b.usage <= a.usage
  <2>1. CASE a \in alerts
    BY <1>5, <1>8, <2>1 DEF AlertsSound
  <2>2. CASE a \notin alerts
    <3>1. a = new(90) /\ limit > 0 /\ usage * 100 >= limit * 90
      BY <1>3, <1>8, <2>2
    <3>2. limit \in Nat /\ usage * 100 >= limit * 80
      BY <3>1 DEF NoLimit
    <3>3. CASE raised(80)
      BY <1>1, <1>2, <1>5, <3>1, <3>3
    <3>4. CASE ~raised(80)
      <4>1. new(80) \in alerts'
        BY <1>4, <3>1, <3>2, <3>4
      <4> QED
        BY <3>1, <4>1
    <3> QED
      BY <3>3, <3>4
  <2> QED
    BY <2>1, <2>2
<1> QED
  BY <1>6, <1>7, <1>8 DEF AlertsSound

\* Nothing but a commit raises an alert, and old alerts stay true.
LEMMA AlertsStep ==
    ASSUME TypeOK, TypeOK', LedgerInv, AlertsSound, [Next]_vars
    PROVE  AlertsSound'
<1>1. UsageGrows
  BY UsageOnlyGrows
<1>2. CASE CommitWrite
  BY <1>1, <1>2, CommitAlerts
<1>3. CASE alerts' = alerts
  <2>1. ASSUME NEW a \in alerts PROVE a.usage <= counter'[a.period].value
    <3>1. a.period \in Periods /\ a.usage \in Nat /\ a.usage <= counter[a.period].value
      BY DEF TypeOK, Alert, AlertsSound
    <3>2. /\ counter[a.period].value \in Nat /\ counter'[a.period].value \in Nat
          /\ counter[a.period].value <= counter'[a.period].value
      BY <1>1, <3>1 DEF UsageGrows, TypeOK, Counter
    <3> QED
      BY <3>1, <3>2
  <2> QED
    BY <1>3, <2>1 DEF AlertsSound
<1> QED
  BY <1>2, <1>3, Steps, ElsewhereLeavesLedger
     DEF Reserve, CommitRead, Release, CommitAbort, SweepExpired, ledgerVars

\* Every period is alerted once per threshold, at a usage it really reached, in
\* the order of the thresholds.
THEOREM AlertsAreSound == Spec => []AlertsSound
<1>1. Init => AlertsSound
  BY DEF Init, AlertsSound
<1>2. TypeOK /\ TypeOK' /\ LedgerInv /\ AlertsSound /\ [Next]_vars => LedgerInv' /\ AlertsSound'
  BY LedgerInvStep, AlertsStep
<1> QED
  BY <1>1, <1>2, LedgerInvInit, TypeCorrect, PTL DEF Spec

----------------------------------------------------------------------------
\* What makes SnapshotsSound inductive: what a pass has read, its counter has
\* reached.
ReadIsReached == \A w \in Passes : \A r \in pass[w].rows : r.usage <= counter[r.period].value

\* A pass writes what it has read, once per period.
LEMMA SnapshotsStep ==
    ASSUME TypeOK, TypeOK', LedgerInv, SnapshotsSound, ReadIsReached, [Next]_vars
    PROVE  SnapshotsSound' /\ ReadIsReached'
<1>1. \A p \in Periods : /\ counter[p].value \in Nat /\ counter'[p].value \in Nat
                         /\ counter[p].value <= counter'[p].value
  BY UsageOnlyGrows DEF UsageGrows, TypeOK, Counter
<1>2. ASSUME NEW s \in snapshots PROVE s.usage <= counter'[s.period].value
  <2>1. s.period \in Periods /\ s.usage \in Nat /\ s.usage <= counter[s.period].value
    BY DEF TypeOK, Snapshot, SnapshotsSound
  <2> QED
    BY <1>1, <2>1
<1>3. ASSUME NEW w \in Passes, NEW r \in pass[w].rows
      PROVE  r.period \in Periods /\ r.usage <= counter'[r.period].value
  <2>1. r.period \in Periods /\ r.usage \in Nat
    BY DEF TypeOK, Pass, ClosedRow
  <2>2. r.usage <= counter[r.period].value
    BY DEF ReadIsReached
  <2> QED
    BY <1>1, <2>1, <2>2
<1>4. ASSUME snapshots' = snapshots PROVE SnapshotsSound'
  BY <1>2, <1>4 DEF SnapshotsSound
<1>5. ASSUME \A w \in Passes : pass'[w].rows \subseteq pass[w].rows PROVE ReadIsReached'
  BY <1>3, <1>5 DEF ReadIsReached
<1>6. ASSUME NEW w \in Passes, LoadClosed(w) PROVE SnapshotsSound' /\ ReadIsReached'
  <2>1. counter' = counter /\ snapshots' = snapshots
    BY <1>6 DEF LoadClosed, ledgerVars
  <2>2. pass' = [pass EXCEPT ![w] =
                   [pass[w] EXCEPT !.at = "writing", !.ids = {},
                                   !.rows = {[period |-> p, usage |-> counter[p].value,
                                              limit |-> counter[p].limit] : p \in pass[w].ids}]]
    BY <1>6 DEF LoadClosed
  <2>3. pass'[w].rows = {[period |-> p, usage |-> counter[p].value,
                          limit |-> counter[p].limit] : p \in pass[w].ids}
    BY <2>2 DEF TypeOK, Pass
  <2>4. pass[w].ids \subseteq Periods
    BY DEF TypeOK, Pass
  <2>5. \A r \in pass'[w].rows : r.usage <= counter'[r.period].value
    BY <1>1, <2>1, <2>3, <2>4
  <2>6. \A v \in Passes \ {w} : pass'[v] = pass[v]
    BY <2>2 DEF TypeOK
  <2> QED
    BY <1>3, <1>4, <2>1, <2>5, <2>6 DEF ReadIsReached
<1>7. ASSUME NEW w \in Passes, NEW r \in pass[w].rows, WriteSnapshot(w, r)
      PROVE  SnapshotsSound' /\ ReadIsReached'
  <2> DEFINE new == [period |-> r.period, usage |-> r.usage,
                     exceeded |-> r.limit # NoLimit /\ r.usage > r.limit]
  <2>1. /\ pass' = [pass EXCEPT ![w] = Idle]
           \/ pass' = [pass EXCEPT ![w] = [pass[w] EXCEPT !.rows = pass[w].rows \ {r}]]
        /\ snapshots' = IF Snapshotted(r.period) THEN snapshots ELSE snapshots \cup {new}
    BY <1>7 DEF WriteSnapshot
  <2>2. \A v \in Passes : pass'[v].rows \subseteq pass[v].rows
    BY <2>1 DEF TypeOK, Pass, Idle
  <2>3. new.period = r.period /\ new.usage = r.usage
    OBVIOUS
  <2> HIDE DEF new
  <2>4. CASE Snapshotted(r.period)
    BY <1>4, <1>5, <2>1, <2>2, <2>4
  <2>5. CASE ~Snapshotted(r.period)
    <3>1. snapshots' = snapshots \cup {new}
      BY <2>1, <2>5
    <3>2. \A s \in snapshots : s.period # r.period
      BY <2>5 DEF Snapshotted
    <3>3. \A s \in snapshots' : s.usage <= counter'[s.period].value
      BY <1>2, <1>3, <2>3, <3>1
    <3>4. \A s \in snapshots', t \in snapshots' : t.period = s.period => t = s
      BY <2>3, <3>1, <3>2 DEF SnapshotsSound
    <3> QED
      BY <1>5, <2>2, <3>3, <3>4 DEF SnapshotsSound
  <2> QED
    BY <2>4, <2>5
<1>8. ASSUME NEW w \in Passes, SweepExpired(w) \/ SelectClosed(w) \/ PassDies(w)
      PROVE  SnapshotsSound' /\ ReadIsReached'
  <2>1. snapshots' = snapshots
    BY <1>8 DEF SweepExpired, SelectClosed, PassDies
  <2>2. PICK next : pass' = [pass EXCEPT ![w] = next] /\ next.rows \subseteq pass[w].rows
    <3>1. CASE SelectClosed(w)
      <4>1. PICK ids : pass' = [pass EXCEPT ![w] = IF ids = {} THEN Idle
                                  ELSE [pass[w] EXCEPT !.at = "selected", !.ids = ids]]
        BY <3>1 DEF SelectClosed
      <4>2. Idle.rows \subseteq pass[w].rows
        BY DEF Idle
      <4>3. [pass[w] EXCEPT !.at = "selected", !.ids = ids].rows = pass[w].rows
        BY DEF TypeOK, Pass
      <4> QED
        BY <4>1, <4>2, <4>3
    <3>2. CASE PassDies(w)
      <4>1. pass' = [pass EXCEPT ![w] = Idle]
        BY <3>2 DEF PassDies
      <4>2. Idle.rows \subseteq pass[w].rows
        BY DEF Idle
      <4> QED
        BY <4>1, <4>2
    <3>3. CASE SweepExpired(w)
      <4>1. pass' = [pass EXCEPT ![w] = [Idle EXCEPT !.at = "swept", !.now = clock]]
        BY <3>3 DEF SweepExpired
      <4>2. [Idle EXCEPT !.at = "swept", !.now = clock].rows = {}
        BY DEF Idle
      <4> QED
        BY <4>1, <4>2
    <3> QED
      BY <1>8, <3>1, <3>2, <3>3
  <2>3. \A v \in Passes : pass'[v].rows \subseteq pass[v].rows
    BY <2>2 DEF TypeOK
  <2> QED
    BY <1>4, <1>5, <2>1, <2>3
<1>9. CASE UNCHANGED schedulerVars
  BY <1>4, <1>5, <1>9 DEF schedulerVars
<1> QED
  BY <1>6, <1>7, <1>8, <1>9, Steps
     DEF Elsewhere, Reserve, CommitRead, Release, CommitWrite, CommitAbort, ChangeQuota, Tick,
         vars, schedulerVars

\* Overlapping, killed and restarted passes leave one snapshot per period, of a
\* usage the counter did reach.
THEOREM SnapshotsAreSound == Spec => []SnapshotsSound
<1>1. Init => SnapshotsSound /\ ReadIsReached
  BY DEF Init, Idle, SnapshotsSound, ReadIsReached
<1>2. TypeOK /\ TypeOK' /\ LedgerInv /\ SnapshotsSound /\ ReadIsReached /\ [Next]_vars
        => LedgerInv' /\ SnapshotsSound' /\ ReadIsReached'
  BY LedgerInvStep, SnapshotsStep
<1> QED
  BY <1>1, <1>2, LedgerInvInit, TypeCorrect, PTL DEF Spec

----------------------------------------------------------------------------
\* The promise: every step is, through the mapping of KeepsPromise, a step of
\* QuotaPromise.

\* What the refinement mapping gives the abstract variables.
NoShare == [state |-> "none", period |-> 0, amount |-> 0]
ShareOf(st, r) == [state |-> st, period |-> r.period, amount |-> r.amount]
Usages == [p \in Periods |-> counter[p].value]
ShareMap ==
    [k \in Keys |->
        IF rsv[k].status = "COMMITTED" THEN ShareOf("used", rsv[k])
        ELSE IF rsv[k].status = "RESERVED" \/ committing = k THEN ShareOf("held", rsv[k])
        ELSE NoShare]
Lapsed(D) == [k \in Keys |-> IF k \in D THEN NoShare ELSE ShareMap[k]]
Sharing(s, p) == {k \in Keys : s[k].state # "none" /\ s[k].period = p}
HeldKeys == {k \in Keys : ShareMap[k].state = "held"}

----------------------------------------------------------------------------
\* The promise over the ledger's own variables: no usage and no share at first.
LEMMA PromiseInit ==
    ASSUME quota \in Quotas, Usages = [p \in Periods |-> 0], ShareMap = [k \in Keys |-> NoShare]
    PROVE  Promise!Init
  BY DEF Promise!Init, Promise!None, Usages, ShareMap, ShareOf, NoShare

\* A key is given a share, and the holds in D lapse at the same moment
\* (what reserve() does under its lock).
LEMMA PromiseAdmit ==
    ASSUME NEW k \in Keys, NEW p \in Periods, NEW n \in 1..MaxAmount, NEW D \in SUBSET Keys,
           D \subseteq HeldKeys,
           Lapsed(D)[k] = NoShare,
           quota.enforced => Sum(Lapsed(D), Sharing(Lapsed(D), p)) + n <= quota.hardLimit,
           ShareMap' = [Lapsed(D) EXCEPT ![k] = [state |-> "held", period |-> p, amount |-> n]],
           Usages' = Usages, quota' = quota
    PROVE  Promise!Next
<1>1. Promise!Without(D) = Lapsed(D)
  BY DEF Promise!Without, Promise!None, Lapsed, ShareMap, ShareOf, NoShare
<1>2. Promise!Held = HeldKeys
  BY DEF Promise!Held, HeldKeys, ShareMap, ShareOf, NoShare
<1>3. Promise!Sum(Lapsed(D), Promise!Shares(Lapsed(D), p)) = Sum(Lapsed(D), Sharing(Lapsed(D), p))
  <2>1. Promise!Shares(Lapsed(D), p) = Sharing(Lapsed(D), p)
    BY DEF Promise!Shares, Sharing
  <2>2. Promise!Units(Lapsed(D), Sharing(Lapsed(D), p)) = Units(Lapsed(D), Sharing(Lapsed(D), p))
    BY DEF Promise!Units, Units
  <2>3. \A S : Promise!Cardinality(S) = Cardinality(S)
    BY DEF Promise!Cardinality, Cardinality
  <2> QED
    BY <2>1, <2>2, <2>3, Zenon DEF Promise!Sum, Sum
<1>4. Promise!Admit(k, p, n, D)
  <2>1. quota.enforced => Promise!Sum(Promise!Without(D), Promise!Shares(Promise!Without(D), p)) + n
                            <= quota.hardLimit
    BY <1>1, <1>3, Zenon
  <2>2. Promise!Without(D)[k] = Promise!None
    BY <1>1, Zenon DEF Promise!None, NoShare
  <2> QED
    BY <1>1, <1>2, <2>1, <2>2
       DEF Promise!Admit, Promise!Share, Usages, ShareMap, ShareOf, NoShare
<1> QED
  BY <1>4 DEF Promise!Next

\* Holds that are released, expire or are given up by a rolled back commit; no
\* hold at all is the step that changes nothing.
LEMMA PromiseGiveBack ==
    ASSUME \A j \in Keys : \/ ShareMap'[j] = ShareMap[j]
                           \/ ShareMap[j].state = "held" /\ ShareMap'[j] = NoShare,
           Usages' = Usages, quota' = quota
    PROVE  Promise!Next
<1>1. PICK D \in SUBSET Keys :
          D = {j \in Keys : ShareMap[j].state = "held" /\ ShareMap'[j] = NoShare}
  OBVIOUS
<1>2. ShareMap' = Lapsed(D)
  <2>1. ShareMap' = [j \in Keys |-> ShareMap'[j]]
    BY DEF ShareMap
  <2>2. \A j \in Keys : ShareMap'[j] = IF j \in D THEN NoShare ELSE ShareMap[j]
    BY <1>1
  <2> QED
    BY <2>1, <2>2 DEF Lapsed
<1>3. Promise!GiveBack(D)
  <2>1. Promise!Without(D) = Lapsed(D)
    BY DEF Promise!Without, Promise!None, Lapsed, ShareMap, ShareOf, NoShare
  <2>2. Promise!Held = HeldKeys
    BY DEF Promise!Held, HeldKeys, ShareMap, ShareOf, NoShare
  <2>3. D \subseteq HeldKeys
    BY <1>1 DEF HeldKeys
  <2> QED
    BY <1>2, <2>1, <2>2, <2>3 DEF Promise!GiveBack, Usages, ShareMap, ShareOf, NoShare
<1> QED
  BY <1>3 DEF Promise!Next

\* A held share becomes usage of its period (the writes of a commit).
LEMMA PromiseUse ==
    ASSUME NEW k \in HeldKeys,
           ShareMap' = [ShareMap EXCEPT ![k].state = "used"],
           Usages' = [Usages EXCEPT ![ShareMap[k].period] = @ + ShareMap[k].amount],
           quota' = quota
    PROVE  Promise!Next
<1>1. Promise!Held = HeldKeys
  BY DEF Promise!Held, HeldKeys, ShareMap, ShareOf, NoShare
<1>2. Promise!Use(k)
  BY <1>1 DEF Promise!Use, Usages, ShareMap, ShareOf, NoShare
<1> QED
  BY <1>2 DEF Promise!Next, HeldKeys

\* A step that changes at most the configuration in force.
LEMMA PromiseConfigure ==
    ASSUME quota' \in Quotas, Usages' = Usages, ShareMap' = ShareMap
    PROVE  Promise!Next
  BY DEF Promise!Next, Promise!Configure, Usages, ShareMap, ShareOf, NoShare

----------------------------------------------------------------------------
\* reserve() is an admission together with the holds that lapse in it, or only
\* the lapse.
LEMMA ReservePromises ==
    ASSUME TypeOK, LedgerInv, NEW k \in Keys, NEW n \in 1..MaxAmount,
           NEW now \in FirstInstant..clock, Reserve(k, n, now, 0)
    PROVE  Promise!Next
<1>1. PICK p \in Periods, s \in [Keys -> Reservation] :
          /\ \A j \in Keys :
                \/ s[j] = rsv[j]
                \/ rsv[j].status = "RESERVED" /\ s[j] = [rsv[j] EXCEPT !.status = "EXPIRED"]
          /\ \A q \in Periods : counter'[q].value = counter[q].value
          /\ \/ rsv' = s
             \/ /\ rsv' = [s EXCEPT ![k] = [status |-> "RESERVED", period |-> p, amount |-> n,
                                            expiresAt |-> now + TTL]]
                /\ s[k].status \notin {"RESERVED", "COMMITTED"}
                /\ quota.enforced =>
                     counter[p].value + Sum(rsv, InPeriod(s, p, "RESERVED")) + n <= quota.hardLimit
  BY ReserveCases DEF Admitted
<1>2. committing = NoKey /\ committing' = NoKey /\ quota' = quota /\ \A j \in Keys : j # NoKey
  BY KeysAssumption DEF Reserve, LockFree
<1>3. Usages' = Usages
  BY <1>1 DEF Usages
<1>4. \A j \in Keys : /\ rsv[j] \in Reservation /\ s[j] \in Reservation
                      /\ s[j].amount = rsv[j].amount /\ s[j].period = rsv[j].period
                      /\ \/ s[j].status = rsv[j].status
                         \/ rsv[j].status = "RESERVED" /\ s[j].status = "EXPIRED"
  <2> TAKE j \in Keys
  <2>1. rsv[j] \in Reservation
    BY DEF TypeOK
  <2> QED
    BY <1>1, <2>1 DEF Reservation
<1>5. PICK D \in SUBSET Keys : D = {j \in Keys : rsv[j].status = "RESERVED" /\ s[j].status = "EXPIRED"}
  OBVIOUS
<1>6. D \subseteq HeldKeys
  BY <1>5 DEF HeldKeys, ShareMap, ShareOf
<1>7. \A j \in Keys : Lapsed(D)[j] = IF s[j].status = "COMMITTED" THEN ShareOf("used", s[j])
                                    ELSE IF s[j].status = "RESERVED" THEN ShareOf("held", s[j])
                                    ELSE NoShare
  BY <1>2, <1>4, <1>5 DEF Lapsed, ShareMap, ShareOf
<1>8. CASE rsv' = s
  <2>1. \A j \in Keys : ShareMap'[j] = Lapsed(D)[j]
    BY <1>2, <1>7, <1>8 DEF ShareMap
  <2>2. \A j \in Keys : \/ ShareMap'[j] = ShareMap[j]
                        \/ ShareMap[j].state = "held" /\ ShareMap'[j] = NoShare
    BY <1>6, <2>1 DEF Lapsed, HeldKeys
  <2> QED
    BY <1>2, <1>3, <2>2, PromiseGiveBack
<1>9. CASE rsv' # s
  <2>1. /\ rsv' = [s EXCEPT ![k] = [status |-> "RESERVED", period |-> p, amount |-> n,
                                    expiresAt |-> now + TTL]]
        /\ s[k].status \notin {"RESERVED", "COMMITTED"}
        /\ quota.enforced =>
             counter[p].value + Sum(rsv, InPeriod(s, p, "RESERVED")) + n <= quota.hardLimit
    BY <1>1, <1>9
  <2>2. Lapsed(D)[k] = NoShare
    BY <1>7, <2>1
  <2>3. ShareMap' = [Lapsed(D) EXCEPT ![k] = [state |-> "held", period |-> p, amount |-> n]]
    <3>1. \A j \in Keys : ShareMap'[j] = IF j = k THEN [state |-> "held", period |-> p, amount |-> n]
                                         ELSE Lapsed(D)[j]
      <4> TAKE j \in Keys
      <4>1. CASE j = k
        BY <1>2, <2>1, <4>1 DEF ShareMap, ShareOf
      <4>2. CASE j # k
        <5>1. rsv'[j] = s[j]
          BY <2>1, <4>2
        <5> QED
          BY <1>2, <1>7, <4>2, <5>1 DEF ShareMap
      <4> QED
        BY <4>1, <4>2
    <3>2. ShareMap' = [j \in Keys |-> ShareMap'[j]]
      BY DEF ShareMap
    <3>3. Lapsed(D) = [j \in Keys |-> Lapsed(D)[j]]
      BY DEF Lapsed
    <3> QED
      BY <3>1, <3>2, <3>3
  <2>4. ASSUME quota.enforced
        PROVE  Sum(Lapsed(D), Sharing(Lapsed(D), p)) + n <= quota.hardLimit
    <3> DEFINE C == InPeriod(s, p, "COMMITTED")
               R == InPeriod(s, p, "RESERVED")
    <3>0. ASSUME NEW j \in Keys
          PROVE  /\ Lapsed(D)[j].state # "none" <=> s[j].status \in {"COMMITTED", "RESERVED"}
                 /\ s[j].status \in {"COMMITTED", "RESERVED"} =>
                      Lapsed(D)[j].period = s[j].period /\ Lapsed(D)[j].amount = rsv[j].amount
      <4>1. CASE s[j].status = "COMMITTED"
        <5>1. Lapsed(D)[j] = [state |-> "used", period |-> s[j].period, amount |-> s[j].amount]
          BY <1>7, <4>1, Zenon DEF ShareOf
        <5>2. s[j].amount = rsv[j].amount
          BY <1>4
        <5> HIDE DEF C, R
        <5> QED
          BY <4>1, <5>1, <5>2
      <4>2. CASE s[j].status = "RESERVED"
        <5>1. Lapsed(D)[j] = [state |-> "held", period |-> s[j].period, amount |-> s[j].amount]
          BY <1>7, <4>2, Zenon DEF ShareOf
        <5>2. s[j].amount = rsv[j].amount
          BY <1>4
        <5> HIDE DEF C, R
        <5> QED
          BY <4>2, <5>1, <5>2
      <4>3. CASE s[j].status \notin {"COMMITTED", "RESERVED"}
        BY <1>7, <4>3 DEF NoShare
      <4> QED
        BY <4>1, <4>2, <4>3
    <3>1. Sharing(Lapsed(D), p) = C \cup R
      BY <3>0 DEF Sharing, InPeriod
    <3>2. C \in SUBSET Keys /\ R \in SUBSET Keys /\ C \cap R = {}
      BY DEF InPeriod
    <3>3. IsFiniteSet(C) /\ IsFiniteSet(R)
      BY <3>2, KeysAssumption, FS_Subset
    <3>4. \A j \in C \cup R : Lapsed(D)[j].amount = rsv[j].amount
      BY <3>0 DEF InPeriod
    <3>5. Sum(Lapsed(D), C \cup R) = Sum(rsv, C \cup R)
      BY <3>4, SumCongruence
    <3>6. Sum(rsv, C \cup R) = Sum(rsv, C) + Sum(rsv, R)
      BY <3>2, <3>3, SumDisjoint, BoundsAssumption
    <3>7. C = InPeriod(rsv, p, "COMMITTED")
      BY <1>4 DEF InPeriod
    <3>8. Sum(rsv, C) = counter[p].value
      BY <3>7, Zenon DEF LedgerInv, CounterMatchesCommitted
    <3>9. counter[p].value + Sum(rsv, R) + n <= quota.hardLimit
      BY <2>1, <2>4
    <3>10. Sum(Lapsed(D), Sharing(Lapsed(D), p)) = Sum(Lapsed(D), C \cup R)
      BY <3>1, Zenon
    <3> QED
      BY <3>5, <3>6, <3>8, <3>9, <3>10
  <2> QED
    BY <1>2, <1>3, <1>6, <2>2, <2>3, <2>4, PromiseAdmit
<1> QED
  BY <1>8, <1>9

\* The write of a commit uses what its key still holds, also where the row has
\* been released or swept since it was read.
LEMMA CommitPromises ==
    ASSUME TypeOK, LedgerInv, CommitWrite
    PROVE  Promise!Next
<1>1. PICK k \in Keys : k = committing
  BY DEF CommitWrite
<1>2. /\ rsv[k] \in Reservation /\ rsv[k].status # "COMMITTED"
      /\ committing' = NoKey /\ quota' = quota /\ \A j \in Keys : j # NoKey
  BY <1>1, KeysAssumption DEF CommitWrite, TypeOK, LedgerInv, CommittingIsPending
<1>3. /\ rsv' = [rsv EXCEPT ![k].status = "COMMITTED"]
      /\ counter' = [counter EXCEPT ![rsv[k].period].value = counter[rsv[k].period].value + rsv[k].amount]
  BY <1>1 DEF CommitWrite
<1>4. k \in HeldKeys /\ ShareMap[k] = ShareOf("held", rsv[k])
  BY <1>1, <1>2 DEF HeldKeys, ShareMap, ShareOf
<1>5. ShareMap' = [ShareMap EXCEPT ![k].state = "used"]
  <2>1. \A j \in Keys : ShareMap'[j] = IF j = k THEN ShareOf("used", rsv[k]) ELSE ShareMap[j]
    <3> TAKE j \in Keys
    <3>1. CASE j = k
      <4>1. rsv'[k] = [rsv[k] EXCEPT !.status = "COMMITTED"]
        BY <1>3 DEF TypeOK
      <4>2. rsv'[k].status = "COMMITTED" /\ rsv'[k].period = rsv[k].period /\ rsv'[k].amount = rsv[k].amount
        BY <1>2, <4>1 DEF Reservation
      <4> QED
        BY <3>1, <4>2 DEF ShareMap, ShareOf
    <3>2. CASE j # k
      <4>1. rsv'[j] = rsv[j]
        BY <1>3, <3>2 DEF TypeOK
      <4> QED
        BY <1>1, <1>2, <3>2, <4>1 DEF ShareMap, ShareOf
    <3> QED
      BY <3>1, <3>2
  <2>2. ShareMap' = [j \in Keys |-> ShareMap'[j]]
    BY DEF ShareMap
  <2>3. [ShareMap[k] EXCEPT !.state = "used"] = ShareOf("used", rsv[k])
    BY <1>4 DEF ShareOf
  <2>4. [ShareMap EXCEPT ![k].state = "used"]
          = [j \in Keys |-> IF j = k THEN [ShareMap[k] EXCEPT !.state = "used"] ELSE ShareMap[j]]
    BY <1>1 DEF ShareMap
  <2> QED
    BY <2>1, <2>2, <2>3, <2>4
<1>6. Usages' = [Usages EXCEPT ![ShareMap[k].period] = @ + ShareMap[k].amount]
  <2>1. ShareMap[k].period = rsv[k].period /\ ShareMap[k].amount = rsv[k].amount
    BY <1>4 DEF ShareOf
  <2>2. rsv[k].period \in Periods
    BY <1>2 DEF Reservation
  <2> QED
    BY <1>3, <2>1, <2>2 DEF Usages, TypeOK, Counter
<1> QED
  BY <1>2, <1>4, <1>5, <1>6, PromiseUse

\* Releases, sweeps and aborted commits give back what they let go.
LEMMA LapsePromises ==
    ASSUME TypeOK, LedgerInv, quota' = quota, counter' = counter,
           committing' \in {committing, NoKey},
           \A j \in Keys : \/ rsv'[j] = rsv[j]
                           \/ /\ rsv[j].status = "RESERVED"
                              /\ rsv'[j].status \in {"RELEASED", "EXPIRED"}
                              /\ rsv'[j].period = rsv[j].period
                              /\ rsv'[j].amount = rsv[j].amount
    PROVE  Promise!Next
<1>1. ASSUME NEW j \in Keys
      PROVE  \/ ShareMap'[j] = ShareMap[j]
             \/ ShareMap[j].state = "held" /\ ShareMap'[j] = NoShare
  <2>1. j # NoKey
    BY KeysAssumption
  <2>2. CASE rsv'[j] = rsv[j]
    BY <2>1, <2>2 DEF ShareMap, ShareOf
  <2>3. CASE rsv'[j] # rsv[j]
    BY <2>1, <2>3 DEF ShareMap, ShareOf
  <2> QED
    BY <2>2, <2>3
<1>2. Usages' = Usages
  BY DEF Usages
<1> QED
  BY <1>1, <1>2, PromiseGiveBack

\* The ledger is an implementation of the promise: whatever statements, locks
\* and passes interleave, each step admits within the limit, uses or gives back.
THEOREM LedgerKeepsPromise == Spec => KeepsPromise
<1>1. Init => Promise!Init
  <2> SUFFICES ASSUME Init PROVE Promise!Init
    OBVIOUS
  <2>1. quota \in Quotas /\ Usages = [p \in Periods |-> 0]
    BY DEF Init, Usages
  <2>2. ShareMap = [k \in Keys |-> NoShare]
    BY KeysAssumption DEF Init, ShareMap
  <2> QED
    BY <2>1, <2>2, PromiseInit
<1>2. TypeOK /\ LedgerInv /\ [Next]_vars => LedgerInv' /\ Promise!Next
  <2> SUFFICES ASSUME TypeOK, LedgerInv, [Next]_vars PROVE Promise!Next
    BY LedgerInvStep
  <2>1. ASSUME NEW k \in Keys, NEW n \in 1..MaxAmount, NEW now \in FirstInstant..clock,
               Reserve(k, n, now, 0)
        PROVE  Promise!Next
    BY <2>1, ReservePromises
  <2>2. ASSUME NEW k \in Keys, CommitRead(k) PROVE Promise!Next
    <3>1. ShareMap' = ShareMap
      BY <2>2, KeysAssumption DEF CommitRead, LockFree, ShareMap, ShareOf
    <3>2. quota' \in Quotas /\ Usages' = Usages
      BY <2>2 DEF CommitRead, TypeOK, Usages
    <3> QED
      BY <3>1, <3>2, PromiseConfigure
  <2>3. ASSUME NEW k \in Keys, Release(k) PROVE Promise!Next
    BY <2>3, ReleaseLapses, LapsePromises DEF Release
  <2>4. CASE CommitWrite
    BY <2>4, CommitPromises
  <2>5. CASE CommitAbort
    BY <2>5, LapsePromises DEF CommitAbort
  <2>6. ASSUME NEW w \in Passes, SweepExpired(w) PROVE Promise!Next
    BY <2>6, SweepLapses, LapsePromises DEF SweepExpired
  <2>7. CASE Elsewhere
    <3>1. quota' \in Quotas
      BY <2>7 DEF TypeOK, Elsewhere, SelectClosed, LoadClosed, PassDies, WriteSnapshot, ChangeQuota,
                  Tick, vars
    <3>2. Usages' = Usages /\ ShareMap' = ShareMap
      BY <2>7, ElsewhereLeavesLedger DEF ledgerVars, Usages, ShareMap, ShareOf
    <3> QED
      BY <3>1, <3>2, PromiseConfigure
  <2> QED
    BY <2>1, <2>2, <2>3, <2>4, <2>5, <2>6, <2>7, Steps
<1> QED
  BY <1>1, <1>2, LedgerInvInit, TypeCorrect, PTL DEF Spec, KeepsPromise, Promise!Spec

============================================================================
