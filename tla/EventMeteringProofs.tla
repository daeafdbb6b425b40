------------------------ MODULE EventMeteringProofs ------------------------
(***************************************************************************)
(* API metering is a client of the ledger, for any number of calls, and    *)
(* counts only what it has recorded.                                       *)
(***************************************************************************)
EXTENDS EventMetering, QuotaLedgerProofs

\* A call's `now` is never ahead of the clock: it was taken when it arrived.
ArrivedBefore ==
    /\ clock \in Instants
    /\ at \in [Calls -> Instants]
    /\ \A c \in Calls : at[c] <= clock

\* The actions, once, and what each does to the ledger.
LEMMA MeterSteps ==
    ASSUME ArrivedBefore, [MeterNext]_meterVars
    PROVE  /\ \/ \E c \in Calls : Arrive(c)
              \/ \E c \in Calls : ReserveUnit(c)
              \/ \E c \in Calls : RecordEvent(c)
              \/ \E c \in Calls : CommitUnit(c)
              \/ \E c \in Calls : WriteUnit(c)
              \/ \E c \in Calls : ReleaseUnit(c)
              \/ \E c \in Calls : Die(c)
              \/ (Scheduler \/ Environment) /\ UNCHANGED callVars
              \/ UNCHANGED meterVars
           /\ [Next]_vars
<1>1. \A c \in Calls : KeyOf[c] \in Keys
  BY CallsAssumption
<1>2. \A c \in Calls : at[c] \in FirstInstant..clock
  BY BoundsAssumption DEF ArrivedBefore, Instants
<1>3. 1 \in 1..MaxAmount
  BY BoundsAssumption
<1>4. ASSUME NEW c \in Calls, Arrive(c) PROVE [Next]_vars
  BY <1>4 DEF Arrive
<1>5. ASSUME NEW c \in Calls, ReserveUnit(c) PROVE [Next]_vars
  <2>1. Reserve(KeyOf[c], 1, at[c], 0)
    BY <1>5 DEF ReserveUnit
  <2>2. PICK k \in Keys, now \in FirstInstant..clock : k = KeyOf[c] /\ now = at[c]
    BY <1>1, <1>2
  <2>3. Reserve(k, 1, now, 0)
    BY <2>1, <2>2 DEF Reserve, ReserveOutcome
  <2> QED
    BY <1>3, <2>3 DEF Next
<1>6. ASSUME NEW c \in Calls, RecordEvent(c) PROVE [Next]_vars
  BY <1>6 DEF RecordEvent
<1>7. ASSUME NEW c \in Calls, CommitUnit(c) PROVE [Next]_vars
  <2>1. CASE CommitRead(KeyOf[c])
    BY <1>1, <2>1 DEF Next
  <2>2. CASE UNCHANGED vars
    BY <2>2
  <2> QED
    BY <1>7, <2>1, <2>2 DEF CommitUnit
<1>8. ASSUME NEW c \in Calls, WriteUnit(c) PROVE [Next]_vars
  BY <1>8 DEF WriteUnit, Next
<1>9. ASSUME NEW c \in Calls, ReleaseUnit(c) PROVE [Next]_vars
  BY <1>1, <1>9 DEF ReleaseUnit, Next
<1>10. ASSUME NEW c \in Calls, Die(c) PROVE [Next]_vars
  BY <1>10 DEF Die, Next
<1>11. CASE (Scheduler \/ Environment) /\ UNCHANGED callVars
  BY <1>11 DEF Next
<1>12. CASE UNCHANGED meterVars
  BY <1>12 DEF meterVars
<1> QED
  BY <1>4, <1>5, <1>6, <1>7, <1>8, <1>9, <1>10, <1>11, <1>12 DEF MeterNext, Call

\* Time only moves on, and only an arriving call reads it.
LEMMA ArrivedStep ==
    ASSUME ArrivedBefore, [MeterNext]_meterVars
    PROVE  ArrivedBefore'
<1>1. clock' = clock \/ (clock < MaxClock /\ clock' = clock + 1)
  BY MeterSteps DEF Next, Reserve, CommitRead, Release, CommitWrite, CommitAbort, Scheduler,
     SweepExpired, SelectClosed, LoadClosed, WriteSnapshot, PassDies, Environment, ChangeQuota,
     Tick, vars
<1>2. \/ \E c \in Calls : at' = [at EXCEPT ![c] = clock]
      \/ at' = at
  BY MeterSteps DEF Arrive, ReserveUnit, RecordEvent, CommitUnit, WriteUnit, ReleaseUnit, Die,
     callVars, meterVars
<1> QED
  BY <1>1, <1>2, BoundsAssumption DEF ArrivedBefore, Instants

\* Every step of a call is a step the ledger allows: what is proved of the
\* ledger holds of metered requests, however their statements interleave.
THEOREM MeteringUsesLedger == MeterSpec => UsesLedger
<1>1. MeterInit => Init /\ ArrivedBefore
  BY BoundsAssumption DEF MeterInit, Init, ArrivedBefore, Instants
<1>2. ArrivedBefore /\ [MeterNext]_meterVars => ArrivedBefore' /\ [Next]_vars
  BY ArrivedStep, MeterSteps
<1> QED
  BY <1>1, <1>2, PTL DEF MeterSpec, UsesLedger, Spec

----------------------------------------------------------------------------
\* What makes CountedIsRecorded inductive: a call commits, and the row under
\* the lock is, of an event on record; every hold is for one unit; and the period
\* of a row, like that of an event, is that of a call which reserve() admitted.
Admits(c, k, p) == KeyOf[c] = k /\ period[c] = p
Recorded ==
    /\ pc \in [Calls -> Answered \cup {"absent", "reserving", "recording", "committing",
                                        "writing", "releasing"}]
    /\ period \in [Calls -> Periods \cup {NoPeriod}]
    /\ events \in [Keys -> Periods \cup {NoPeriod}]
    /\ \A c \in Calls : pc[c] \in {"absent", "reserving"} => period[c] = NoPeriod
    /\ \A c \in Calls : pc[c] = "recording" => period[c] # NoPeriod
    /\ \A c \in Calls : pc[c] \in {"committing", "writing"} => OnRecord(KeyOf[c])
    /\ committing \in Keys => OnRecord(committing)
    /\ \A k \in Keys : rsv[k].status = "COMMITTED" => OnRecord(k)
    /\ \A k \in Keys : rsv[k].status # "ABSENT" => rsv[k].amount = 1
    /\ \A k \in Keys : OnRecord(k) => \E c \in Calls : Admits(c, k, events[k])
    /\ \A k \in Keys : rsv[k].status # "ABSENT" => \E c \in Calls : Admits(c, k, rsv[k].period)

\* What a step may do to a row, when metering is the only client.
RowMoves(k) ==
    \/ rsv'[k] = rsv[k]
    \/ /\ rsv[k].status # "ABSENT" /\ rsv'[k].status \in {"RELEASED", "EXPIRED"}
       /\ rsv'[k].amount = rsv[k].amount /\ rsv'[k].period = rsv[k].period
    \/ /\ committing = k /\ rsv[k].status # "ABSENT" /\ rsv'[k].status = "COMMITTED"
       /\ rsv'[k].amount = rsv[k].amount /\ rsv'[k].period = rsv[k].period

\* What reserve() sets a row to.
RowAdmitted(k, now) ==
    rsv'[k].status = "RESERVED" /\ rsv'[k].amount = 1 /\ rsv'[k].period = PeriodStart(quota, now)

\* reserve() of one unit lapses holds, and sets its key's row when it admits.
LEMMA ReserveRows ==
    ASSUME TypeOK, LedgerInv, NEW k \in Keys, NEW now \in FirstInstant..clock, Reserve(k, 1, now, 0)
    PROVE  \A j \in Keys :
              \/ RowMoves(j)
              \/ j = k /\ ReserveOutcome(k, 1, now, 0) = "RESERVED" /\ RowAdmitted(k, now)
<1>1. 1 \in 1..MaxAmount
  BY BoundsAssumption
<1>2. PICK s : s = Swept(now)
  OBVIOUS
<1>3. /\ s \in [Keys -> Reservation]
      /\ \A j \in Keys :
            \/ s[j] = rsv[j]
            \/ rsv[j].status = "RESERVED" /\ s[j] = [rsv[j] EXCEPT !.status = "EXPIRED"]
  BY <1>1, <1>2, ReserveCases
<1>4. \/ rsv' = s
      \/ rsv' = [s EXCEPT ![k] = Admitted(now, 1)] /\ ReserveOutcome(k, 1, now, 0) = "RESERVED"
  BY <1>2 DEF Reserve, Swept, Admitted
<1> TAKE j \in Keys
<1>5. rsv[j] \in Reservation
  BY DEF TypeOK
<1>6. s[j] = rsv[j] \/ (rsv[j].status = "RESERVED" /\ s[j].status = "EXPIRED"
                          /\ s[j].amount = rsv[j].amount /\ s[j].period = rsv[j].period)
  BY <1>3, <1>5 DEF Reservation
<1>7. CASE rsv'[j] = s[j]
  BY <1>6, <1>7 DEF RowMoves
<1>8. CASE rsv'[j] # s[j]
  <2>1. /\ j = k /\ ReserveOutcome(k, 1, now, 0) = "RESERVED"
        /\ rsv'[k] = Admitted(now, 1)
    BY <1>3, <1>4, <1>8
  <2> QED
    BY <2>1 DEF RowAdmitted, Admitted
<1> QED
  BY <1>7, <1>8

\* The write of a commit sets the row under the lock.
LEMMA CommitRows ==
    ASSUME TypeOK, LedgerInv, CommitWrite
    PROVE  \A j \in Keys : RowMoves(j)
<1> TAKE j \in Keys
<1>1. PICK k \in Keys : k = committing
  BY DEF CommitWrite
<1>2. rsv' = [rsv EXCEPT ![k].status = "COMMITTED"] /\ rsv[k].status # "ABSENT" /\ rsv[k] \in Reservation
  BY <1>1 DEF CommitWrite, LedgerInv, CommittingIsPending, TypeOK
<1>3. CASE j = k
  <2>1. rsv'[k] = [rsv[k] EXCEPT !.status = "COMMITTED"]
    BY <1>2 DEF TypeOK
  <2> QED
    BY <1>1, <1>2, <1>3, <2>1 DEF RowMoves, Reservation
<1>4. CASE j # k
  BY <1>2, <1>4 DEF RowMoves, TypeOK
<1> QED
  BY <1>3, <1>4

\* A step that only admits, records, answers: what it must show of the calls,
\* of the events and of the rows.
CallsMove ==
    /\ pc' \in [Calls -> Answered \cup {"absent", "reserving", "recording", "committing",
                                         "writing", "releasing"}]
    /\ period' \in [Calls -> Periods \cup {NoPeriod}]
    /\ \A c \in Calls : period[c] # NoPeriod => period'[c] = period[c]
    /\ \A c \in Calls : pc'[c] \in {"absent", "reserving"} => period'[c] = NoPeriod
    /\ \A c \in Calls : pc'[c] = "recording" => period'[c] # NoPeriod
    /\ \A c \in Calls : pc'[c] \in {"committing", "writing"} => events'[KeyOf[c]] # NoPeriod
EventsMove ==
    /\ events' \in [Keys -> Periods \cup {NoPeriod}]
    /\ \A k \in Keys : events[k] # NoPeriod => events'[k] = events[k]
    /\ \A k \in Keys : events'[k] # events[k] =>
          \E c \in Calls : KeyOf[c] = k /\ period'[c] = events'[k]
LockMoves == committing' \in Keys => events'[committing'] # NoPeriod

LEMMA RecordedMoves ==
    ASSUME TypeOK, Recorded, CallsMove, EventsMove, LockMoves,
           \A k \in Keys :
              \/ RowMoves(k)
              \/ /\ rsv'[k].status = "RESERVED" /\ rsv'[k].amount = 1
                 /\ \E c \in Calls : KeyOf[c] = k /\ period'[c] = rsv'[k].period
    PROVE  Recorded'
<1>1. \A k \in Keys, p \in Periods, c \in Calls :
         Admits(c, k, p) => KeyOf[c] = k /\ period'[c] = p
  <2>1. NoPeriod \notin Periods
    BY BoundsAssumption DEF Periods, NoPeriod
  <2> QED
    BY <2>1 DEF Admits, CallsMove
<1>2. ASSUME NEW k \in Keys, rsv'[k].status # "ABSENT"
      PROVE  rsv'[k].amount = 1 /\ \E c \in Calls : KeyOf[c] = k /\ period'[c] = rsv'[k].period
  <2>1. CASE RowMoves(k)
    <3>1. rsv[k].status # "ABSENT" /\ rsv'[k].amount = rsv[k].amount /\ rsv'[k].period = rsv[k].period
      BY <1>2, <2>1 DEF RowMoves
    <3>2. rsv[k].period \in Periods
      BY DEF TypeOK, Reservation
    <3>3. rsv[k].amount = 1 /\ \E c \in Calls : Admits(c, k, rsv[k].period)
      BY <3>1 DEF Recorded
    <3> QED
      BY <1>1, <3>1, <3>2, <3>3
  <2> QED
    BY <2>1
<1>3. ASSUME NEW k \in Keys, events'[k] # NoPeriod
      PROVE  \E c \in Calls : KeyOf[c] = k /\ period'[c] = events'[k]
  <2>1. CASE events'[k] = events[k]
    <3>1. events[k] \in Periods /\ \E c \in Calls : Admits(c, k, events[k])
      BY <1>3, <2>1 DEF Recorded, OnRecord
    <3> QED
      BY <1>1, <2>1, <3>1
  <2> QED
    BY <2>1 DEF EventsMove
<1>4. ASSUME NEW k \in Keys, rsv'[k].status = "COMMITTED" PROVE events'[k] # NoPeriod
  <2>1. RowMoves(k) /\ (rsv[k].status = "COMMITTED" \/ committing = k)
    BY <1>4 DEF RowMoves
  <2>2. events[k] # NoPeriod
    BY <2>1 DEF Recorded, OnRecord
  <2> QED
    BY <2>2 DEF EventsMove
<1> QED
  BY <1>2, <1>3, <1>4 DEF Recorded, OnRecord, Admits, CallsMove, EventsMove, LockMoves

\* No call commits what is not on record, and no other step touches the rows
\* but to let holds go.
LEMMA RecordedStep ==
    ASSUME TypeOK, LedgerInv, ArrivedBefore, Recorded, [MeterNext]_meterVars
    PROVE  Recorded'
<1>0. /\ \A c \in Calls : KeyOf[c] \in Keys
      /\ NoKey \notin Keys
      /\ NoPeriod \notin Periods
  BY CallsAssumption, KeysAssumption, BoundsAssumption DEF Periods, NoPeriod
<1>1. ASSUME events' = events, period' = period PROVE EventsMove
  BY <1>1 DEF EventsMove, Recorded
<1>2. ASSUME NEW c \in Calls, Arrive(c) PROVE Recorded'
  <2>1. \A k \in Keys : RowMoves(k)
    BY <1>2 DEF Arrive, vars, RowMoves
  <2>2. EventsMove
    BY <1>1, <1>2 DEF Arrive
  <2>3. CallsMove /\ LockMoves
    BY <1>2 DEF Arrive, Moves, Recorded, vars, OnRecord, CallsMove, LockMoves, Answered
  <2> QED
    BY <2>1, <2>2, <2>3, RecordedMoves
<1>3. ASSUME NEW c \in Calls, ReserveUnit(c) PROVE Recorded'
  <2>1. PICK k \in Keys, now \in FirstInstant..clock : k = KeyOf[c] /\ now = at[c]
    BY <1>0, BoundsAssumption DEF ArrivedBefore, Instants
  <2>2. Reserve(k, 1, now, 0)
    BY <1>3, <2>1 DEF ReserveUnit, Reserve, ReserveOutcome
  <2>3. PeriodStart(quota, now) \in Periods
    BY <2>1, PeriodStartType, BoundsAssumption DEF TypeOK, Instants
  <2>4. pc[c] = "reserving" /\ period[c] = NoPeriod
    BY <1>3 DEF ReserveUnit, Moves, Recorded
  <2>5. /\ events' = events
        /\ \/ /\ ReserveOutcome(k, 1, now, 0) = "EXCEEDED"
              /\ pc' = [pc EXCEPT ![c] = "rejected"] /\ period' = period
           \/ /\ ReserveOutcome(k, 1, now, 0) # "EXCEEDED"
              /\ pc' = [pc EXCEPT ![c] = "recording"]
              /\ period' = [period EXCEPT ![c] = PeriodStart(quota, now)]
    <3>1. period \in [Calls -> Periods \cup {NoPeriod}]
      BY DEF Recorded
    <3> QED
      BY <1>3, <2>1, <3>1 DEF ReserveUnit, Moves
  <2>6. CallsMove
    BY <1>0, <2>3, <2>4, <2>5 DEF CallsMove, Recorded, Answered, OnRecord
  <2>7. EventsMove
    BY <2>5 DEF EventsMove, Recorded
  <2>8. LockMoves
    BY <1>0, <2>2 DEF Reserve, LockFree, LockMoves
  <2>9. ASSUME ReserveOutcome(k, 1, now, 0) = "RESERVED"
        PROVE  KeyOf[c] = k /\ period'[c] = PeriodStart(quota, now)
    BY <2>1, <2>5, <2>9 DEF Recorded
  <2>10. \A j \in Keys :
            \/ RowMoves(j)
            \/ j = k /\ ReserveOutcome(k, 1, now, 0) = "RESERVED" /\ RowAdmitted(k, now)
    BY <2>2, ReserveRows
  <2>11. \A j \in Keys :
            \/ RowMoves(j)
            \/ /\ rsv'[j].status = "RESERVED" /\ rsv'[j].amount = 1
               /\ \E d \in Calls : KeyOf[d] = j /\ period'[d] = rsv'[j].period
    BY <2>9, <2>10 DEF RowAdmitted
  <2> QED
    BY <2>6, <2>7, <2>8, <2>11, RecordedMoves
<1>4. ASSUME NEW c \in Calls, RecordEvent(c) PROVE Recorded'
  <2>1. \A k \in Keys : RowMoves(k)
    BY <1>4 DEF RecordEvent, vars, RowMoves
  <2>2. pc[c] = "recording" /\ period[c] \in Periods /\ period' = period /\ committing' = committing
    BY <1>4 DEF RecordEvent, Moves, Recorded, vars
  <2>3. \/ /\ OnRecord(KeyOf[c]) /\ events' = events
           /\ \E to \in {"releasing", "repeated"} : pc' = [pc EXCEPT ![c] = to]
        \/ /\ ~OnRecord(KeyOf[c]) /\ events' = [events EXCEPT ![KeyOf[c]] = period[c]]
           /\ pc' = [pc EXCEPT ![c] = "committing"]
    BY <1>4 DEF RecordEvent, Moves
  <2>4. EventsMove
    BY <1>0, <2>2, <2>3 DEF EventsMove, Recorded, OnRecord
  <2>5. CallsMove
    BY <1>0, <2>2, <2>3, <2>4 DEF CallsMove, EventsMove, Recorded, Answered, OnRecord
  <2>6. LockMoves
    BY <2>2, <2>4 DEF LockMoves, EventsMove, Recorded, OnRecord
  <2> QED
    BY <2>1, <2>4, <2>5, <2>6, RecordedMoves
<1>5. ASSUME NEW c \in Calls, CommitUnit(c) PROVE Recorded'
  <2>1. \A k \in Keys : RowMoves(k)
    BY <1>5 DEF CommitUnit, CommitRead, vars, RowMoves
  <2>2. EventsMove
    BY <1>1, <1>5 DEF CommitUnit
  <2>3. CallsMove /\ LockMoves
    BY <1>5 DEF CommitUnit, CommitRead, Moves, vars, Recorded, Answered, OnRecord, CallsMove, LockMoves
  <2> QED
    BY <2>1, <2>2, <2>3, RecordedMoves
<1>6. ASSUME NEW c \in Calls, WriteUnit(c) PROVE Recorded'
  <2>1. \A k \in Keys : RowMoves(k)
    BY <1>6, CommitRows DEF WriteUnit
  <2>2. EventsMove
    BY <1>1, <1>6 DEF WriteUnit
  <2>3. CallsMove /\ LockMoves
    BY <1>0, <1>6 DEF WriteUnit, CommitWrite, Moves, Recorded, Answered, OnRecord, CallsMove, LockMoves
  <2> QED
    BY <2>1, <2>2, <2>3, RecordedMoves
<1>7. ASSUME NEW c \in Calls, ReleaseUnit(c) PROVE Recorded'
  <2>1. \A k \in Keys : RowMoves(k)
    BY <1>0, <1>7, ReleaseLapses DEF ReleaseUnit, vars, RowMoves
  <2>2. EventsMove
    BY <1>1, <1>7 DEF ReleaseUnit
  <2>3. CallsMove /\ LockMoves
    BY <1>7 DEF ReleaseUnit, Release, Moves, vars, Recorded, Answered, OnRecord, CallsMove, LockMoves
  <2> QED
    BY <2>1, <2>2, <2>3, RecordedMoves
<1>8. ASSUME NEW c \in Calls, Die(c) PROVE Recorded'
  <2>1. \A k \in Keys : RowMoves(k)
    BY <1>8 DEF Die, CommitAbort, vars, RowMoves
  <2>2. EventsMove
    BY <1>1, <1>8 DEF Die
  <2>3. CallsMove /\ LockMoves
    BY <1>0, <1>8 DEF Die, CommitAbort, vars, Recorded, Answered, OnRecord, CallsMove, LockMoves
  <2> QED
    BY <2>1, <2>2, <2>3, RecordedMoves
<1>9. CASE (Scheduler \/ Environment) /\ UNCHANGED callVars
  <2>1. (\E w \in Passes : SweepExpired(w)) \/ Elsewhere
    BY <1>9 DEF Scheduler, Environment, Elsewhere
  <2>2. \A k \in Keys : RowMoves(k)
    BY <2>1, SweepLapses, ElsewhereLeavesLedger DEF ledgerVars, RowMoves
  <2>3. EventsMove
    BY <1>1, <1>9 DEF callVars
  <2>4. committing' = committing
    BY <2>1, ElsewhereLeavesLedger DEF ledgerVars, SweepExpired
  <2>5. CallsMove /\ LockMoves
    BY <1>9, <2>4 DEF callVars, Recorded, Answered, OnRecord, CallsMove, LockMoves
  <2> QED
    BY <2>2, <2>3, <2>5, RecordedMoves
<1>10. CASE UNCHANGED meterVars
  BY <1>10 DEF meterVars, callVars, vars, Recorded, OnRecord, Admits
<1> QED
  BY <1>2, <1>3, <1>4, <1>5, <1>6, <1>7, <1>8, <1>9, <1>10, MeterSteps

\* A counted row and its event carry the periods of calls of its key, so they
\* differ only if two of these do; and a counter is the number of its rows.
LEMMA UsageIsRecorded ==
    ASSUME TypeOK, LedgerInv, Recorded
    PROVE  CountedIsRecorded
<1>0. ASSUME NEW k \in Keys, rsv[k].status = "COMMITTED"
      PROVE  OnRecord(k) /\ (events[k] = rsv[k].period \/ Straddled(k))
  <2>1. OnRecord(k)
    BY <1>0 DEF Recorded
  <2>2. PICK c \in Calls : Admits(c, k, events[k])
    BY <2>1 DEF Recorded
  <2>3. PICK d \in Calls : Admits(d, k, rsv[k].period)
    BY <1>0 DEF Recorded
  <2>4. rsv[k].period # NoPeriod /\ events[k] # NoPeriod
    BY <2>1, BoundsAssumption DEF OnRecord, NoPeriod, TypeOK, Reservation, Periods
  <2> QED
    BY <2>1, <2>2, <2>3, <2>4 DEF Admits, Straddled
<1>1. ASSUME NEW p \in Periods
      PROVE  counter[p].value <=
                Cardinality({k \in Keys : OnRecord(k) /\ (events[k] = p \/ Straddled(k))})
  <2> DEFINE C == InPeriod(rsv, p, "COMMITTED")
             E == {k \in Keys : OnRecord(k) /\ (events[k] = p \/ Straddled(k))}
  <2>1. C \in SUBSET E /\ E \in SUBSET Keys
    BY <1>0 DEF InPeriod
  <2>2. IsFiniteSet(E) /\ IsFiniteSet(C)
    BY <2>1, KeysAssumption, FS_Subset
  <2>3. Cardinality(C) <= Cardinality(E)
    BY <2>1, <2>2, FS_Subset
  <2>4. Units(rsv, C) = C \X {1}
    <3>1. \A k \in C : rsv[k].amount = 1
      BY DEF InPeriod, Recorded
    <3> HIDE DEF C
    <3> QED
      BY <3>1, BoundsAssumption DEF Units
  <2>5. Cardinality(C \X {1}) = Cardinality(C)
    <3>1. IsFiniteSet({1}) /\ Cardinality({1}) = 1
      BY FS_Singleton
    <3>2. Cardinality(C \X {1}) = Cardinality(C) * Cardinality({1})
      BY <2>2, <3>1, FS_Product
    <3>3. Cardinality(C) \in Nat
      BY <2>2, FS_CardinalityType
    <3> QED
      BY <3>1, <3>2, <3>3
  <2>6. counter[p].value = Cardinality(C)
    <3>1. counter[p].value = Sum(rsv, C)
      BY Zenon DEF LedgerInv, CounterMatchesCommitted
    <3> QED
      BY <2>4, <2>5, <3>1, Zenon DEF Sum
  <2> HIDE DEF C, E
  <2>7. counter[p].value <= Cardinality(E)
    BY <2>3, <2>6
  <2> QED
    BY <2>7 DEF E
<1> QED
  BY <1>0, <1>1 DEF CountedIsRecorded

\* Retries, repeats, crashes and lapses included, usage is never invented, and
\* is counted in the period its event is recorded in unless requests of its key
\* were admitted in two periods: for any number of calls, on any keys.
THEOREM CountsWhatIsRecorded == MeterSpec => []CountedIsRecorded
<1>1. MeterInit => Init /\ ArrivedBefore /\ Recorded
  BY BoundsAssumption, KeysAssumption
     DEF MeterInit, Init, ArrivedBefore, Recorded, Answered, Instants, OnRecord
<1>2. TypeOK /\ LedgerInv /\ ArrivedBefore /\ Recorded /\ [MeterNext]_meterVars
        => LedgerInv' /\ ArrivedBefore' /\ Recorded'
  BY MeterSteps, LedgerInvStep, ArrivedStep, RecordedStep
<1>3. MeterSpec => []TypeOK
  BY MeteringUsesLedger, TypeCorrect, PTL DEF UsesLedger
<1>4. TypeOK /\ LedgerInv /\ Recorded => CountedIsRecorded
  BY UsageIsRecorded
<1> QED
  BY <1>1, <1>2, <1>3, <1>4, LedgerInvInit, PTL DEF MeterSpec

----------------------------------------------------------------------------
\* What makes ServedIsCounted inductive: a call that is alone on its key finds
\* neither row nor event, and its hold lasts until it is counted, unless the
\* call outlives it.
OneWriter ==
    /\ \A c \in Calls : pc[c] = "writing" => committing = KeyOf[c]
    /\ \A c, d \in Calls : pc[c] = "writing" /\ pc[d] = "writing" => c = d
ServedAt(c) ==
    /\ pc[c] \in {"absent", "reserving"} => rsv[KeyOf[c]].status = "ABSENT"
    /\ pc[c] \in {"absent", "reserving", "recording"} => ~OnRecord(KeyOf[c])
    /\ pc[c] # "releasing"
    /\ clock < at[c] + TTL /\ pc[c] \in {"recording", "committing", "writing"} =>
          rsv[KeyOf[c]].status = "RESERVED" /\ rsv[KeyOf[c]].expiresAt = at[c] + TTL
    /\ clock < at[c] + TTL /\ pc[c] = "counted" => rsv[KeyOf[c]].status = "COMMITTED"
Served == OneWriter /\ \A c \in Calls : Alone(c) => ServedAt(c)

\* What the steps of others, and of the scheduler, may do to a key's row.
KeptRow(j) ==
    \/ rsv'[j] = rsv[j]
    \/ rsv[j].status = "RESERVED" /\ rsv[j].expiresAt <= clock

\* One call at a time is between the read and the write of a commit.
LEMMA OneWriterStep ==
    ASSUME TypeOK, ArrivedBefore, Recorded, OneWriter, [MeterNext]_meterVars
    PROVE  OneWriter'
<1>0. NoKey \notin Keys /\ \A c \in Calls : KeyOf[c] \in Keys
  BY KeysAssumption, CallsAssumption
<1>1. pc \in [Calls -> Answered \cup {"absent", "reserving", "recording", "committing", "writing",
                                        "releasing"}]
  BY DEF Recorded
<1>2. ASSUME NEW c \in Calls, NEW to, to # "writing", pc[c] # "writing", pc' = [pc EXCEPT ![c] = to],
             committing' = committing
      PROVE  OneWriter'
  BY <1>1, <1>2 DEF OneWriter
<1>3. ASSUME NEW c \in Calls, Arrive(c) \/ ReserveUnit(c) \/ RecordEvent(c) \/ ReleaseUnit(c)
      PROVE  OneWriter'
  <2>1. committing' = committing /\ pc[c] # "writing"
    BY <1>3 DEF Arrive, ReserveUnit, Reserve, RecordEvent, ReleaseUnit, Release, Moves, vars
  <2>2. PICK to \in {"reserving", "rejected", "recording", "releasing", "repeated", "committing"} :
            pc' = [pc EXCEPT ![c] = to]
    BY <1>3 DEF Arrive, ReserveUnit, RecordEvent, ReleaseUnit, Moves
  <2> QED
    BY <1>2, <2>1, <2>2
<1>4. ASSUME NEW c \in Calls, CommitUnit(c) PROVE OneWriter'
  BY <1>0, <1>1, <1>4 DEF CommitUnit, CommitRead, LockFree, Moves, OneWriter, vars
<1>5. ASSUME NEW c \in Calls, WriteUnit(c) PROVE OneWriter'
  BY <1>1, <1>5 DEF WriteUnit, CommitWrite, Moves, OneWriter
<1>6. ASSUME NEW c \in Calls, Die(c) PROVE OneWriter'
  BY <1>1, <1>6 DEF Die, CommitAbort, OneWriter, vars
<1>7. CASE ((Scheduler \/ Environment) /\ UNCHANGED callVars) \/ UNCHANGED meterVars
  BY <1>7 DEF Scheduler, SweepExpired, SelectClosed, LoadClosed, WriteSnapshot, PassDies, Environment,
     ChangeQuota, Tick, ledgerVars, callVars, meterVars, vars, OneWriter
<1> QED
  BY <1>3, <1>4, <1>5, <1>6, <1>7, MeterSteps

\* A call of another key, the scheduler and the clock leave a key's row alone,
\* or let an overdue hold lapse.
LEMMA OthersKeepRow ==
    ASSUME TypeOK, ArrivedBefore, Recorded, OneWriter, NEW c \in Calls, Alone(c), [MeterNext]_meterVars,
           UNCHANGED <<pc[c], at[c]>>
    PROVE  KeptRow(KeyOf[c])
<1>0. /\ rsv \in [Keys -> Reservation] /\ \A d \in Calls : KeyOf[d] \in Keys
      /\ pc \in [Calls -> Answered \cup {"absent", "reserving", "recording", "committing", "writing",
                                           "releasing"}]
  BY CallsAssumption DEF TypeOK, Recorded
<1>1. ASSUME NEW d \in Calls, ReserveUnit(d) PROVE KeptRow(KeyOf[c])
  <2>1. d # c
    BY <1>0, <1>1 DEF ReserveUnit, Moves
  <2>2. PICK k \in Keys, now \in FirstInstant..clock : k = KeyOf[d] /\ now = at[d]
    BY <1>0, BoundsAssumption DEF ArrivedBefore, Instants
  <2>3. \A j \in Keys \ {k} : rsv'[j] = Expired(rsv, now, {PeriodStart(quota, now)})[j]
    BY <1>0, <1>1, <2>2 DEF ReserveUnit, Reserve, Expired
  <2>4. KeyOf[c] \in Keys \ {k}
    BY <1>0, <2>1, <2>2 DEF Alone
  <2>5. PICK j \in Keys : j = KeyOf[c]
    BY <1>0
  <2>6. \/ rsv'[j] = rsv[j]
        \/ rsv[j].status = "RESERVED" /\ rsv[j].expiresAt <= now
    BY <2>3, <2>4, <2>5 DEF Expired
  <2>7. now <= clock /\ now \in Nat /\ clock \in Nat /\ rsv[j].expiresAt \in Nat
    BY <1>0, BoundsAssumption DEF ArrivedBefore, Instants, Reservation
  <2>8. rsv[j].expiresAt <= now => rsv[j].expiresAt <= clock
    BY <2>7
  <2> QED
    BY <2>5, <2>6, <2>8 DEF KeptRow
<1>2. ASSUME NEW d \in Calls, ReleaseUnit(d) PROVE KeptRow(KeyOf[c])
  BY <1>0, <1>2 DEF ReleaseUnit, Release, Moves, Alone, KeptRow, vars
<1>3. ASSUME NEW d \in Calls, WriteUnit(d) PROVE KeptRow(KeyOf[c])
  BY <1>0, <1>3 DEF WriteUnit, CommitWrite, Moves, Alone, KeptRow, OneWriter
<1>4. ASSUME NEW d \in Calls, Arrive(d) \/ RecordEvent(d) \/ CommitUnit(d) \/ Die(d)
      PROVE  KeptRow(KeyOf[c])
  BY <1>4 DEF Arrive, RecordEvent, CommitUnit, CommitRead, Die, CommitAbort, vars, KeptRow
<1>5. ASSUME NEW w \in Passes, SweepExpired(w) PROVE KeptRow(KeyOf[c])
  BY <1>0, <1>5 DEF SweepExpired, Expired, KeptRow
<1>6. CASE (Scheduler \/ Environment) /\ UNCHANGED callVars
  BY <1>5, <1>6 DEF Scheduler, SelectClosed, LoadClosed, WriteSnapshot, PassDies, Environment,
     ChangeQuota, Tick, ledgerVars, KeptRow
<1>7. CASE UNCHANGED meterVars
  BY <1>7 DEF meterVars, vars, KeptRow
<1> QED
  BY <1>1, <1>2, <1>3, <1>4, <1>6, <1>7, MeterSteps

\* So what is so of a call alone on its key stays so while others move.
LEMMA OthersServe ==
    ASSUME TypeOK, ArrivedBefore, Recorded, OneWriter, NEW c \in Calls, Alone(c), ServedAt(c),
           [MeterNext]_meterVars, UNCHANGED <<pc[c], at[c]>>,
           events'[KeyOf[c]] = events[KeyOf[c]]
    PROVE  ServedAt(c)'
<1>1. KeptRow(KeyOf[c])
  BY OthersKeepRow
<1>2. clock <= clock' /\ clock \in Int /\ clock' \in Int /\ at[c] + TTL \in Int
  <2>1. clock' = clock \/ clock' = clock + 1
    BY MeterSteps DEF Next, Reserve, CommitRead, Release, CommitWrite, CommitAbort, Scheduler,
       SweepExpired, SelectClosed, LoadClosed, WriteSnapshot, PassDies, Environment, ChangeQuota,
       Tick, vars
  <2> QED
    BY <2>1, BoundsAssumption DEF ArrivedBefore, Instants
<1>3. rsv[KeyOf[c]].expiresAt \in Int
  BY CallsAssumption DEF TypeOK, Reservation
<1> QED
  BY <1>1, <1>2, <1>3 DEF ServedAt, KeptRow, OnRecord

\* A call alone on its key finds it free, and then has it.
LEMMA ServedStep ==
    ASSUME TypeOK, ArrivedBefore, Recorded, OneWriter, NEW c \in Calls, Alone(c), ServedAt(c),
           [MeterNext]_meterVars
    PROVE  ServedAt(c)'
<1>0. /\ rsv \in [Keys -> Reservation] /\ \A d \in Calls : KeyOf[d] \in Keys
      /\ pc \in [Calls -> Answered \cup {"absent", "reserving", "recording", "committing", "writing",
                                           "releasing"}]
      /\ at \in [Calls -> Instants]
  BY CallsAssumption DEF TypeOK, Recorded, ArrivedBefore
<1>1. ASSUME UNCHANGED <<pc[c], at[c], events>> PROVE ServedAt(c)'
  BY <1>1, OthersServe
<1>2. ASSUME NEW d \in Calls, d # c, Arrive(d) \/ Call(d) \/ Die(d) PROVE ServedAt(c)'
  <2>1. pc[c]' = pc[c] /\ at[c]' = at[c]
    BY <1>0, <1>2 DEF Arrive, Call, ReserveUnit, RecordEvent, CommitUnit, WriteUnit, ReleaseUnit, Die, Moves
  <2>2. Alone(c) => events'[KeyOf[c]] = events[KeyOf[c]]
    <3>1. events' = events \/ events' = [events EXCEPT ![KeyOf[d]] = period[d]]
      BY <1>2 DEF Arrive, Call, ReserveUnit, RecordEvent, CommitUnit, WriteUnit, ReleaseUnit, Die
    <3> QED
      BY <1>0, <1>2, <3>1 DEF Alone, Recorded
  <2> QED
    BY <1>2, <2>1, <2>2, OthersServe DEF Alone
<1>3. CASE Arrive(c)
  BY <1>0, <1>3 DEF Arrive, Moves, vars, ServedAt, OnRecord
<1>4. CASE ReserveUnit(c)
  <2>1. pc[c] = "reserving" /\ rsv[KeyOf[c]].status = "ABSENT"
    BY <1>4 DEF ReserveUnit, Moves, ServedAt
  <2>2. PICK k \in Keys, now \in FirstInstant..clock : k = KeyOf[c] /\ now = at[c]
    BY <1>0, BoundsAssumption DEF ArrivedBefore, Instants
  <2>3. Expired(rsv, now, {PeriodStart(quota, now)})[k] = rsv[k]
    BY <2>1, <2>2 DEF Expired
  <2>4. ReserveOutcome(k, 1, now, 0) \in {"EXCEEDED", "RESERVED"}
    BY <2>1, <2>2, <2>3 DEF ReserveOutcome
  <2>5. events' = events /\ at' = at /\ clock' = clock
    BY <1>4 DEF ReserveUnit, Reserve
  <2>6. CASE ReserveOutcome(k, 1, now, 0) = "EXCEEDED"
    <3>1. pc' = [pc EXCEPT ![c] = "rejected"]
      BY <1>4, <2>2, <2>6 DEF ReserveUnit, Moves
    <3> QED
      BY <1>0, <2>5, <3>1 DEF ServedAt, OnRecord
  <2>7. CASE ReserveOutcome(k, 1, now, 0) = "RESERVED"
    <3>1. pc' = [pc EXCEPT ![c] = "recording"]
      BY <1>4, <2>2, <2>7 DEF ReserveUnit, Moves
    <3>2. rsv'[k].status = "RESERVED" /\ rsv'[k].expiresAt = now + TTL
      BY <1>4, <2>2, <2>7 DEF ReserveUnit, Reserve, Expired
    <3> QED
      BY <1>0, <2>1, <2>2, <2>5, <3>1, <3>2 DEF ServedAt, OnRecord
  <2> QED
    BY <2>4, <2>6, <2>7
<1>5. CASE RecordEvent(c)
  BY <1>0, <1>5 DEF RecordEvent, Moves, vars, ServedAt, OnRecord
<1>6. CASE CommitUnit(c)
  BY <1>0, <1>6 DEF CommitUnit, CommitRead, Moves, vars, ServedAt, OnRecord
<1>7. CASE WriteUnit(c)
  <2>1. committing = KeyOf[c] /\ pc' = [pc EXCEPT ![c] = "counted"]
    BY <1>7 DEF WriteUnit, Moves, OneWriter
  <2>2. rsv'[KeyOf[c]].status = "COMMITTED"
    <3>1. rsv' = [rsv EXCEPT ![KeyOf[c]].status = "COMMITTED"]
      BY <1>7, <2>1 DEF WriteUnit, CommitWrite
    <3> QED
      BY <1>0, <3>1 DEF Reservation
  <2> QED
    BY <1>0, <2>1, <2>2 DEF ServedAt, OnRecord
<1>8. CASE ReleaseUnit(c)
  BY <1>8 DEF ReleaseUnit, Moves, ServedAt
<1>9. CASE Die(c)
  BY <1>0, <1>9 DEF Die, ServedAt, Answered
<1>10. CASE ((Scheduler \/ Environment) /\ UNCHANGED callVars) \/ UNCHANGED meterVars
  BY <1>1, <1>10 DEF callVars, meterVars
<1> QED
  BY <1>2, <1>3, <1>4, <1>5, <1>6, <1>7, <1>8, <1>9, <1>10 DEF MeterNext, Call

\* A call alone on its key that is answered in time is counted, whatever other
\* calls, the scheduler and changes of the limit do meanwhile.
THEOREM AloneIsCounted == MeterSpec => []ServedIsCounted
<1>1. MeterInit => Init /\ ArrivedBefore /\ Recorded /\ Served
  BY BoundsAssumption, KeysAssumption, CallsAssumption
     DEF MeterInit, Init, ArrivedBefore, Recorded, Answered, Instants, OnRecord, Served, OneWriter, ServedAt
<1>2. TypeOK /\ LedgerInv /\ ArrivedBefore /\ Recorded /\ Served /\ [MeterNext]_meterVars
        => LedgerInv' /\ ArrivedBefore' /\ Recorded' /\ Served'
  <2> SUFFICES ASSUME TypeOK, LedgerInv, ArrivedBefore, Recorded, Served, [MeterNext]_meterVars
               PROVE  LedgerInv' /\ ArrivedBefore' /\ Recorded' /\ Served'
    OBVIOUS
  <2>1. OneWriter'
    BY OneWriterStep DEF Served
  <2>2. \A c \in Calls : Alone(c) => ServedAt(c)'
    BY ServedStep DEF Served
  <2> QED
    BY <2>1, <2>2, MeterSteps, LedgerInvStep, ArrivedStep, RecordedStep DEF Served, Alone
<1>3. MeterSpec => []TypeOK
  BY MeteringUsesLedger, TypeCorrect, PTL DEF UsesLedger
<1>4. Served => ServedIsCounted
  BY DEF Served, ServedAt, ServedIsCounted
<1> QED
  BY <1>1, <1>2, <1>3, <1>4, LedgerInvInit, PTL DEF MeterSpec

============================================================================
