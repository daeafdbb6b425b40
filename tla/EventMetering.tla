--------------------------- MODULE EventMetering ---------------------------
(***************************************************************************)
(* QuotaService.consumeEvent, as ApiUsageInterceptor calls it for every    *)
(* tenant request: reserve one unit, append the usage event, commit or     *)
(* release.  Each of the three is a transaction of its own, so calls       *)
(* interleave between them, with each other and with the scheduler, and a  *)
(* process may stop after any of them.  Two calls with the same x-request- *)
(* id (a client's retry) share an idempotency key.                         *)
(***************************************************************************)
EXTENDS QuotaLedger

CONSTANTS
    Calls,     \* requests that reach the interceptor
    KeyOf      \* the idempotency key of each: `http:${requestId}`

ASSUME CallsAssumption == IsFiniteSet(Calls) /\ KeyOf \in [Calls -> Keys]

VARIABLES
    pc,        \* where each call is
    at,        \* the `now` it took when it arrived
    owner,     \* did its reserve() answer RESERVED, not ALREADY_RESERVED?
    period,    \* periodStart of the quota its reserve() resolved and returned
    events     \* usage_events: the periodStart stored under each unique key

callVars == <<pc, at, owner, period, events>>
meterVars == <<vars, callVars>>

NoPeriod == -1
OnRecord(k) == events[k] # NoPeriod
Answered == {"rejected", "counted", "repeated", "dead"}

MeterInit ==
    /\ Init
    /\ pc = [c \in Calls |-> "absent"]
    /\ at = [c \in Calls |-> FirstInstant]
    /\ owner = [c \in Calls |-> FALSE]
    /\ period = [c \in Calls |-> NoPeriod]
    /\ events = [k \in Keys |-> NoPeriod]

Moves(c, from, to) == pc[c] = from /\ pc' = [pc EXCEPT ![c] = to]

\* ApiUsageInterceptor.intercept: new Date() before anything is awaited.
Arrive(c) ==
    /\ Moves(c, "absent", "reserving")
    /\ at' = [at EXCEPT ![c] = clock]
    /\ UNCHANGED <<vars, owner, period, events>>

\* A refusal is an exception: nothing else of the call happens.  The quota that
\* is returned is the one in force for THIS call, also when the row found is of
\* an earlier period.
ReserveUnit(c) ==
    LET outcome == ReserveOutcome(KeyOf[c], 1, at[c], 0)
    IN  /\ Moves(c, "reserving", IF outcome = "EXCEEDED" THEN "rejected" ELSE "recording")
        /\ Reserve(KeyOf[c], 1, at[c], 0)
        /\ owner' = [owner EXCEPT ![c] = outcome = "RESERVED"]
        /\ period' = [period EXCEPT ![c] = IF outcome = "EXCEEDED" THEN @
                                           ELSE PeriodStart(quota, at[c])]
        /\ UNCHANGED <<at, events>>

\* MUTANT of RecordEvent: stores the period of the moment it writes in.
RecordEvent_Now(c) ==
    /\ IF OnRecord(KeyOf[c])
       THEN /\ Moves(c, "recording", IF owner[c] THEN "releasing" ELSE "repeated")
            /\ UNCHANGED events
       ELSE /\ Moves(c, "recording", "committing")
            /\ events' = [events EXCEPT ![KeyOf[c]] = PeriodStart(quota, clock)]
    /\ UNCHANGED <<vars, at, owner, period>>

\* createMany(skipDuplicates); only the call that appended the event commits,
\* and of the others only the one that owns the hold gives it back.
RecordEvent(c) ==
    /\ IF OnRecord(KeyOf[c])
       THEN /\ Moves(c, "recording", IF owner[c] THEN "releasing" ELSE "repeated")
            /\ UNCHANGED events
       ELSE /\ Moves(c, "recording", "committing")
            /\ events' = [events EXCEPT ![KeyOf[c]] = period[c]]
    /\ UNCHANGED <<vars, at, owner, period>>

\* commitReservation, up to the row it reads under the lock.  A row that is no
\* longer RESERVED ends the call without a write and without an error.
CommitUnit(c) ==
    \/ /\ Moves(c, "committing", "writing")
       /\ CommitRead(KeyOf[c])
       /\ UNCHANGED <<at, owner, period, events>>
    \/ /\ Moves(c, "committing", "counted")
       /\ LockFree /\ rsv[KeyOf[c]].status # "RESERVED"
       /\ UNCHANGED <<vars, at, owner, period, events>>

WriteUnit(c) ==
    /\ Moves(c, "writing", "counted")
    /\ CommitWrite
    /\ UNCHANGED <<at, owner, period, events>>

\* MUTANT of ReleaseUnit: gives back by id, even what the retry has committed.
ReleaseUnit_AnyStatus(c) ==
    /\ Moves(c, "releasing", "repeated")
    /\ rsv' = [rsv EXCEPT ![KeyOf[c]].status = "RELEASED"]
    /\ UNCHANGED <<clock, quota, counter, committing, alerts, schedulerVars>>
    /\ UNCHANGED <<at, owner, period, events>>

\* releaseReservation matches a RESERVED row or nothing.
ReleaseUnit(c) ==
    /\ Moves(c, "releasing", "repeated")
    /\ IF rsv[KeyOf[c]].status = "RESERVED" THEN Release(KeyOf[c]) ELSE UNCHANGED vars
    /\ UNCHANGED <<at, owner, period, events>>

\* MUTANT of Die: a session lock, which a rolled back transaction leaves held.
Die_KeepsLock(c) ==
    /\ pc[c] \notin Answered \cup {"absent"}
    /\ pc' = [pc EXCEPT ![c] = "dead"]
    /\ UNCHANGED <<vars, at, owner, period, events>>

\* A statement fails or the process stops: an open transaction is rolled back,
\* whatever was committed before stays.
Die(c) ==
    /\ pc[c] \notin Answered \cup {"absent"}
    /\ pc' = [pc EXCEPT ![c] = "dead"]
    /\ IF pc[c] = "writing" THEN CommitAbort ELSE UNCHANGED vars
    /\ UNCHANGED <<at, owner, period, events>>

Call(c) ==
    \/ ReserveUnit(c)
    \/ RecordEvent(c)
    \/ CommitUnit(c)
    \/ WriteUnit(c)
    \/ ReleaseUnit(c)

MeterNext ==
    \/ \E c \in Calls : Arrive(c) \/ Call(c) \/ Die(c)
    \/ (Scheduler \/ Environment) /\ UNCHANGED callVars

MeterSpec == MeterInit /\ [][MeterNext]_meterVars

\* A call is a chain of awaited statements: it goes on until it is answered.
FairMeterSpec == MeterSpec /\ \A c \in Calls : SF_meterVars(Call(c))

----------------------------------------------------------------------------
\* Metering is one client of the ledger: every step of a call is a step the
\* ledger allows, so what is proved of QuotaLedger holds of API_CALLS.
UsesLedger == Spec

\* Requests of one key that reserve() admitted in two periods: a retry after a
\* window ended, or after the reset of the metric changed.
Straddled(k) ==
    \E c, d \in Calls :
        /\ KeyOf[c] = k /\ KeyOf[d] = k
        /\ NoPeriod \notin {period[c], period[d]} /\ period[c] # period[d]

\* Usage is never invented, and is counted where it is recorded: a counted row
\* has an event on record, and a period reports no more usage than it has
\* events, retries, repeats and crashes included.  The one exception is the
\* retry of a key in a later period: its event carries the period of the call
\* that appended it, and its unit is counted in the period of the row
\* (consumeEvent, the periodStart of the event).
CountedIsRecorded ==
    /\ \A k \in Keys : rsv[k].status = "COMMITTED" =>
          OnRecord(k) /\ (events[k] = rsv[k].period \/ Straddled(k))
    /\ \A p \in Periods :
          counter[p].value <=
              Cardinality({k \in Keys : OnRecord(k) /\ (events[k] = p \/ Straddled(k))})

\* A call alone on its key, answered before its hold could lapse, is counted:
\* neither other calls nor the scheduler can make its commit a no-op.
Alone(c) == \A d \in Calls \ {c} : KeyOf[d] # KeyOf[c]
ServedIsCounted ==
    \A c \in Calls :
        (pc[c] = "counted" /\ Alone(c) /\ clock < at[c] + TTL)
            => rsv[KeyOf[c]].status = "COMMITTED"

\* Calls that wait for the lock are answered, even when the one that holds it
\* dies (the lock lives and dies with its transaction).
CallIsAnswered == \A c \in Calls : pc[c] = "reserving" ~> pc[c] \in Answered

============================================================================
