------------------------ MODULE SeatMeteringProofs --------------------------
(***************************************************************************)
(* Seats are covered by the counter and its live holds, and stay within    *)
(* the limit, for any number of users and calls, whatever is in flight.    *)
(***************************************************************************)
EXTENDS SeatMetering, QuotaLedgerProofs

\* The period of the counter, which stands still while the limit is fixed; the
\* calls that have a hold; and the holds.
Current == PeriodStart(quota, clock)
Owns(c) == pc[c] \in {"saving", "committing", "writing", "releasing"}
Held(k) == rsv[k].status = "RESERVED"
LiveHolds == InPeriod(rsv, Current, "RESERVED")

\* Seats that no hold stands for, and the users who have a seat or a hold.
Bare == {u \in seats : \A k \in Keys : HolderOf(k) = u => ~Held(k)}
Claimants == seats \cup {HolderOf(k) : k \in LiveHolds}

SeatTypeOK ==
    /\ clock = FirstInstant /\ quota \in Quotas
    /\ counter \in [Periods -> Counter]
    /\ rsv \in [Keys -> Reservation]
    /\ committing \in Keys \cup {NoKey}
    /\ seats \subseteq Users
    /\ pc \in [Requests -> InFlight \cup {"absent", "rejected", "done", "failed", "dead"}]
    /\ repair \in Nat \cup {NoLimit}
    /\ \A k \in Keys : rsv[k].status # "ABSENT" =>
          rsv[k].period = Current /\ rsv[k].amount = 1 /\ rsv[k].expiresAt = clock + TTL
    /\ committing \in Keys => rsv[committing].status # "ABSENT"

\* A call that has a hold has it alone, and while it has not saved, its user has
\* no seat.
HoldsAreOwn ==
    /\ \A c \in Requests : Owns(c) => Held(KeyFor(c))
    /\ \A c, d \in Requests : Owns(c) /\ Owns(d) /\ KeyFor(c) = KeyFor(d) => c = d
    /\ \A c \in Requests : pc[c] = "writing" => committing = KeyFor(c)
    /\ committing \in Keys => \E c \in Requests : pc[c] = "writing"
    /\ \A c \in Requests : OpOf[c] = "deactivate" => pc[c] \in {"absent", "syncing", "done", "dead"}
    /\ \A c \in Requests : pc[c] \in {"saving", "releasing"} => UserOf[c] \notin seats
    /\ \A c \in Requests : pc[c] = "reserving" /\ UserOf[c] \in seats =>
          rsv[KeyFor(c)].status \in {"RESERVED", "COMMITTED"}
    /\ \A c \in Requests : pc[c] = "absent" /\ OpOf[c] = "create" => UserOf[c] \notin seats

BareIsCounted == counter[Current].exists => Cardinality(Bare) <= counter[Current].value
ClaimsWithinLimit == Cardinality(Claimants) <= quota.hardLimit
SeatInv == leaks = {} => HoldsAreOwn /\ BareIsCounted /\ ClaimsWithinLimit

----------------------------------------------------------------------------
\* The key of a call that reserves, and the user its hold stands for.
LEMMA KeysAndHolders ==
    ASSUME NEW c \in Requests
    PROVE  KeyFor(c) \in Keys /\ HolderOf(KeyFor(c)) = UserOf[c] /\ UserOf[c] \in Users
  BY RequestsAssumption DEF KeyFor, HolderOf

\* Two calls that may have a hold and are about the same user share their key.
LEMMA SameUserSameKey ==
    ASSUME NEW c \in Requests, NEW d \in Requests, UserOf[c] = UserOf[d],
           OpOf[c] # "deactivate", OpOf[d] # "deactivate"
    PROVE  KeyFor(c) = KeyFor(d)
  BY RequestsAssumption DEF KeyFor

\* The period of the counter is one of the periods.
LEMMA CurrentType ==
    ASSUME SeatTypeOK
    PROVE  /\ Current \in Periods /\ clock \in Instants /\ PeriodEnd(quota, clock) \in Nat \cup {NoEnd}
           /\ quota \in Quota /\ quota.enforced /\ quota.hardLimit \in Nat
<1>1. clock \in Instants
  BY BoundsAssumption DEF SeatTypeOK, Instants
<1>2. quota.hardLimit \in 0..MaxLimit /\ quota.enforced
  BY QuotasAssumption, SeatLimitAssumption DEF SeatTypeOK
<1> QED
  BY <1>1, <1>2, PeriodStartType, QuotasAssumption, BoundsAssumption DEF SeatTypeOK, Current

\* The inventory is a count.
LEMMA InventoryType ==
    ASSUME SeatTypeOK
    PROVE  IsFiniteSet(seats) /\ Inventory \in Nat
<1>1. IsFiniteSet(seats)
  BY RequestsAssumption, FS_Subset DEF SeatTypeOK
<1> QED
  BY <1>1, FS_CardinalityType DEF Inventory

\* No hold is overdue, so reserve() sweeps nothing.
LEMMA NothingLapses ==
    ASSUME SeatTypeOK, NEW ps
    PROVE  Expired(rsv, clock, ps) = rsv
<1>1. \A k \in Keys : rsv[k].status = "RESERVED" => ~(rsv[k].expiresAt <= clock)
  BY BoundsAssumption, SeatLimitAssumption DEF SeatTypeOK
<1> QED
  BY <1>1 DEF Expired, SeatTypeOK

\* What an upsert, of a counter or of its value, leaves in the current period.
LEMMA UpsertedType ==
    ASSUME SeatTypeOK, NEW n \in Nat
    PROVE  /\ Upserted(clock, n) \in [Periods -> Counter] /\ Written(n) \in [Periods -> Counter]
           /\ Upserted(clock, n)[Current].value = IF counter[Current].exists
                                                  THEN counter[Current].value ELSE n
           /\ Upserted(clock, n)[Current].exists /\ Written(n)[Current].value = n
           /\ Written(n)[Current].exists
<1>1. counter[Current] \in Counter
  BY CurrentType DEF SeatTypeOK
<1>2. \A l \in Nat, v \in Nat, e \in Nat \cup {NoEnd} :
         [exists |-> TRUE, value |-> v, limit |-> l, end |-> e] \in Counter
  BY DEF Counter
<1>3. PICK v \in Nat : v = IF counter[Current].exists THEN counter[Current].value ELSE n
  BY <1>1 DEF Counter
<1>4. Upserted(clock, n) = [counter EXCEPT ![Current] =
         [exists |-> TRUE, value |-> v, limit |-> quota.hardLimit, end |-> PeriodEnd(quota, clock)]]
  BY <1>1, <1>3, CurrentType DEF Upserted, Current, SeatTypeOK
<1>5. [exists |-> TRUE, value |-> v, limit |-> quota.hardLimit, end |-> PeriodEnd(quota, clock)] \in Counter
  BY <1>2, CurrentType
<1>6. [counter[Current] EXCEPT !.value = n] \in Counter
  BY <1>1 DEF Counter
<1>7. /\ Upserted(clock, n) \in [Periods -> Counter] /\ Upserted(clock, n)[Current].exists
      /\ Upserted(clock, n)[Current].value = v
  BY <1>4, <1>5, CurrentType DEF SeatTypeOK
<1>8. CASE counter[Current].exists
  <2>1. Written(n) = [counter EXCEPT ![Current] = [counter[Current] EXCEPT !.value = n]]
    BY <1>8, CurrentType DEF Written, Now, Current, SeatTypeOK
  <2>2. Written(n)[Current] = [counter[Current] EXCEPT !.value = n]
    BY <2>1, CurrentType DEF SeatTypeOK
  <2> QED
    BY <1>1, <1>3, <1>6, <1>7, <1>8, <2>1, <2>2, CurrentType DEF SeatTypeOK, Counter
<1>9. CASE ~counter[Current].exists
  BY <1>3, <1>7, <1>9 DEF Written, Now, Current
<1> QED
  BY <1>8, <1>9

----------------------------------------------------------------------------
\* A reservation is refused, joins a hold or a committed row of its key, which
\* is a leak, or is a new hold that the limit has room for.
LEMMA ReserveSeatCases ==
    ASSUME SeatTypeOK, NEW c \in Requests, ReserveSeat(c)
    PROVE  /\ pc[c] = "reserving" /\ committing = NoKey
           /\ counter' = Upserted(clock, Inventory)
           /\ UNCHANGED <<clock, quota, committing, seats, repair>>
           /\ \/ rsv' = rsv /\ pc' = [pc EXCEPT ![c] = "rejected"]
              \/ rsv' = rsv /\ pc' = [pc EXCEPT ![c] = "saving"] /\ leaks' # {}
              \/ /\ rsv[KeyFor(c)].status \notin {"RESERVED", "COMMITTED"}
                 /\ rsv' = [rsv EXCEPT ![KeyFor(c)] = Admitted(clock, 1)]
                 /\ pc' = [pc EXCEPT ![c] = "saving"]
                 /\ Upserted(clock, Inventory)[Current].value + Sum(rsv, LiveHolds) + 1 <= quota.hardLimit
<1> DEFINE outcome == ReserveOutcome(KeyFor(c), 1, clock, Inventory)
<1>1. PICK k \in Keys, n \in Nat : k = KeyFor(c) /\ n = Inventory
  BY KeysAndHolders, InventoryType
<1>2. Expired(rsv, clock, {Current}) = rsv
  BY NothingLapses
<1>3. /\ pc[c] = "reserving" /\ pc' = [pc EXCEPT ![c] = IF outcome = "EXCEEDED" THEN "rejected" ELSE "saving"]
      /\ leaks' = IF outcome # "ALREADY_RESERVED" THEN leaks
                  ELSE IF rsv[k].status = "COMMITTED" THEN leaks \cup {"reused key"}
                  ELSE leaks \cup {"joined hold"}
      /\ UNCHANGED <<clock, quota, committing, seats, repair>>
  BY <1>1 DEF ReserveSeat, Moves, Now, Reserve
<1>4. /\ committing = NoKey /\ counter' = Upserted(clock, Inventory)
      /\ rsv' = IF outcome = "RESERVED" THEN [rsv EXCEPT ![KeyFor(c)] = Admitted(clock, 1)] ELSE rsv
  BY <1>2 DEF ReserveSeat, Reserve, Now, LockFree, Current, Admitted
<1>5. CASE outcome = "RESERVED"
  <2>1. /\ rsv[KeyFor(c)].status \notin {"RESERVED", "COMMITTED"}
        /\ ~(Upserted(clock, Inventory)[Current].value + Sum(rsv, LiveHolds) + 1 > quota.hardLimit)
    BY <1>2, <1>5, CurrentType DEF ReserveOutcome, LiveHolds, Current
  <2>2. Upserted(clock, Inventory)[Current].value \in Nat
    BY InventoryType, UpsertedType, CurrentType DEF Counter
  <2>3. Sum(rsv, LiveHolds) \in Nat
    <3>1. LiveHolds \subseteq Keys
      BY DEF LiveHolds, InPeriod
    <3> QED
      BY <3>1, UnitsFinite, FS_Subset, KeysAssumption, BoundsAssumption
  <2>4. Upserted(clock, Inventory)[Current].value + Sum(rsv, LiveHolds) + 1 <= quota.hardLimit
    BY <2>1, <2>2, <2>3, CurrentType
  <2> HIDE DEF outcome
  <2> QED
    BY <1>3, <1>4, <1>5, <2>1, <2>4
<1>6. CASE outcome # "RESERVED"
  <2>1. outcome \in {"MISMATCH", "ALREADY_RESERVED", "EXCEEDED", "RESERVED"}
    BY DEF ReserveOutcome
  <2>2. outcome # "MISMATCH"
    BY DEF ReserveSeat, Reserve, Now
  <2> HIDE DEF outcome
  <2> QED
    BY <1>3, <1>4, <1>6, <2>1, <2>2
<1> QED
  BY <1>5, <1>6

\* The clock, the limit and its period stand still, and leaks are remembered.
LEMMA SeatsStandStill ==
    ASSUME SeatTypeOK, [SeatNext]_seatingVars
    PROVE  clock' = clock /\ quota' = quota /\ Current' = Current /\ leaks \subseteq leaks'
<1>1. clock' = clock /\ quota' = quota /\ leaks \subseteq leaks'
  BY DEF SeatNext, SeatCall, Begin, ReserveSeat, Reserve, Save, SaveFails, ReleaseSeat, Release,
     CommitSeat, CommitRead, WriteSeat, CommitWrite, Deactivate, Synchronize, Die, CommitAbort,
     Lapse, Provision, ReadInventory, Repair, seatingVars, seatVars, vars
<1> QED
  BY <1>1 DEF Current

\* The write of a commit counts one seat.
LEMMA WriteSeatEffect ==
    ASSUME SeatTypeOK, NEW c \in Requests, WriteSeat(c)
    PROVE  /\ committing \in Keys /\ rsv' = [rsv EXCEPT ![committing].status = "COMMITTED"]
           /\ counter' = [counter EXCEPT ![Current].value = counter[Current].value + 1]
<1>1. rsv[committing].period = Current /\ rsv[committing].amount = 1 /\ committing \in Keys
  BY DEF SeatTypeOK, WriteSeat, CommitWrite
<1> QED
  BY <1>1 DEF WriteSeat, CommitWrite

\* Types are preserved.
LEMMA SeatTypeStep ==
    ASSUME SeatTypeOK, [SeatNext]_seatingVars
    PROVE  SeatTypeOK'
<1>0. clock' = clock /\ quota' = quota /\ Current' = Current
  BY SeatsStandStill
<1> DEFINE rows(r) ==
              /\ r \in [Keys -> Reservation]
              /\ \A k \in Keys : r[k].status # "ABSENT" =>
                    r[k].period = Current /\ r[k].amount = 1 /\ r[k].expiresAt = clock + TTL
           lock == /\ committing' \in Keys \cup {NoKey}
                   /\ committing' \in Keys => rsv'[committing'].status # "ABSENT"
           calls == pc' \in [Requests -> InFlight \cup {"absent", "rejected", "done", "failed", "dead"}]
           rest == seats' \subseteq Users /\ repair' \in Nat \cup {NoLimit}
<1>1. ASSUME counter' \in [Periods -> Counter], rows(rsv'), lock, calls, rest
      PROVE  SeatTypeOK'
  BY <1>0, <1>1 DEF SeatTypeOK
<1>2. /\ rows(rsv) /\ counter \in [Periods -> Counter] /\ committing \in Keys \cup {NoKey}
      /\ seats \subseteq Users /\ repair \in Nat \cup {NoLimit}
  BY DEF SeatTypeOK
<1>3. ASSUME NEW k \in Keys, NEW st \in {"COMMITTED", "RELEASED", "EXPIRED"}, rsv[k].status # "ABSENT"
      PROVE  rows([rsv EXCEPT ![k].status = st])
  <2>1. rsv[k] \in Reservation /\ [rsv[k] EXCEPT !.status = st] \in Reservation
    BY <1>2 DEF Reservation, Status
  <2> QED
    BY <1>2, <1>3, <2>1 DEF Reservation
<1>4. NoKey \notin Keys
  BY KeysAssumption
<1>5. ASSUME NEW c \in Requests, NEW to, pc' = [pc EXCEPT ![c] = to],
             to \in InFlight \cup {"absent", "rejected", "done", "failed", "dead"}
      PROVE  calls
  BY <1>5 DEF SeatTypeOK
<1> HIDE DEF rows, calls
<1>6. ASSUME NEW c \in Requests, Begin(c) \/ Save(c) \/ SaveFails(c) \/ Deactivate(c)
      PROVE  SeatTypeOK'
  <2>1. calls
    BY <1>5, <1>6 DEF Begin, Save, SaveFails, Deactivate, Moves, InFlight
  <2>2. rest
    BY <1>2, <1>6, KeysAndHolders DEF Begin, Save, SaveFails, Deactivate
  <2>3. counter' = counter /\ rsv' = rsv /\ committing' = committing
    BY <1>6 DEF Begin, Save, SaveFails, Deactivate, vars
  <2> QED
    BY <1>1, <1>2, <2>1, <2>2, <2>3 DEF SeatTypeOK
<1>7. ASSUME NEW c \in Requests, ReserveSeat(c) PROVE SeatTypeOK'
  <2>1. PICK k \in Keys : k = KeyFor(c)
    BY KeysAndHolders
  <2>2. calls /\ rest /\ committing' = NoKey
    BY <1>2, <1>5, <1>7, ReserveSeatCases DEF InFlight
  <2>3. counter' \in [Periods -> Counter]
    BY <1>7, ReserveSeatCases, UpsertedType, InventoryType
  <2>4. Admitted(clock, 1) = [status |-> "RESERVED", period |-> Current, amount |-> 1,
                              expiresAt |-> clock + TTL]
    BY DEF Admitted, Current
  <2>5. Admitted(clock, 1) \in Reservation
    BY <2>4, CurrentType, BoundsAssumption DEF Reservation, Status, Instants
  <2>6. rows([rsv EXCEPT ![k] = Admitted(clock, 1)])
    BY <1>2, <2>4, <2>5 DEF rows
  <2> QED
    BY <1>1, <1>2, <1>4, <1>7, <2>1, <2>2, <2>3, <2>6, ReserveSeatCases
<1>8. ASSUME NEW c \in Requests, ReleaseSeat(c) PROVE SeatTypeOK'
  <2>1. PICK k \in Keys : k = KeyFor(c)
    BY KeysAndHolders
  <2>2. calls /\ rest
    BY <1>2, <1>5, <1>8 DEF ReleaseSeat, Moves, InFlight
  <2>3. counter' = counter /\ committing' = committing
    BY <1>8 DEF ReleaseSeat, Release, vars
  <2>4. rsv' = rsv \/ (rsv[k].status # "ABSENT" /\ rsv' = [rsv EXCEPT ![k].status = "RELEASED"])
    BY <1>8, <2>1 DEF ReleaseSeat, Release, vars
  <2>5. rows(rsv')
    BY <1>2, <1>3, <2>4
  <2>6. lock
    BY <1>2, <2>3, <2>4 DEF SeatTypeOK, Reservation
  <2> QED
    BY <1>1, <1>2, <2>2, <2>3, <2>5, <2>6
<1>9. ASSUME NEW c \in Requests, CommitSeat(c) PROVE SeatTypeOK'
  <2>1. calls /\ rest /\ counter' = counter /\ rsv' = rsv
    BY <1>2, <1>5, <1>9 DEF CommitSeat, CommitRead, Moves, InFlight, vars
  <2>2. lock
    BY <1>2, <1>9, KeysAndHolders DEF CommitSeat, CommitRead, vars, SeatTypeOK
  <2> QED
    BY <1>1, <1>2, <2>1, <2>2
<1>10. ASSUME NEW c \in Requests, WriteSeat(c) PROVE SeatTypeOK'
  <2>1. calls /\ rest /\ committing' = NoKey
    BY <1>2, <1>5, <1>10 DEF WriteSeat, CommitWrite, Moves, InFlight
  <2>2. rows(rsv')
    BY <1>3, <1>10, WriteSeatEffect DEF SeatTypeOK
  <2>3. counter' \in [Periods -> Counter]
    <3>1. counter[Current] \in Counter
      BY <1>2, CurrentType
    <3>2. [counter[Current] EXCEPT !.value = counter[Current].value + 1] \in Counter
      BY <3>1 DEF Counter
    <3>3. counter' = [counter EXCEPT ![Current] =
                         [counter[Current] EXCEPT !.value = counter[Current].value + 1]]
      BY <1>2, <1>10, WriteSeatEffect, CurrentType
    <3> QED
      BY <1>2, <3>2, <3>3
  <2> QED
    BY <1>1, <1>4, <2>1, <2>2, <2>3
<1>11. ASSUME NEW c \in Requests, Synchronize(c) PROVE SeatTypeOK'
  <2>1. calls /\ rest /\ rsv' = rsv /\ committing' = committing
    BY <1>2, <1>5, <1>11 DEF Synchronize, Moves, InFlight
  <2>2. counter' \in [Periods -> Counter]
    <3>1. PICK n \in Nat : n = Inventory
      BY InventoryType
    <3> QED
      BY <1>11, <3>1, UpsertedType DEF Synchronize
  <2> QED
    BY <1>1, <1>2, <2>1, <2>2 DEF SeatTypeOK
<1>12. ASSUME NEW c \in Requests, Die(c) PROVE SeatTypeOK'
  <2>1. calls /\ rest /\ counter' = counter /\ rsv' = rsv
    BY <1>2, <1>5, <1>12 DEF Die, CommitAbort, vars
  <2>2. committing' \in {committing, NoKey}
    BY <1>12 DEF Die, CommitAbort, vars
  <2> QED
    BY <1>1, <1>2, <1>4, <2>1, <2>2 DEF SeatTypeOK
<1>13. ASSUME NEW k \in Keys, Lapse(k) PROVE SeatTypeOK'
  <2>1. /\ counter' = counter /\ committing' = committing /\ pc' = pc /\ rest
        /\ rsv[k].status # "ABSENT" /\ rsv' = [rsv EXCEPT ![k].status = "EXPIRED"]
    BY <1>2, <1>13 DEF Lapse
  <2>2. lock
    BY <1>2, <2>1 DEF SeatTypeOK, Reservation
  <2>3. calls
    BY <2>1 DEF SeatTypeOK, calls
  <2> QED
    BY <1>1, <1>2, <1>3, <2>1, <2>2, <2>3
<1>14. ASSUME (\E u \in Users : Provision(u)) \/ ReadInventory \/ UNCHANGED seatingVars
      PROVE  SeatTypeOK'
  <2>1. counter' = counter /\ rsv' = rsv /\ committing' = committing /\ pc' = pc /\ rest
    BY <1>2, <1>14, InventoryType DEF Provision, ReadInventory, seatingVars, seatVars, vars
  <2>2. calls
    BY <2>1 DEF SeatTypeOK, calls
  <2> QED
    BY <1>1, <1>2, <2>1, <2>2 DEF SeatTypeOK
<1>15. CASE Repair
  <2>1. /\ repair \in Nat /\ counter' = Written(repair)
        /\ rsv' = rsv /\ committing' = committing /\ pc' = pc /\ rest
    BY <1>2, <1>15 DEF Repair
  <2>2. calls
    BY <2>1 DEF SeatTypeOK, calls
  <2>3. counter' \in [Periods -> Counter]
    <3>1. PICK n \in Nat : n = repair
      BY <2>1
    <3> QED
      BY <2>1, <3>1, UpsertedType
  <2> QED
    BY <1>1, <1>2, <2>1, <2>2, <2>3 DEF SeatTypeOK
<1> QED
  BY <1>6, <1>7, <1>8, <1>9, <1>10, <1>11, <1>12, <1>13, <1>14, <1>15 DEF SeatNext, SeatCall

----------------------------------------------------------------------------
\* Calls keep their holds to themselves, as long as nothing leaks.
LEMMA HoldsStayOwn ==
    ASSUME SeatTypeOK, HoldsAreOwn, leaks' = {}, [SeatNext]_seatingVars
    PROVE  HoldsAreOwn'
<1>0. /\ NoKey \notin Keys
      /\ \A c \in Requests : KeyFor(c) \in Keys /\ HolderOf(KeyFor(c)) = UserOf[c]
      /\ \A c, d \in Requests : UserOf[c] = UserOf[d] /\ OpOf[c] # "deactivate" /\ OpOf[d] # "deactivate"
            => KeyFor(c) = KeyFor(d)
      /\ \A c, d \in Requests : UserOf[c] = UserOf[d] /\ OpOf[c] = "create" /\ OpOf[d] # "deactivate" => c = d
      /\ OpOf \in [Requests -> {"create", "activate", "deactivate"}]
  BY KeysAssumption, KeysAndHolders, SameUserSameKey, RequestsAssumption
<1>1. /\ rsv \in [Keys -> Reservation] /\ committing \in Keys \cup {NoKey} /\ seats \subseteq Users
      /\ pc \in [Requests -> InFlight \cup {"absent", "rejected", "done", "failed", "dead"}]
  BY DEF SeatTypeOK
<1>2. ASSUME NEW c \in Requests, Begin(c) PROVE HoldsAreOwn'
  <2>1. PICK to \in {"reserving", "rejected"} : pc' = [pc EXCEPT ![c] = to]
    BY <1>2 DEF Begin, Moves
  <2>2. /\ pc[c] = "absent" /\ OpOf[c] # "deactivate"
        /\ to = "reserving" => UserOf[c] \notin seats
    BY <1>0, <1>1, <1>2, <2>1 DEF Begin, Moves, HoldsAreOwn
  <2>3. rsv' = rsv /\ seats' = seats /\ committing' = committing
    BY <1>2 DEF Begin, vars
  <2> QED
    BY <1>0, <1>1, <2>1, <2>2, <2>3 DEF HoldsAreOwn, Owns, Held
<1>3. ASSUME NEW c \in Requests, ReserveSeat(c) PROVE HoldsAreOwn'
  <2>1. pc[c] = "reserving" /\ committing = NoKey /\ committing' = NoKey /\ seats' = seats
    BY <1>3, ReserveSeatCases
  <2>2. CASE rsv' = rsv /\ pc' = [pc EXCEPT ![c] = "rejected"]
    BY <1>0, <1>1, <2>1, <2>2 DEF HoldsAreOwn, Owns, Held
  <2>3. CASE /\ rsv[KeyFor(c)].status \notin {"RESERVED", "COMMITTED"}
             /\ rsv' = [rsv EXCEPT ![KeyFor(c)] = Admitted(clock, 1)]
             /\ pc' = [pc EXCEPT ![c] = "saving"]
    <3>1. Admitted(clock, 1).status = "RESERVED"
      BY DEF Admitted
    <3>2. \A k \in Keys : rsv'[k] = IF k = KeyFor(c) THEN Admitted(clock, 1) ELSE rsv[k]
      BY <1>0, <1>1, <2>3
    <3>3. \A d \in Requests : Owns(d) => KeyFor(d) # KeyFor(c)
      BY <2>3 DEF HoldsAreOwn, Held
    <3>4. UserOf[c] \notin seats /\ OpOf[c] # "deactivate"
      BY <2>1, <2>3 DEF HoldsAreOwn
    <3> QED
      BY <1>0, <1>1, <2>1, <2>3, <3>1, <3>2, <3>3, <3>4 DEF HoldsAreOwn, Owns, Held
  <2> QED
    BY <1>3, <2>2, <2>3, ReserveSeatCases
<1>4. ASSUME NEW c \in Requests, Save(c) PROVE HoldsAreOwn'
  <2>1. /\ pc[c] = "saving" /\ pc' = [pc EXCEPT ![c] = "committing"]
        /\ seats' = seats \cup {UserOf[c]} /\ rsv' = rsv /\ committing' = committing
    BY <1>4 DEF Save, Moves, vars
  <2>2. OpOf[c] # "deactivate" /\ Owns(c) /\ Held(KeyFor(c))
    BY <2>1 DEF HoldsAreOwn, Owns
  <2>3. \A d \in Requests : UserOf[d] = UserOf[c] /\ pc[d] \in {"saving", "releasing"} => d = c
    BY <1>0, <2>2 DEF HoldsAreOwn, Owns
  <2>4. \A d \in Requests : UserOf[d] = UserOf[c] /\ pc[d] = "reserving" => KeyFor(d) = KeyFor(c)
    BY <1>0, <2>2 DEF HoldsAreOwn
  <2>5. \A d \in Requests : UserOf[d] = UserOf[c] /\ OpOf[d] = "create" => d = c
    BY <1>0, <2>2
  <2> QED
    BY <1>0, <1>1, <2>1, <2>2, <2>3, <2>4, <2>5 DEF HoldsAreOwn, Owns, Held
<1>5. ASSUME NEW c \in Requests, SaveFails(c) PROVE HoldsAreOwn'
  BY <1>0, <1>1, <1>5 DEF SaveFails, Moves, vars, HoldsAreOwn, Owns, Held
<1>6. ASSUME NEW c \in Requests, ReleaseSeat(c) PROVE HoldsAreOwn'
  <2>1. /\ pc[c] = "releasing" /\ pc' = [pc EXCEPT ![c] = "failed"]
        /\ seats' = seats /\ committing' = committing
    BY <1>6 DEF ReleaseSeat, Release, Moves, vars
  <2>2. Held(KeyFor(c)) /\ UserOf[c] \notin seats /\ OpOf[c] # "deactivate"
    BY <2>1 DEF HoldsAreOwn, Owns
  <2>3. rsv' = [rsv EXCEPT ![KeyFor(c)].status = "RELEASED"]
    BY <1>6, <2>2 DEF ReleaseSeat, Release, Held
  <2>4. \A k \in Keys \ {KeyFor(c)} : rsv'[k] = rsv[k]
    BY <1>0, <1>1, <2>3
  <2>5. \A d \in Requests \ {c} : Owns(d) => KeyFor(d) # KeyFor(c)
    BY <2>1 DEF HoldsAreOwn, Owns
  <2>6. \A d \in Requests : pc[d] = "reserving" /\ UserOf[d] \in seats => KeyFor(d) # KeyFor(c)
    BY <1>0, <2>2
  <2> QED
    BY <1>0, <1>1, <2>1, <2>2, <2>4, <2>5, <2>6 DEF HoldsAreOwn, Owns, Held
<1>7. ASSUME NEW c \in Requests, CommitSeat(c) PROVE HoldsAreOwn'
  <2>1. pc[c] = "committing" /\ rsv' = rsv /\ seats' = seats
    BY <1>7 DEF CommitSeat, CommitRead, Moves, vars
  <2>2. /\ committing = NoKey /\ committing' = KeyFor(c) /\ pc' = [pc EXCEPT ![c] = "writing"]
    BY <1>7, <2>1 DEF CommitSeat, CommitRead, LockFree, Moves, HoldsAreOwn, Owns, Held
  <2> QED
    BY <1>0, <1>1, <2>1, <2>2 DEF HoldsAreOwn, Owns, Held
<1>8. ASSUME NEW c \in Requests, WriteSeat(c) PROVE HoldsAreOwn'
  <2>1. /\ pc[c] = "writing" /\ pc' = [pc EXCEPT ![c] = "done"] /\ committing = KeyFor(c)
        /\ committing' = NoKey /\ seats' = seats /\ rsv' = [rsv EXCEPT ![KeyFor(c)].status = "COMMITTED"]
    BY <1>8, WriteSeatEffect DEF WriteSeat, CommitWrite, Moves, HoldsAreOwn
  <2>2. \A k \in Keys \ {KeyFor(c)} : rsv'[k] = rsv[k]
    BY <1>0, <1>1, <2>1
  <2>3. rsv'[KeyFor(c)].status = "COMMITTED"
    BY <1>0, <1>1, <2>1 DEF Reservation
  <2>4. \A d \in Requests \ {c} : Owns(d) => KeyFor(d) # KeyFor(c)
    BY <2>1 DEF HoldsAreOwn, Owns
  <2>5. OpOf[c] # "deactivate"
    BY <2>1 DEF HoldsAreOwn
  <2> QED
    BY <1>0, <1>1, <2>1, <2>2, <2>3, <2>4, <2>5 DEF HoldsAreOwn, Owns, Held
<1>9. ASSUME NEW c \in Requests, Deactivate(c) \/ Synchronize(c) PROVE HoldsAreOwn'
  <2>1. \/ OpOf[c] = "deactivate" /\ pc[c] = "absent" /\ pc' = [pc EXCEPT ![c] = "syncing"]
        \/ pc[c] = "syncing" /\ pc' = [pc EXCEPT ![c] = "done"]
    BY <1>9 DEF Deactivate, Synchronize, Moves
  <2>2. seats' \subseteq seats /\ rsv' = rsv /\ committing' = committing
    BY <1>9 DEF Deactivate, Synchronize, vars
  <2> QED
    BY <1>0, <1>1, <2>1, <2>2 DEF HoldsAreOwn, Owns, Held
<1>10. ASSUME NEW c \in Requests, Die(c) PROVE HoldsAreOwn'
  <2>1. /\ pc' = [pc EXCEPT ![c] = "dead"] /\ seats' = seats /\ rsv' = rsv
        /\ IF pc[c] = "writing" THEN committing' = NoKey ELSE committing' = committing
    BY <1>10 DEF Die, CommitAbort, vars
  <2>2. \A d \in Requests : pc[c] = "writing" /\ pc[d] = "writing" => d = c
    BY DEF HoldsAreOwn, Owns
  <2> QED
    BY <1>0, <1>1, <2>1, <2>2 DEF HoldsAreOwn, Owns, Held
<1>11. ASSUME NEW k \in Keys, Lapse(k) PROVE HoldsAreOwn'
  <2>1. /\ Held(k) /\ HolderOf(k) \notin seats /\ rsv' = [rsv EXCEPT ![k].status = "EXPIRED"]
        /\ pc' = pc /\ seats' = seats /\ committing' = committing
        /\ \A c \in Requests : KeyFor(c) = k => ~Owns(c)
    BY <1>11 DEF Lapse, Held, Owns, InFlight
  <2>2. \A j \in Keys \ {k} : rsv'[j] = rsv[j]
    BY <1>1, <2>1
  <2> QED
    BY <1>0, <1>1, <2>1, <2>2 DEF HoldsAreOwn, Owns, Held
<1>12. ASSUME NEW u \in Users, Provision(u) PROVE HoldsAreOwn'
  BY <1>12 DEF Provision
<1>13. CASE ReadInventory \/ Repair \/ UNCHANGED seatingVars
  <2>1. pc' = pc /\ rsv' = rsv /\ seats' = seats /\ committing' = committing
    BY <1>13 DEF ReadInventory, Repair, seatingVars, seatVars, vars
  <2> QED
    BY <2>1 DEF HoldsAreOwn, Owns, Held
<1> QED
  BY <1>2, <1>3, <1>4, <1>5, <1>6, <1>7, <1>8, <1>9, <1>10, <1>11, <1>12, <1>13 DEF SeatNext, SeatCall

----------------------------------------------------------------------------
\* Fewer users are no more users.
LEMMA FewerUsers ==
    ASSUME NEW A, NEW B, B \subseteq Users, A \subseteq B
    PROVE  Cardinality(A) \in Nat /\ Cardinality(B) \in Nat /\ Cardinality(A) <= Cardinality(B)
<1>1. IsFiniteSet(B) /\ IsFiniteSet(A)
  BY RequestsAssumption, FS_Subset
<1> QED
  BY <1>1, FS_Subset, FS_CardinalityType

\* One more user is one more at most.
LEMMA OneMoreUser ==
    ASSUME NEW A, NEW B, NEW u \in Users, A \subseteq Users, B \subseteq A \cup {u}
    PROVE  Cardinality(B) <= Cardinality(A) + 1
<1>1. IsFiniteSet(A)
  BY RequestsAssumption, FS_Subset
<1>2. Cardinality(A) \in Nat /\ (u \notin A => Cardinality(A \cup {u}) = Cardinality(A) + 1)
  BY <1>1, FS_AddElement, FS_CardinalityType
<1>3. u \in A => A \cup {u} = A
  OBVIOUS
<1>4. Cardinality(A \cup {u}) <= Cardinality(A) + 1
  <2>1. CASE u \in A
    BY <1>2, <1>3, <2>1
  <2>2. CASE u \notin A
    BY <1>2, <2>2
  <2> QED
    BY <2>1, <2>2
<1>5. Cardinality(B) <= Cardinality(A \cup {u}) /\ Cardinality(B) \in Nat /\ Cardinality(A \cup {u}) \in Nat
  BY FewerUsers
<1> QED
  BY <1>2, <1>4, <1>5

\* Live holds are for one seat each, and stand for no more users than they are.
LEMMA HoldsStandForUsers ==
    ASSUME SeatTypeOK
    PROVE  /\ Sum(rsv, LiveHolds) = Cardinality(LiveHolds) /\ IsFiniteSet(LiveHolds)
           /\ {HolderOf(k) : k \in LiveHolds} \subseteq Users
           /\ Cardinality({HolderOf(k) : k \in LiveHolds}) <= Cardinality(LiveHolds)
           /\ Cardinality(LiveHolds) \in Nat /\ Cardinality({HolderOf(k) : k \in LiveHolds}) \in Nat
<1>1. LiveHolds \subseteq Keys /\ \A k \in LiveHolds : rsv[k].amount = 1
  BY DEF LiveHolds, InPeriod, SeatTypeOK
<1> DEFINE held == {HolderOf(k) : k \in LiveHolds}
           f == [k \in LiveHolds |-> HolderOf(k)]
<1>2. IsFiniteSet(LiveHolds) /\ Cardinality(LiveHolds) \in Nat
  BY <1>1, KeysAssumption, FS_Subset, FS_CardinalityType
<1>3. Sum(rsv, LiveHolds) = Cardinality(LiveHolds)
  <2>1. Units(rsv, LiveHolds) = LiveHolds \X {1}
    BY <1>1, BoundsAssumption DEF Units
  <2>2. IsFiniteSet({1}) /\ Cardinality({1}) = 1
    BY FS_Singleton
  <2>3. Cardinality(LiveHolds \X {1}) = Cardinality(LiveHolds) * Cardinality({1})
    BY <1>2, <2>2, FS_Product
  <2> QED
    BY <1>2, <2>1, <2>2, <2>3 DEF Sum
<1>4. held \subseteq Users
  BY <1>1, RequestsAssumption DEF HolderOf
<1>5. f \in Surjection(LiveHolds, held)
  BY DEF Surjection
<1>6. Cardinality(held) <= Cardinality(LiveHolds)
  BY <1>2, <1>5, FS_Surjection
<1>7. Cardinality(held) \in Nat
  BY <1>4, FewerUsers
<1> QED
  BY <1>1, <1>2, <1>3, <1>4, <1>6, <1>7

\* What a step does to the seats and the holds, as far as BareIsCounted and
\* ClaimsWithinLimit are concerned: a seat is taken under a hold only, a hold
\* ends only with its seat counted or without a seat.
LEMMA SeatMoves ==
    ASSUME SeatTypeOK, HoldsAreOwn, leaks' = {}, [SeatNext]_seatingVars
    PROVE  \/ /\ \A u \in seats' \ seats : \E k \in Keys : HolderOf(k) = u /\ Held(k)
              /\ \A k \in Keys : Held(k) /\ ~Held(k)' => HolderOf(k) \notin seats'
              /\ \A k \in Keys : Held(k)' => Held(k)
              /\ \/ counter' = counter
                 \/ counter'[Current].exists /\ counter'[Current].value = Inventory'
           \/ /\ \E k \in Keys : rsv' = [rsv EXCEPT ![k].status = "COMMITTED"]
              /\ seats' = seats
              /\ counter' = [counter EXCEPT ![Current].value = counter[Current].value + 1]
           \/ \E c \in Requests : ReserveSeat(c)
<1>0. \A c \in Requests : KeyFor(c) \in Keys /\ HolderOf(KeyFor(c)) = UserOf[c]
  BY KeysAndHolders
<1>1. rsv \in [Keys -> Reservation]
  BY DEF SeatTypeOK
<1>2. ASSUME NEW c \in Requests, Save(c)
      PROVE  /\ \A u \in seats' \ seats : \E k \in Keys : HolderOf(k) = u /\ Held(k)
             /\ rsv' = rsv /\ counter' = counter
  BY <1>0, <1>2 DEF Save, Moves, vars, HoldsAreOwn, Owns
<1>3. ASSUME NEW c \in Requests, ReleaseSeat(c)
      PROVE  /\ UserOf[c] \notin seats /\ seats' = seats /\ counter' = counter
             /\ rsv' = rsv \/ rsv' = [rsv EXCEPT ![KeyFor(c)].status = "RELEASED"]
  BY <1>3 DEF ReleaseSeat, Release, Moves, vars, HoldsAreOwn
<1>4. ASSUME NEW c \in Requests, WriteSeat(c)
      PROVE  /\ \E k \in Keys : rsv' = [rsv EXCEPT ![k].status = "COMMITTED"]
             /\ seats' = seats
             /\ counter' = [counter EXCEPT ![Current].value = counter[Current].value + 1]
  BY <1>4, WriteSeatEffect DEF WriteSeat
<1>5. ASSUME NEW c \in Requests,
             Begin(c) \/ SaveFails(c) \/ CommitSeat(c) \/ Deactivate(c) \/ Die(c)
      PROVE  seats' \subseteq seats /\ rsv' = rsv /\ counter' = counter
  BY <1>5 DEF Begin, SaveFails, CommitSeat, CommitRead, Deactivate, Die, CommitAbort, vars
<1>6. ASSUME NEW c \in Requests, Synchronize(c)
      PROVE  seats' = seats /\ rsv' = rsv /\ counter'[Current].exists /\ counter'[Current].value = Inventory'
  <2>1. PICK n \in Nat : n = Inventory
    BY InventoryType
  <2>2. seats' = seats /\ rsv' = rsv /\ counter' = Written(n)
    BY <1>6, <2>1 DEF Synchronize
  <2> QED
    BY <2>1, <2>2, UpsertedType DEF Inventory
<1>7. ASSUME NEW k \in Keys, Lapse(k)
      PROVE  /\ HolderOf(k) \notin seats /\ seats' = seats /\ counter' = counter
             /\ rsv' = [rsv EXCEPT ![k].status = "EXPIRED"]
  BY <1>7 DEF Lapse
<1>8. CASE Repair
  <2>1. repair = Inventory /\ repair \in Nat
    BY <1>8 DEF Repair, SeatTypeOK
  <2>2. PICK n \in Nat : n = repair
    BY <2>1
  <2>3. seats' = seats /\ rsv' = rsv /\ counter' = Written(n)
    BY <1>8, <2>2 DEF Repair
  <2>4. counter'[Current].exists /\ counter'[Current].value = Inventory'
    BY <2>1, <2>2, <2>3, UpsertedType DEF Inventory
  <2> QED
    BY <2>3, <2>4 DEF Held
<1>9. CASE ReadInventory \/ UNCHANGED seatingVars
  BY <1>9 DEF ReadInventory, seatingVars, seatVars, vars, Held
<1>10. ASSUME NEW k \in Keys, NEW st, st # "RESERVED", rsv' = [rsv EXCEPT ![k].status = st],
              HolderOf(k) \notin seats, seats' = seats
       PROVE  /\ \A j \in Keys : Held(j) /\ ~Held(j)' => HolderOf(j) \notin seats'
              /\ \A j \in Keys : Held(j)' => Held(j)
  <2>1. \A j \in Keys \ {k} : rsv'[j] = rsv[j]
    BY <1>1, <1>10
  <2>2. rsv'[k] = [rsv[k] EXCEPT !.status = st] /\ rsv[k] \in Reservation
    BY <1>1, <1>10
  <2>3. rsv'[k].status = st
    BY <2>2 DEF Reservation
  <2> QED
    BY <1>10, <2>1, <2>3 DEF Held
<1>11. ASSUME NEW u \in Users, Provision(u) PROVE FALSE
  BY <1>11 DEF Provision
<1>12. ASSUME NEW c \in Requests, SeatCall(c), ~ReserveSeat(c), ~WriteSeat(c)
       PROVE  /\ \A u \in seats' \ seats : \E k \in Keys : HolderOf(k) = u /\ Held(k)
              /\ \A k \in Keys : Held(k) /\ ~Held(k)' => HolderOf(k) \notin seats'
              /\ \A k \in Keys : Held(k)' => Held(k)
              /\ \/ counter' = counter
                 \/ counter'[Current].exists /\ counter'[Current].value = Inventory'
  <2>1. CASE ReleaseSeat(c)
    BY <1>0, <1>3, <1>10, <2>1 DEF Held
  <2>2. CASE Save(c)
    BY <1>2, <2>2 DEF Held
  <2>3. CASE Synchronize(c)
    BY <1>6, <2>3 DEF Held
  <2>4. CASE Begin(c) \/ SaveFails(c) \/ CommitSeat(c) \/ Deactivate(c) \/ Die(c)
    BY <1>5, <2>4 DEF Held
  <2> QED
    BY <1>12, <2>1, <2>2, <2>3, <2>4 DEF SeatCall
<1>13. ASSUME NEW k \in Keys, Lapse(k)
       PROVE  /\ \A j \in Keys : Held(j) /\ ~Held(j)' => HolderOf(j) \notin seats'
              /\ \A j \in Keys : Held(j)' => Held(j)
  BY <1>7, <1>10, <1>13
<1> QED
  BY <1>4, <1>7, <1>8, <1>9, <1>11, <1>12, <1>13 DEF SeatNext

\* The counter keeps up with the seats no hold stands for.
LEMMA BareStaysCounted ==
    ASSUME SeatTypeOK, SeatTypeOK', HoldsAreOwn, BareIsCounted, leaks' = {}, [SeatNext]_seatingVars
    PROVE  BareIsCounted'
<1>0. /\ Current' = Current /\ Current \in Periods /\ counter \in [Periods -> Counter]
      /\ rsv \in [Keys -> Reservation] /\ \A k \in Keys : HolderOf(k) \in Users
      /\ seats \subseteq Users /\ seats' \subseteq Users
  BY SeatsStandStill, CurrentType, RequestsAssumption DEF SeatTypeOK, HolderOf
<1>1. Bare \subseteq Users /\ Bare' \subseteq Users /\ Bare \subseteq seats /\ Bare' \subseteq seats'
  BY <1>0 DEF Bare
<1>2. Cardinality(Bare) \in Nat /\ Cardinality(Bare') \in Nat
  BY <1>1, FewerUsers
<1>3. counter[Current].value \in Nat
  BY <1>0 DEF Counter
<1>4. CASE /\ \A u \in seats' \ seats : \E k \in Keys : HolderOf(k) = u /\ Held(k)
           /\ \A k \in Keys : Held(k) /\ ~Held(k)' => HolderOf(k) \notin seats'
           /\ \A k \in Keys : Held(k)' => Held(k)
           /\ \/ counter' = counter
              \/ counter'[Current].exists /\ counter'[Current].value = Inventory'
  <2>1. Bare' \subseteq Bare
    BY <1>4 DEF Bare
  <2>2. Cardinality(Bare') <= Cardinality(Bare) /\ Cardinality(Bare') <= Cardinality(seats')
    BY <1>0, <1>1, <2>1, FewerUsers
  <2> QED
    BY <1>0, <1>2, <1>3, <1>4, <2>2 DEF BareIsCounted, Inventory
<1>5. CASE /\ \E k \in Keys : rsv' = [rsv EXCEPT ![k].status = "COMMITTED"]
           /\ seats' = seats
           /\ counter' = [counter EXCEPT ![Current].value = counter[Current].value + 1]
  <2>1. PICK k \in Keys : rsv' = [rsv EXCEPT ![k].status = "COMMITTED"]
    BY <1>5
  <2>2. \A j \in Keys \ {k} : rsv'[j] = rsv[j]
    BY <1>0, <2>1
  <2>3. Bare' \subseteq Bare \cup {HolderOf(k)}
    BY <1>5, <2>2 DEF Bare, Held
  <2>4. Cardinality(Bare') <= Cardinality(Bare) + 1
    BY <1>0, <1>1, <2>3, OneMoreUser
  <2>5. /\ counter'[Current].value = counter[Current].value + 1
        /\ counter'[Current].exists = counter[Current].exists
    BY <1>0, <1>5 DEF Counter
  <2> QED
    BY <1>0, <1>2, <1>3, <2>4, <2>5 DEF BareIsCounted
<1>6. ASSUME NEW c \in Requests, ReserveSeat(c) PROVE BareIsCounted'
  <2>1. PICK n \in Nat : n = Inventory
    BY InventoryType
  <2>2. seats' = seats /\ counter' = Upserted(clock, n)
    BY <1>6, <2>1, ReserveSeatCases
  <2>3. counter'[Current].value = IF counter[Current].exists THEN counter[Current].value ELSE n
    BY <2>2, UpsertedType
  <2>4. \A k \in Keys : Held(k) => Held(k)'
    <3>1. rsv' = rsv \/ (~Held(KeyFor(c)) /\ rsv' = [rsv EXCEPT ![KeyFor(c)] = Admitted(clock, 1)])
      BY <1>6, ReserveSeatCases DEF Held
    <3> QED
      BY <1>0, <3>1 DEF Held
  <2>5. Bare' \subseteq Bare
    BY <2>2, <2>4 DEF Bare
  <2>6. Cardinality(Bare') <= Cardinality(Bare) /\ Cardinality(Bare) <= Inventory
    BY <1>0, <1>1, <2>5, FewerUsers DEF Inventory
  <2> QED
    BY <1>0, <1>2, <1>3, <2>1, <2>3, <2>6 DEF BareIsCounted
<1> QED
  BY <1>4, <1>5, <1>6, SeatMoves

\* Live holds and held keys are the same: all rows are of the current period.
LEMMA LiveHoldsAreHeld ==
    ASSUME SeatTypeOK
    PROVE  LiveHolds = {k \in Keys : Held(k)}
  BY DEF SeatTypeOK, LiveHolds, InPeriod, Held

\* Seats and holds together stay within the limit: a new hold is let in only on
\* top of what is counted and what is held, which covers every seat.
LEMMA ClaimsStayWithin ==
    ASSUME SeatTypeOK, SeatTypeOK', HoldsAreOwn, BareIsCounted, ClaimsWithinLimit, leaks' = {},
           [SeatNext]_seatingVars
    PROVE  ClaimsWithinLimit'
<1>0. /\ quota' = quota /\ quota.hardLimit \in Nat
      /\ rsv \in [Keys -> Reservation] /\ \A k \in Keys : HolderOf(k) \in Users
      /\ seats \subseteq Users /\ seats' \subseteq Users
  BY SeatsStandStill, CurrentType, RequestsAssumption DEF SeatTypeOK, HolderOf
<1>1. LiveHolds = {k \in Keys : Held(k)} /\ LiveHolds' = {k \in Keys : Held(k)'}
  BY LiveHoldsAreHeld DEF SeatTypeOK, LiveHolds, InPeriod, Held
<1>2. Claimants \subseteq Users /\ Claimants' \subseteq Users
  BY <1>0, <1>1 DEF Claimants
<1>3. ASSUME Claimants' \subseteq Claimants PROVE ClaimsWithinLimit'
  <2>1. /\ Cardinality(Claimants) \in Nat /\ Cardinality(Claimants') \in Nat
        /\ Cardinality(Claimants') <= Cardinality(Claimants)
    BY <1>2, <1>3, FewerUsers
  <2> QED
    BY <1>0, <2>1 DEF ClaimsWithinLimit
<1>4. CASE /\ \A u \in seats' \ seats : \E k \in Keys : HolderOf(k) = u /\ Held(k)
           /\ \A k \in Keys : Held(k)' => Held(k)
  <2>1. Claimants' \subseteq Claimants
    BY <1>1, <1>4 DEF Claimants
  <2> QED
    BY <1>3, <2>1
<1>5. CASE (\E k \in Keys : rsv' = [rsv EXCEPT ![k].status = "COMMITTED"]) /\ seats' = seats
  <2>1. PICK k \in Keys : rsv' = [rsv EXCEPT ![k].status = "COMMITTED"]
    BY <1>5
  <2>2. \A j \in Keys \ {k} : rsv'[j] = rsv[j]
    BY <1>0, <2>1
  <2>3. rsv'[k] = [rsv[k] EXCEPT !.status = "COMMITTED"] /\ rsv[k] \in Reservation
    BY <1>0, <2>1
  <2>4. rsv'[k].status = "COMMITTED"
    BY <2>3 DEF Reservation
  <2>5. Claimants' \subseteq Claimants
    BY <1>1, <1>5, <2>2, <2>4 DEF Claimants, Held
  <2> QED
    BY <1>3, <2>5
<1>6. ASSUME NEW c \in Requests, ReserveSeat(c) PROVE ClaimsWithinLimit'
  <2>1. seats' = seats
    BY <1>6, ReserveSeatCases
  <2>2. CASE rsv' = rsv
    BY <1>1, <1>3, <2>1, <2>2 DEF Claimants, Held
  <2>3. CASE rsv' # rsv
    <3> DEFINE held == {HolderOf(k) : k \in LiveHolds}
    <3>1. PICK k \in Keys, n \in Nat : k = KeyFor(c) /\ n = Inventory
      BY KeysAndHolders, InventoryType
    <3>2. /\ rsv' = [rsv EXCEPT ![k] = Admitted(clock, 1)]
          /\ Upserted(clock, n)[Current].value + Sum(rsv, LiveHolds) + 1 <= quota.hardLimit
      BY <1>6, <2>3, <3>1, ReserveSeatCases
    <3>3. Claimants' \subseteq Bare \cup held \cup {HolderOf(k)}
      <4>1. \A j \in Keys \ {k} : rsv'[j] = rsv[j]
        BY <1>0, <3>2
      <4>2. seats \subseteq Bare \cup held
        BY <1>1 DEF Bare
      <4> QED
        BY <1>1, <2>1, <4>1, <4>2 DEF Claimants, Held
    <3>4. Bare \subseteq Users /\ held \subseteq Users /\ HolderOf(k) \in Users
      BY <1>0, <1>1 DEF Bare
    <3>5. Cardinality(Claimants') <= Cardinality(Bare) + Cardinality(held) + 1
      <4>1. IsFiniteSet(Bare) /\ IsFiniteSet(held)
        BY <3>4, RequestsAssumption, FS_Subset
      <4>2. Cardinality(Bare \cup held) <= Cardinality(Bare) + Cardinality(held)
        <5>1. /\ Cardinality(Bare \cup held)
                   = Cardinality(Bare) + Cardinality(held) - Cardinality(Bare \cap held)
              /\ Cardinality(Bare \cap held) \in Nat
          <6> HIDE DEF held
          <6>1. IsFiniteSet(Bare \cap held)
            BY <4>1, FS_Subset
          <6> QED
            BY <4>1, <6>1, FS_Union, FS_CardinalityType
        <5>2. Cardinality(Bare) \in Nat /\ Cardinality(held) \in Nat
          BY <4>1, FS_CardinalityType
        <5> HIDE DEF held
        <5> QED
          BY <5>1, <5>2
      <4>3. Cardinality(Claimants') <= Cardinality(Bare \cup held) + 1
        BY <3>3, <3>4, OneMoreUser
      <4>4. /\ Cardinality(Bare) \in Nat /\ Cardinality(held) \in Nat
            /\ Cardinality(Bare \cup held) \in Nat /\ Cardinality(Claimants') \in Nat
        BY <1>2, <3>4, FewerUsers
      <4> HIDE DEF held
      <4> QED
        BY <4>2, <4>3, <4>4
    <3>6. Cardinality(Bare) <= Upserted(clock, n)[Current].value
      <4>1. Cardinality(Bare) <= n /\ Cardinality(Bare) \in Nat
        BY <1>0, <3>1, FewerUsers DEF Bare, Inventory
      <4> QED
        BY <4>1, UpsertedType DEF BareIsCounted
    <3>7. /\ Cardinality(held) <= Sum(rsv, LiveHolds) /\ Sum(rsv, LiveHolds) \in Nat
          /\ Cardinality(held) \in Nat /\ Cardinality(Bare) \in Nat /\ Cardinality(Claimants') \in Nat
      BY <1>2, <3>4, HoldsStandForUsers, FewerUsers
    <3>8. Upserted(clock, n)[Current].value \in Nat
      BY UpsertedType, CurrentType DEF Counter
    <3> HIDE DEF held
    <3>9. Cardinality(Claimants') <= quota.hardLimit
      BY <1>0, <3>2, <3>5, <3>6, <3>7, <3>8
    <3> QED
      BY <1>0, <3>9 DEF ClaimsWithinLimit
  <2> QED
    BY <2>2, <2>3
<1> QED
  BY <1>4, <1>5, <1>6, SeatMoves

----------------------------------------------------------------------------
\* The organization starts with an empty counter and within its limit.
LEMMA SeatInvInit ==
    ASSUME SeatInit
    PROVE  SeatTypeOK /\ SeatInv
<1>1. FirstInstant \in Instants /\ quota \in Quotas
  BY BoundsAssumption DEF SeatInit, Init, Instants
<1>2. PeriodStart(quota, FirstInstant) \in Periods
  BY <1>1, PeriodStartType
<1>3. SeatTypeOK
  BY <1>1, BoundsAssumption, KeysAssumption, RequestsAssumption
     DEF SeatTypeOK, SeatInit, Init, Counter, Reservation, Status, Periods, Epoch
<1>4. HoldsAreOwn
  BY KeysAssumption, RequestsAssumption DEF HoldsAreOwn, SeatInit, Init, Owns
<1>5. BareIsCounted
  BY <1>2 DEF BareIsCounted, SeatInit, Init, Current
<1>6. ClaimsWithinLimit
  <2>1. LiveHolds = {}
    BY DEF LiveHolds, InPeriod, SeatInit, Init
  <2>2. Claimants = FirstSeats
    BY <2>1 DEF Claimants, SeatInit
  <2> QED
    BY <1>1, <2>2, SeatLimitAssumption DEF ClaimsWithinLimit
<1> QED
  BY <1>3, <1>4, <1>5, <1>6 DEF SeatInv

\* Every seat is counted or has a hold.
LEMMA InvariantCovers ==
    ASSUME SeatTypeOK, SeatInv
    PROVE  SeatsAreCovered /\ SeatsWithinLimit
<1> DEFINE held == {HolderOf(k) : k \in LiveHolds}
<1>0. seats \subseteq Users /\ \A k \in Keys : HolderOf(k) \in Users
  BY RequestsAssumption DEF SeatTypeOK, HolderOf
<1>1. ASSUME leaks = {}, counter[Current].exists
      PROVE  Inventory <= counter[Current].value + Sum(rsv, Holds)
  <2>1. Cardinality(Bare) <= counter[Current].value /\ counter[Current].value \in Nat
    BY <1>1, CurrentType DEF SeatInv, BareIsCounted, SeatTypeOK, Counter
  <2>2. seats \subseteq Bare \cup held /\ Bare \subseteq Users /\ held \subseteq Users
    BY <1>0, LiveHoldsAreHeld DEF Bare
  <2>3. IsFiniteSet(Bare) /\ IsFiniteSet(held) /\ IsFiniteSet(Bare \cap held)
    BY <2>2, RequestsAssumption, FS_Subset
  <2> HIDE DEF held
  <2>4. /\ Cardinality(Bare \cup held) = Cardinality(Bare) + Cardinality(held) - Cardinality(Bare \cap held)
        /\ Cardinality(Bare \cap held) \in Nat /\ Cardinality(Bare) \in Nat /\ Cardinality(held) \in Nat
    BY <2>3, FS_Union, FS_CardinalityType
  <2>5. Inventory <= Cardinality(Bare \cup held) /\ Inventory \in Nat /\ Cardinality(Bare \cup held) \in Nat
    BY <2>2, FewerUsers DEF Inventory
  <2>6. Cardinality(held) <= Sum(rsv, LiveHolds) /\ Sum(rsv, LiveHolds) \in Nat
    BY HoldsStandForUsers DEF held
  <2>7. Sum(rsv, LiveHolds) <= Sum(rsv, Holds)
    <3>1. LiveHolds \subseteq Holds /\ Holds \subseteq Keys
      BY DEF LiveHolds, InPeriod, Holds
    <3>2. IsFiniteSet(Holds)
      BY <3>1, KeysAssumption, FS_Subset
    <3> QED
      BY <3>1, <3>2, SumMonotone, BoundsAssumption
  <2>8. Sum(rsv, Holds) \in Nat
    <3>1. Holds \subseteq Keys
      BY DEF Holds
    <3> QED
      BY <3>1, UnitsFinite, KeysAssumption, FS_Subset, BoundsAssumption
  <2> QED
    BY <2>1, <2>4, <2>5, <2>6, <2>7, <2>8
<1>2. ASSUME leaks = {} PROVE Inventory <= quota.hardLimit
  <2>1. seats \subseteq Claimants /\ Claimants \subseteq Users
    BY <1>0, LiveHoldsAreHeld DEF Claimants
  <2>2. Inventory <= Cardinality(Claimants) /\ Inventory \in Nat /\ Cardinality(Claimants) \in Nat
    BY <2>1, FewerUsers DEF Inventory
  <2> QED
    BY <1>2, <2>2, CurrentType DEF SeatInv, ClaimsWithinLimit
<1> QED
  BY <1>1, <1>2 DEF SeatsAreCovered, SeatsWithinLimit, Now, Current

\* Types and the seats' invariant, together: what leaks has leaked.
LEMMA SeatInvariant == SeatSpec => [](SeatTypeOK /\ SeatInv)
<1>1. SeatTypeOK /\ SeatInv /\ [SeatNext]_seatingVars => SeatTypeOK' /\ SeatInv'
  <2> SUFFICES ASSUME SeatTypeOK, SeatInv, [SeatNext]_seatingVars PROVE SeatTypeOK' /\ SeatInv'
    OBVIOUS
  <2>1. SeatTypeOK' /\ leaks \subseteq leaks'
    BY SeatTypeStep, SeatsStandStill
  <2> QED
    BY <2>1, HoldsStayOwn, BareStaysCounted, ClaimsStayWithin DEF SeatInv
<1> QED
  BY <1>1, SeatInvInit, PTL DEF SeatSpec

\* Unless a seat leaks in one of the named ways, the counter and the live holds
\* account for every active user, whoever fails, dies or is synchronized.
THEOREM CountersCoverSeats == SeatSpec => []SeatsAreCovered
  BY SeatInvariant, InvariantCovers, PTL

\* And then active users never exceed the hard limit.
THEOREM SeatsStayWithinLimit == SeatSpec => []SeatsWithinLimit
  BY SeatInvariant, InvariantCovers, PTL

=============================================================================
