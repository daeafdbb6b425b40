---------------------------- MODULE SeatMetering ----------------------------
(***************************************************************************)
(* The ledger of ACTIVE_USERS under its client UsersService: create and    *)
(* activate reserve a seat, save the user, commit; deactivate saves, then  *)
(* synchronizes the counter.  Beside them run what changes seats or the    *)
(* counter without a hold: SSO provisioning (OidcService, SamlService) and *)
(* UsageReconciliationService.  Every step is a transaction of its own.    *)
(*                                                                         *)
(* The limit is fixed, and a hold outlives the call it belongs to (15      *)
(* minutes against one request): it lapses only once its call has died.    *)
(***************************************************************************)
EXTENDS QuotaLedger

CONSTANTS
    Requests,    \* calls to UsersService
    OpOf,        \* what each of them is
    UserOf,      \* the user each is about; a create has a user of its own
    Users,
    FirstSeats   \* users active before the first counter exists

\* A create() makes its user: no other call makes or activates that one.
ASSUME RequestsAssumption ==
    /\ IsFiniteSet(Requests) /\ IsFiniteSet(Users) /\ Requests \cap Users = {}
    /\ OpOf \in [Requests -> {"create", "activate", "deactivate"}]
    /\ UserOf \in [Requests -> Users]
    /\ FirstSeats \subseteq Users
    /\ \A c \in Requests : OpOf[c] = "create" =>
          /\ UserOf[c] \notin FirstSeats
          /\ \A d \in Requests \ {c} : OpOf[d] # "deactivate" => UserOf[d] # UserOf[c]
    /\ Keys = Requests \cup Users

\* The limit is in force, and the organization starts within it; a hold lasts.
ASSUME SeatLimitAssumption ==
    /\ TTL > 0
    /\ \A q \in Quotas : q.enforced /\ Cardinality(FirstSeats) <= q.hardLimit

VARIABLES
    seats,       \* users that are active in an active membership
    pc,          \* where each request is
    repair,      \* the inventory reconcile() has read, or NoLimit
    leaks        \* history: the ways a seat has been taken without a check

seatVars == <<seats, pc, repair, leaks>>
seatingVars == <<vars, seatVars>>

Leak == {"reused key", "joined hold", "lapsed hold", "provisioned", "stale repair"}
InFlight == {"reserving", "saving", "committing", "writing", "releasing", "syncing"}

SeatInit ==
    /\ Init
    /\ seats = FirstSeats
    /\ pc = [c \in Requests |-> "absent"]
    /\ repair = NoLimit
    /\ leaks = {}

Moves(c, from, to) == pc[c] = from /\ pc' = [pc EXCEPT ![c] = to]

\* `user:create:${randomUUID()}` is new for every call, `user:activate:${id}`
\* is the same for every activation of one user.
KeyFor(c) == IF OpOf[c] = "create" THEN c ELSE UserOf[c]
HolderOf(k) == IF k \in Users THEN k ELSE UserOf[k]

Inventory == Cardinality(seats)    \* authoritativeInventory(ACTIVE_USERS)
Now == clock

\* activate() refuses a user it reads as active before anything else.
Begin(c) ==
    /\ OpOf[c] \in {"create", "activate"}
    /\ Moves(c, "absent", IF OpOf[c] = "activate" /\ UserOf[c] \in seats
                          THEN "rejected" ELSE "reserving")
    /\ UNCHANGED <<vars, seats, repair, leaks>>

\* MUTANT of ReserveSeat: a new counter starts at zero.
ReserveSeat_NoBaseline(c) ==
    LET outcome == ReserveOutcome(KeyFor(c), 1, Now, 0)
    IN  /\ Moves(c, "reserving", IF outcome = "EXCEEDED" THEN "rejected" ELSE "saving")
        /\ Reserve(KeyFor(c), 1, Now, 0)
        /\ UNCHANGED <<seats, repair, leaks>>

ReserveSeat(c) ==
    LET outcome == ReserveOutcome(KeyFor(c), 1, Now, Inventory)
    IN  /\ Moves(c, "reserving", IF outcome = "EXCEEDED" THEN "rejected" ELSE "saving")
        /\ Reserve(KeyFor(c), 1, Now, Inventory)
        /\ leaks' = IF outcome # "ALREADY_RESERVED" THEN leaks
                    ELSE IF rsv[KeyFor(c)].status = "COMMITTED" THEN leaks \cup {"reused key"}
                    ELSE leaks \cup {"joined hold"}
        /\ UNCHANGED <<seats, repair>>

\* The transaction that writes the user and the membership.
Save(c) ==
    /\ Moves(c, "saving", "committing")
    /\ seats' = seats \cup {UserOf[c]}
    /\ UNCHANGED <<vars, repair, leaks>>

SaveFails(c) ==
    /\ Moves(c, "saving", "releasing")
    /\ UNCHANGED <<vars, seats, repair, leaks>>

\* The catch block releases the reservation it got the id of, whether this
\* call reserved it or was told ALREADY_RESERVED.
ReleaseSeat(c) ==
    /\ Moves(c, "releasing", "failed")
    /\ IF rsv[KeyFor(c)].status = "RESERVED" THEN Release(KeyFor(c)) ELSE UNCHANGED vars
    /\ UNCHANGED <<seats, repair, leaks>>

CommitSeat(c) ==
    \/ /\ Moves(c, "committing", "writing")
       /\ CommitRead(KeyFor(c))
       /\ UNCHANGED <<seats, repair, leaks>>
    \/ /\ Moves(c, "committing", "done")
       /\ LockFree /\ rsv[KeyFor(c)].status # "RESERVED"
       /\ UNCHANGED <<vars, seats, repair, leaks>>

WriteSeat(c) ==
    /\ Moves(c, "writing", "done")
    /\ CommitWrite
    /\ UNCHANGED <<seats, repair, leaks>>

Deactivate(c) ==
    /\ OpOf[c] = "deactivate"
    /\ Moves(c, "absent", "syncing")
    /\ seats' = seats \ {UserOf[c]}
    /\ UNCHANGED <<vars, repair, leaks>>

\* An upsert of the counter's value; a new row also gets limit and end.
Written(value) ==
    LET p == PeriodStart(quota, Now)
    IN  IF counter[p].exists THEN [counter EXCEPT ![p].value = value]
        ELSE Upserted(Now, value)

\* synchronizeInventory: the inventory is read under the lock.
Synchronize(c) ==
    /\ Moves(c, "syncing", "done")
    /\ LockFree
    /\ counter' = Written(Inventory)
    /\ UNCHANGED <<clock, quota, rsv, committing, alerts, schedulerVars, seats, repair, leaks>>

\* The process stops in the middle of a call.
Die(c) ==
    /\ pc[c] \in InFlight
    /\ pc' = [pc EXCEPT ![c] = "dead"]
    /\ IF pc[c] = "writing" THEN CommitAbort ELSE UNCHANGED vars
    /\ UNCHANGED <<seats, repair, leaks>>

\* A hold no call in flight works with expires (the sweep of the scheduler or
\* of the next reserve); if its user was saved, the seat is no longer covered.
Lapse(k) ==
    /\ rsv[k].status = "RESERVED"
    /\ \A c \in Requests : KeyFor(c) = k => pc[c] \notin InFlight
    /\ rsv' = [rsv EXCEPT ![k].status = "EXPIRED"]
    /\ leaks' = IF HolderOf(k) \in seats THEN leaks \cup {"lapsed hold"} ELSE leaks
    /\ UNCHANGED <<clock, quota, counter, committing, alerts, schedulerVars, seats, pc, repair>>

\* resolveIdentity of OIDC and SAML: a new active member, no reservation.
Provision(u) ==
    /\ u \notin seats \cup FirstSeats \cup {UserOf[c] : c \in Requests}
    /\ seats' = seats \cup {u}
    /\ leaks' = leaks \cup {"provisioned"}
    /\ UNCHANGED <<vars, pc, repair>>

\* reconcile(apply): the inventory is read before, and outside, the lock.
ReadInventory ==
    /\ repair = NoLimit
    /\ LET current == counter[PeriodStart(quota, Now)]
       IN ~current.exists \/ current.value # Inventory
    /\ repair' = Inventory
    /\ UNCHANGED <<vars, seats, pc, leaks>>

Repair ==
    /\ repair # NoLimit
    /\ LockFree
    /\ counter' = Written(repair)
    /\ leaks' = IF repair # Inventory THEN leaks \cup {"stale repair"} ELSE leaks
    /\ repair' = NoLimit
    /\ UNCHANGED <<clock, quota, rsv, committing, alerts, schedulerVars, seats, pc>>

SeatCall(c) ==
    \/ Begin(c) \/ ReserveSeat(c)
    \/ Save(c) \/ SaveFails(c) \/ ReleaseSeat(c)
    \/ CommitSeat(c) \/ WriteSeat(c)
    \/ Deactivate(c) \/ Synchronize(c)
    \/ Die(c)

SeatNext ==
    \/ \E c \in Requests : SeatCall(c)
    \/ \E k \in Keys : Lapse(k)
    \/ \E u \in Users : Provision(u)
    \/ ReadInventory
    \/ Repair

SeatSpec == SeatInit /\ [][SeatNext]_seatingVars

----------------------------------------------------------------------------
\* What stands for a seat that is not counted yet.
Holds == {k \in Keys : rsv[k].status = "RESERVED" \/ committing = k}

\* As long as no seat was taken in one of the ways `leaks` names, the counter
\* and the live holds together account for every active user, whatever is in
\* flight, fails, dies or is synchronized (create, deactivate, activate).
SeatsAreCovered ==
    LET current == counter[PeriodStart(quota, Now)]
    IN  (leaks = {} /\ current.exists) => Inventory <= current.value + Sum(rsv, Holds)

\* And then the hard limit bounds the active users, not only the counter.
SeatsWithinLimit == leaks = {} => Inventory <= quota.hardLimit

\* docs/quota-usage-metering-fix-000093.md: "Hard limit admits only when
\* committed usage plus live reservations plus the requested positive amount
\* does not exceed it", and "Create/restore/upload paths reserve quota": an
\* activation, too, keeps the active users within the limit.
ReactivationWithinLimit == leaks \subseteq {"reused key"} => Inventory <= quota.hardLimit
============================================================================
