---------------------------- MODULE PasswordLogin ----------------------------
(***************************************************************************)
(* AuthService.login for one user: the password, the counter of failures   *)
(* and the lock after repeated ones.                                       *)
(*                                                                         *)
(* Each await of a call is a place where other calls run.  Which tenant is *)
(* entered, the policy of its organization, and the session are in         *)
(* LoginContext; here a login goes on, or is refused, when it has asked.   *)
(***************************************************************************)
EXTENDS Integers

CONSTANTS
    Calls,        \* logins under way at the same time
    None,
    LockAfter,    \* 5 in the code
    MaxFailures,  \* BOUND: failures counted
    MaxChanges    \* BOUND: changes of the account and of the password

VARIABLES
    active,   \* users.isActive
    lock,     \* users.failedLoginAttempts; is lockedUntil in the future?
    call,     \* logins under way
    tries,    \* history: failures since the last reset of the counter
    changes   \* BOUND's counter

loginVars == <<active, lock, call, tries, changes>>

\* raced: one of the failures wrote a count another write had outdated;
\* lapsed: the lock has expired since the last failure.
Tries == [count : Nat, raced : BOOLEAN, lapsed : BOOLEAN]

\* stale is history: was the counter written since the login read it?
Call == [step : {"comparing", "failing", "resolving", "succeeding"},
         seen : Nat,                        \* failedLoginAttempts as read
         stale : BOOLEAN]

\* What the constants are; assumed where this module is instantiated.
PasswordLoginAssumption ==
    /\ LockAfter \in Nat \ {0} /\ MaxFailures \in Nat /\ MaxChanges \in Nat
    /\ None \notin Call

At(c, step) == call[c] # None /\ call[c].step = step

LoginInit ==
    /\ active = TRUE
    /\ lock = [failures |-> 0, locked |-> FALSE]
    /\ call = [c \in Calls |-> None]
    /\ tries = [count |-> 0, raced |-> FALSE, lapsed |-> FALSE]
    /\ changes = 0

Advance(c, step) == call' = [call EXCEPT ![c].step = step]
Return(c) == call' = [call EXCEPT ![c] = None]

\* The counter that a login has read is written by another call.
Outdated(k) == IF k = None THEN None ELSE [k EXCEPT !.stale = TRUE]

\* c returns after it wrote the counter, which the others have read before.
AfterWrite(c) == call' = [d \in Calls |-> IF d = c THEN None ELSE Outdated(call[d])]

-----------------------------------------------------------------------------
\* MUTANT of LoginBegin: a locked account is compared like any other.
LoginBegin_NoLock(c) ==
    /\ call[c] = None
    /\ active
    /\ call' = [call EXCEPT ![c] = [step |-> "comparing", seen |-> lock.failures, stale |-> FALSE]]
    /\ UNCHANGED <<active, lock, tries, changes>>

\* login() reads the user; an inactive or a locked one is refused.
LoginBegin(c) ==
    /\ call[c] = None
    /\ active /\ ~lock.locked
    /\ call' = [call EXCEPT ![c] = [step |-> "comparing", seen |-> lock.failures, stale |-> FALSE]]
    /\ UNCHANGED <<active, lock, tries, changes>>

\* bcrypt.compare; once the password is right, what was read does not matter.
Compare(c) ==
    /\ At(c, "comparing")
    /\ \/ Advance(c, "failing")
       \/ call' = [call EXCEPT ![c] = [@ EXCEPT !.step = "resolving", !.seen = 0]]
    /\ UNCHANGED <<active, lock, tries, changes>>

\* MUTANT of Locks: one failure later than the fifth.
Locks_OneLate(failures) == failures > LockAfter

\* shouldLock
Locks(failures) == failures >= LockAfter

\* recordFailedLogin counts from what login() has read.
RecordFailedLogin(c) ==
    /\ At(c, "failing")
    /\ call[c].seen < MaxFailures /\ tries.count < MaxFailures
    /\ LET failures == call[c].seen + 1
       IN lock' = [failures |-> failures, locked |-> Locks(failures)]
    /\ tries' = [count |-> tries.count + 1, raced |-> tries.raced \/ call[c].stale, lapsed |-> FALSE]
    /\ AfterWrite(c)
    /\ UNCHANGED <<active, changes>>

\* resolveLoginContext and the settings of the organization let the login in or
\* refuse it; a refusal leaves the counter alone.
ResolveLogin(c) ==
    /\ At(c, "resolving")
    /\ Advance(c, "succeeding") \/ Return(c)
    /\ UNCHANGED <<active, lock, tries, changes>>

Unlocked == [failures |-> 0, locked |-> FALSE]
NoTries == [count |-> 0, raced |-> FALSE, lapsed |-> FALSE]

RecordSuccessfulLogin(c) ==
    /\ At(c, "succeeding")
    /\ lock' = Unlocked /\ tries' = NoTries
    /\ AfterWrite(c)
    /\ UNCHANGED <<active, changes>>

-----------------------------------------------------------------------------
(* The environment.                                                        *)

\* The lock's fifteen minutes pass; the counter stays.
LockExpires ==
    /\ lock.locked
    /\ lock' = [lock EXCEPT !.locked = FALSE]
    /\ tries' = [tries EXCEPT !.lapsed = TRUE]
    /\ UNCHANGED <<active, call, changes>>

\* changePassword and resetPassword write the counter too.
NewPassword ==
    /\ changes < MaxChanges
    /\ changes' = changes + 1
    /\ lock' = Unlocked /\ tries' = NoTries
    /\ call' = [c \in Calls |-> Outdated(call[c])]
    /\ UNCHANGED active

\* The account is deactivated or activated.
ChangeActive ==
    /\ changes < MaxChanges
    /\ changes' = changes + 1
    /\ active' = ~active
    /\ UNCHANGED <<lock, call, tries>>

\* The process stops, or a statement fails.
LoginDies(c) ==
    /\ call[c] # None
    /\ Return(c)
    /\ UNCHANGED <<active, lock, tries, changes>>

LoginNext ==
    \/ \E c \in Calls :
         \/ LoginBegin(c) \/ Compare(c) \/ RecordFailedLogin(c)
         \/ ResolveLogin(c) \/ RecordSuccessfulLogin(c) \/ LoginDies(c)
    \/ LockExpires \/ NewPassword \/ ChangeActive

LoginSpec == LoginInit /\ [][LoginNext]_loginVars

-----------------------------------------------------------------------------
(* Properties.                                                             *)

\* Types of the state of login().
LoginTypeOK ==
    /\ active \in BOOLEAN
    /\ lock \in [failures : Nat, locked : BOOLEAN]
    /\ call \in [Calls -> Call \cup {None}]
    /\ tries \in Tries /\ changes \in 0 .. MaxChanges

\* As long as no failure was recorded from a count that another login or a new
\* password had outdated, every failure since the last reset is counted, and
\* the account is locked exactly from the fifth until the lock expires.
FailuresAreCounted ==
    ~tries.raced =>
        /\ lock.failures = tries.count
        /\ lock.locked <=> tries.count >= LockAfter /\ ~tries.lapsed

\* Before it expires only a new password lifts a lock, or a login that had
\* read the user before the lock was set.
LockHolds ==
    [][lock.locked /\ ~lock'.locked =>
         \/ tries'.lapsed \/ changes' # changes
         \/ \E c \in Calls : call[c] # None /\ call[c].stale /\ call'[c] # call[c]]_loginVars
=============================================================================
