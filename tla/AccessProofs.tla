---------------------------- MODULE AccessProofs ----------------------------
(***************************************************************************)
(* Proofs about how a user gets in (PasswordLogin, LoginContext, Passkeys,  *)
(* SignOn), about the pictures a user keeps (ProfileMedia), and about their *)
(* composition in MCAccess.                                                *)
(*                                                                         *)
(* Each part has its inductive invariant: the types and the properties of   *)
(* its module, and what a call under way may still rely on.                 *)
(***************************************************************************)
EXTENDS MCAccess, Integers, FiniteSetTheorems, TLAPS

-----------------------------------------------------------------------------
(* PasswordLogin, as Login.                                                *)

\* What a login may rely on until it writes: if nobody has written the counter
\* since it was read, it is as it was read, and the account is not locked.
LoggingIn(c) ==
    ~login[c].stale =>
        /\ login[c].step \in {"comparing", "failing"} => login[c].seen = lock.failures
        /\ ~lock.locked

\* The inductive invariant of PasswordLogin.
LoginInv ==
    /\ Login!LoginTypeOK /\ Login!FailuresAreCounted
    /\ \A c \in Calls : login[c] # None => LoggingIn(c)

\* PasswordLogin: what the state and the calls are.
LEMMA LoginTypes ==
    ASSUME Login!LoginTypeOK
    PROVE  /\ active \in BOOLEAN
           /\ lock \in [failures : Nat, locked : BOOLEAN]
           /\ login \in [Calls -> Login!Call \cup {None}]
           /\ tries \in Login!Tries /\ loginChanges \in 0 .. MaxChanges
           /\ LockAfter \in Nat \ {0} /\ MaxFailures \in Nat /\ MaxChanges \in Nat
           /\ None \notin Login!Call
           /\ \A r \in Login!Call :
                /\ r.step \in {"comparing", "failing", "resolving", "succeeding"}
                /\ r.seen \in Nat /\ r.stale \in BOOLEAN
           /\ lock.failures \in Nat /\ lock.locked \in BOOLEAN
           /\ tries.count \in Nat /\ tries.raced \in BOOLEAN /\ tries.lapsed \in BOOLEAN
  BY AccessAssumption
  DEF Login!PasswordLoginAssumption, Login!LoginTypeOK, Login!Call, Login!Tries

\* PasswordLogin: its initial state.
LEMMA LoginStart == Login!LoginInit => LoginInv
<1> SUFFICES ASSUME Login!LoginInit PROVE LoginInv
  OBVIOUS
<1>1. /\ LockAfter \in Nat \ {0} /\ MaxChanges \in Nat
  BY AccessAssumption DEF Login!PasswordLoginAssumption
<1>2. /\ active = TRUE /\ lock = [failures |-> 0, locked |-> FALSE]
      /\ login = [c \in Calls |-> None] /\ tries = [count |-> 0, raced |-> FALSE, lapsed |-> FALSE]
      /\ loginChanges = 0
  BY DEF Login!LoginInit
<1>3. Login!LoginTypeOK
  BY <1>1, <1>2 DEF Login!LoginTypeOK, Login!Tries
<1>4. Login!FailuresAreCounted
  BY <1>1, <1>2 DEF Login!FailuresAreCounted
<1> QED
  BY <1>2, <1>3, <1>4 DEF LoginInv

\* A login goes on or ends, and nothing else changes.
LEMMA CallStep ==
    ASSUME LoginInv, NEW c \in Calls, NEW s \in Login!Call \cup {None}, login' = [login EXCEPT ![c] = s],
           UNCHANGED <<active, lock, tries, loginChanges>>, s # None => LoggingIn(c)'
    PROVE  LoginInv'
<1> USE LoginTypes DEF LoginInv
<1>1. /\ login' \in [Calls -> Login!Call \cup {None}] /\ login'[c] = s
      /\ \A d \in Calls \ {c} : login'[d] = login[d]
  OBVIOUS
<1>2. Login!LoginTypeOK' /\ Login!FailuresAreCounted'
  BY <1>1 DEF Login!LoginTypeOK, Login!FailuresAreCounted
<1>3. \A d \in Calls \ {c} : login'[d] # None => LoggingIn(d)'
  BY <1>1 DEF LoggingIn
<1> QED
  BY <1>1, <1>2, <1>3

\* The counter is written: the logins that go on have read it before.
LEMMA WriteCounterStep ==
    ASSUME LoginInv, login' \in [Calls -> Login!Call \cup {None}],
           \A d \in Calls : login'[d] # None => login'[d].stale,
           lock' \in [failures : Nat, locked : BOOLEAN], tries' \in Login!Tries,
           Login!FailuresAreCounted', loginChanges' \in 0 .. MaxChanges, active' = active
    PROVE  LoginInv'
<1>1. Login!LoginTypeOK'
  BY DEF LoginInv, Login!LoginTypeOK
<1>2. \A d \in Calls : login'[d] # None => LoggingIn(d)'
  BY DEF LoggingIn
<1> QED
  BY <1>1, <1>2 DEF LoginInv

\* PasswordLogin: a call that has read an outdated count is marked, and no other
\* goes on once the counter is written.
LEMMA OutdatedCalls ==
    ASSUME Login!LoginTypeOK, login' = [d \in Calls |-> login'[d]],
           \A d \in Calls : login'[d] = None \/ login'[d] = Login!Outdated(login[d])
    PROVE  /\ login' \in [Calls -> Login!Call \cup {None}]
           /\ \A d \in Calls : login'[d] # None => login'[d].stale
<1> USE LoginTypes
<1>1. ASSUME NEW d \in Calls
      PROVE  login'[d] \in Login!Call \cup {None} /\ (login'[d] # None => login'[d].stale)
  <2>1. CASE login'[d] = None
    BY <2>1
  <2>2. CASE login[d] # None /\ login'[d] = Login!Outdated(login[d])
    <3> PICK r \in Login!Call : r = login[d]
      BY <2>2
    <3> PICK s : s = [r EXCEPT !.stale = TRUE]
      OBVIOUS
    <3>1. s \in Login!Call /\ s.stale
      BY DEF Login!Call
    <3>2. login'[d] = s
      BY <2>2 DEF Login!Outdated
    <3> QED
      BY <3>1, <3>2
  <2> QED
    BY <2>1, <2>2 DEF Login!Outdated
<1> QED
  BY <1>1

\* PasswordLogin: each of its actions.
LEMMA LoginStep == LoginInv /\ [Login!LoginNext]_loginVars => LoginInv'
<1> SUFFICES ASSUME LoginInv, [Login!LoginNext]_loginVars PROVE LoginInv'
  OBVIOUS
<1> USE LoginTypes
<1>1. Login!LoginTypeOK /\ Login!FailuresAreCounted
  BY DEF LoginInv
<1>2. ASSUME NEW c \in Calls, Login!LoginBegin(c) PROVE LoginInv'
  <2> PICK s : s = [step |-> "comparing", seen |-> lock.failures, stale |-> FALSE]
    OBVIOUS
  <2>1. s \in Login!Call
    BY <1>1 DEF Login!Call
  <2>2. login' = [login EXCEPT ![c] = s] /\ ~lock.locked /\ UNCHANGED <<active, lock, tries, loginChanges>>
    BY <1>2 DEF Login!LoginBegin
  <2>3. login'[c] = s
    BY <1>1, <2>2
  <2>4. LoggingIn(c)'
    BY <2>2, <2>3 DEF LoggingIn
  <2> QED
    BY <2>1, <2>2, <2>4, CallStep
<1>4. ASSUME NEW c \in Calls, Login!Compare(c) PROVE LoginInv'
  <2>1. PICK r \in Login!Call : r = login[c] /\ r.step = "comparing" /\ LoggingIn(c)
    BY <1>1, <1>4 DEF Login!Compare, Login!At, LoginInv
  <2> PICK s, q : s = [r EXCEPT !.step = "failing"] /\ q = [r EXCEPT !.step = "resolving", !.seen = 0]
    OBVIOUS
  <2>2. /\ s \in Login!Call /\ s.step = "failing" /\ s.seen = r.seen /\ s.stale = r.stale
        /\ q \in Login!Call /\ q.step = "resolving" /\ q.stale = r.stale
    BY DEF Login!Call
  <2>3. UNCHANGED <<active, lock, tries, loginChanges>>
    BY <1>4 DEF Login!Compare
  <2>4. CASE login' = [login EXCEPT ![c] = s]
    <3>1. login'[c] = s
      BY <1>1, <2>4
    <3>2. LoggingIn(c)'
      BY <2>1, <2>2, <2>3, <3>1 DEF LoggingIn
    <3> QED
      BY <2>2, <2>3, <2>4, <3>2, CallStep
  <2>5. CASE login' = [login EXCEPT ![c] = q]
    <3>1. login'[c] = q
      BY <1>1, <2>5
    <3>2. LoggingIn(c)'
      BY <2>1, <2>2, <2>3, <3>1 DEF LoggingIn
    <3> QED
      BY <2>2, <2>3, <2>5, <3>2, CallStep
  <2> QED
    BY <1>4, <2>1, <2>4, <2>5 DEF Login!Compare, Login!Advance
<1>5. ASSUME NEW c \in Calls, Login!RecordFailedLogin(c) PROVE LoginInv'
  <2>1. PICK r \in Login!Call : r = login[c] /\ r.step = "failing" /\ LoggingIn(c)
    BY <1>1, <1>5 DEF Login!RecordFailedLogin, Login!At, LoginInv
  <2>2. /\ lock' = [failures |-> r.seen + 1, locked |-> Login!Locks(r.seen + 1)]
        /\ tries' = [count |-> tries.count + 1, raced |-> tries.raced \/ r.stale, lapsed |-> FALSE]
        /\ UNCHANGED <<active, loginChanges>>
    BY <1>5, <2>1 DEF Login!RecordFailedLogin
  <2>3. login' = [d \in Calls |-> IF d = c THEN None ELSE Login!Outdated(login[d])]
    BY <1>5 DEF Login!RecordFailedLogin, Login!AfterWrite
  <2>4. /\ login' \in [Calls -> Login!Call \cup {None}]
        /\ \A d \in Calls : login'[d] # None => login'[d].stale
    <3>1. login' = [d \in Calls |-> login'[d]]
      BY <2>3
    <3>2. \A d \in Calls : login'[d] = None \/ login'[d] = Login!Outdated(login[d])
      BY <2>3
    <3> QED
      BY <1>1, <3>1, <3>2, OutdatedCalls
  <2>5. lock' \in [failures : Nat, locked : BOOLEAN] /\ tries' \in Login!Tries
    BY <1>1, <2>1, <2>2 DEF Login!Locks, Login!Tries
  <2>6. /\ lock'.failures = r.seen + 1 /\ (lock'.locked <=> r.seen + 1 >= LockAfter)
        /\ tries'.count = tries.count + 1 /\ (tries'.raced <=> tries.raced \/ r.stale) /\ ~tries'.lapsed
    BY <2>2 DEF Login!Locks
  <2>7. ~r.stale => r.seen = lock.failures
    BY <2>1 DEF LoggingIn
  <2>8. Login!FailuresAreCounted'
    BY <1>1, <2>1, <2>6, <2>7 DEF Login!FailuresAreCounted
  <2>9. loginChanges' \in 0 .. MaxChanges /\ active' = active
    BY <1>1, <2>2
  <2> HIDE LoginTypes
  <2> QED
    BY <2>4, <2>5, <2>8, <2>9, WriteCounterStep
<1>6. ASSUME NEW c \in Calls, Login!ResolveLogin(c) PROVE LoginInv'
  <2>1. PICK r \in Login!Call : r = login[c] /\ r.step = "resolving" /\ LoggingIn(c)
    BY <1>1, <1>6 DEF Login!ResolveLogin, Login!At, LoginInv
  <2> PICK s : s = [r EXCEPT !.step = "succeeding"]
    OBVIOUS
  <2>2. s \in Login!Call /\ s.step = "succeeding" /\ s.stale = r.stale
    BY DEF Login!Call
  <2>3. UNCHANGED <<active, lock, tries, loginChanges>>
    BY <1>6 DEF Login!ResolveLogin
  <2>4. CASE login' = [login EXCEPT ![c] = s]
    <3>1. login'[c] = s
      BY <1>1, <2>4
    <3>2. LoggingIn(c)'
      BY <2>1, <2>2, <2>3, <3>1 DEF LoggingIn
    <3> QED
      BY <2>2, <2>3, <2>4, <3>2, CallStep
  <2>5. CASE login' = [login EXCEPT ![c] = None]
    BY <2>3, <2>5, CallStep
  <2> QED
    BY <1>6, <2>1, <2>4, <2>5 DEF Login!ResolveLogin, Login!Advance, Login!Return
<1>7. ASSUME NEW c \in Calls, Login!RecordSuccessfulLogin(c) PROVE LoginInv'
  <2>1. /\ lock' = [failures |-> 0, locked |-> FALSE]
        /\ tries' = [count |-> 0, raced |-> FALSE, lapsed |-> FALSE]
        /\ UNCHANGED <<active, loginChanges>>
    BY <1>7 DEF Login!RecordSuccessfulLogin, Login!Unlocked, Login!NoTries
  <2>2. login' = [d \in Calls |-> IF d = c THEN None ELSE Login!Outdated(login[d])]
    BY <1>7 DEF Login!RecordSuccessfulLogin, Login!AfterWrite
  <2>3. /\ login' \in [Calls -> Login!Call \cup {None}]
        /\ \A d \in Calls : login'[d] # None => login'[d].stale
    <3>1. login' = [d \in Calls |-> login'[d]]
      BY <2>2
    <3>2. \A d \in Calls : login'[d] = None \/ login'[d] = Login!Outdated(login[d])
      BY <2>2
    <3> QED
      BY <1>1, <3>1, <3>2, OutdatedCalls
  <2>4. lock' \in [failures : Nat, locked : BOOLEAN] /\ tries' \in Login!Tries /\ Login!FailuresAreCounted'
    BY <1>1, <2>1 DEF Login!Tries, Login!FailuresAreCounted
  <2>5. loginChanges' \in 0 .. MaxChanges /\ active' = active
    BY <1>1, <2>1
  <2> HIDE LoginTypes
  <2> QED
    BY <2>3, <2>4, <2>5, WriteCounterStep
<1>8. ASSUME NEW c \in Calls, Login!LoginDies(c) PROVE LoginInv'
  BY <1>1, <1>8, CallStep DEF Login!LoginDies, Login!Return
<1>9. CASE Login!LockExpires
  <2>1. /\ lock' = [lock EXCEPT !.locked = FALSE] /\ tries' = [tries EXCEPT !.lapsed = TRUE]
        /\ UNCHANGED <<active, login, loginChanges>>
    BY <1>9 DEF Login!LockExpires
  <2>2. /\ lock' \in [failures : Nat, locked : BOOLEAN] /\ lock'.failures = lock.failures /\ ~lock'.locked
        /\ tries' \in Login!Tries /\ tries'.count = tries.count /\ tries'.raced = tries.raced /\ tries'.lapsed
    BY <1>1, <2>1 DEF Login!Tries
  <2>3. Login!LoginTypeOK' /\ Login!FailuresAreCounted'
    BY <1>1, <2>1, <2>2 DEF Login!LoginTypeOK, Login!FailuresAreCounted
  <2>4. \A d \in Calls : login[d] # None => LoggingIn(d)'
    BY <2>1, <2>2 DEF LoginInv, LoggingIn
  <2> QED
    BY <2>1, <2>3, <2>4 DEF LoginInv
<1>10. CASE Login!NewPassword
  <2>1. /\ lock' = [failures |-> 0, locked |-> FALSE]
        /\ tries' = [count |-> 0, raced |-> FALSE, lapsed |-> FALSE]
        /\ loginChanges' \in 0 .. MaxChanges /\ active' = active
    BY <1>1, <1>10 DEF Login!NewPassword, Login!Unlocked, Login!NoTries
  <2>2. login' = [d \in Calls |-> Login!Outdated(login[d])]
    BY <1>10 DEF Login!NewPassword
  <2>3. /\ login' \in [Calls -> Login!Call \cup {None}]
        /\ \A d \in Calls : login'[d] # None => login'[d].stale
    <3>1. login' = [d \in Calls |-> login'[d]]
      BY <2>2
    <3>2. \A d \in Calls : login'[d] = None \/ login'[d] = Login!Outdated(login[d])
      BY <2>2
    <3> QED
      BY <1>1, <3>1, <3>2, OutdatedCalls
  <2>4. lock' \in [failures : Nat, locked : BOOLEAN] /\ tries' \in Login!Tries /\ Login!FailuresAreCounted'
    BY <1>1, <2>1 DEF Login!Tries, Login!FailuresAreCounted
  <2> HIDE LoginTypes
  <2> QED
    BY <2>1, <2>3, <2>4, WriteCounterStep
<1>11. CASE Login!ChangeActive
  <2>1. /\ active' \in BOOLEAN /\ loginChanges' \in 0 .. MaxChanges /\ UNCHANGED <<lock, login, tries>>
    BY <1>1, <1>11 DEF Login!ChangeActive
  <2> QED
    BY <1>1, <2>1 DEF LoginInv, Login!LoginTypeOK, Login!FailuresAreCounted, LoggingIn
<1>12. CASE UNCHANGED loginVars
  BY <1>1, <1>12 DEF LoginInv, loginVars, Login!LoginTypeOK, Login!FailuresAreCounted, LoggingIn
<1> QED
  BY <1>2, <1>4, <1>5, <1>6, <1>7, <1>8, <1>9, <1>10, <1>11, <1>12 DEF Login!LoginNext

\* PasswordLogin: a lock is lifted by what may do so.
LEMMA LockStep ==
    ASSUME LoginInv, [Login!LoginNext]_loginVars, lock.locked, ~lock'.locked
    PROVE  \/ tries'.lapsed \/ loginChanges' # loginChanges
           \/ \E c \in Calls : login[c] # None /\ login[c].stale /\ login'[c] # login[c]
<1> USE LoginTypes DEF LoginInv
<1>1. CASE Login!LockExpires
  BY <1>1 DEF Login!LockExpires, Login!Tries
<1>2. CASE Login!NewPassword
  BY <1>2 DEF Login!NewPassword
<1>3. ASSUME NEW c \in Calls, Login!RecordFailedLogin(c) \/ Login!RecordSuccessfulLogin(c)
      PROVE  login[c] # None /\ login[c].stale /\ login'[c] # login[c]
  <2>1. PICK r \in Login!Call : r = login[c] /\ LoggingIn(c)
    BY <1>3 DEF Login!RecordFailedLogin, Login!RecordSuccessfulLogin, Login!At
  <2>2. r.stale
    BY <2>1 DEF LoggingIn
  <2>3. login'[c] = None
    BY <1>3 DEF Login!RecordFailedLogin, Login!RecordSuccessfulLogin, Login!AfterWrite
  <2> QED
    BY <2>1, <2>2, <2>3
<1>4. ASSUME NEW c \in Calls,
             Login!LoginBegin(c) \/ Login!Compare(c) \/ Login!ResolveLogin(c) \/ Login!LoginDies(c)
      PROVE  lock' = lock
  BY <1>4, Zenon DEF Login!LoginBegin, Login!Compare, Login!ResolveLogin, Login!LoginDies
<1>5. Login!ChangeActive => lock' = lock
  BY DEF Login!ChangeActive
<1>6. UNCHANGED loginVars => lock' = lock
  BY DEF loginVars
<1> QED
  BY <1>1, <1>2, <1>3, <1>4, <1>5, <1>6 DEF Login!LoginNext

-----------------------------------------------------------------------------
(* LoginContext, as Context.                                               *)

\* The call k has still to read a row.
IsReading(k) == k.step \in Context!TenantReads \cup Context!PlatformReads

\* The contexts it may find.
Targets(k) ==
    IF k.step \in Context!PlatformReads THEN {Platform} ELSE IF k.org # None THEN {k.org} ELSE Orgs

\* What it has read is what the rows u are.
AsRead(k, u) ==
    /\ k.step \in {"membership", "organization", "role"} => u.active
    /\ k.step \in {"organization", "role"} => k.org \in u.member /\ u.role[k.org] = k.role
    /\ k.step = "role" => k.org \in u.organizations
    /\ k.step = "holder" => u.admin

\* By the rows u, it would find the context x in those it has still to read.
Admissible(k, u, x) ==
    CASE k.step = "account" -> Context!Holds(u, x)
      [] k.step = "membership" -> x \in u.member /\ x \in u.organizations /\ u.role[x] \in u.roles
      [] k.step = "organization" -> x \in u.organizations /\ k.role \in u.roles
      [] k.step = "role" -> k.role \in u.roles
      [] k.step = "authority" -> u.admin /\ u.active
      [] k.step = "holder" -> u.active

\* At one of the moments S, the user held the context x.
Together(S, x) == \E a \in S : Context!Holds(a, x)

\* What k has read was good at one of the moments S.
Passed(k, S) ==
    /\ k.step \in {"account", "membership"} => k.role = None
    /\ k.step \in {"membership", "organization", "role"} => \E a \in S : a.active
    /\ k.step \in {"organization", "role"} =>
         k.org \in Orgs /\ \E m \in S : k.org \in m.member /\ m.role[k.org] = k.role
    /\ k.step = "role" => \E o \in S : k.org \in o.organizations
    /\ k.step = "holder" => \E a \in S : a.admin

\* EntersHeldContext, of the context x, the moments S, and whether they are mixed.
Enters(x, S, mixed) ==
    /\ mixed \/ Together(S, x)
    /\ \E a \in S : a.active
    /\ IF x = Platform THEN \E a \in S : a.admin
       ELSE /\ \E o \in S : x \in o.organizations
            /\ \E m, r \in S : x \in m.member /\ m.role[x] \in r.roles

\* A call that is not mixed and would find a context has grounds for it; one that
\* is not stale has read what the rows u are; and what it has read was good.
Standing(k, u) ==
    /\ IsReading(k) =>
         /\ u \in k.seen
         /\ ~k.stale => AsRead(k, u)
         /\ ~k.mixed => \A x \in Targets(k) : Admissible(k, u, x) => Together(k.seen, x)
         /\ Passed(k, k.seen)
    /\ k.step \in {"policy", "opening", "renewing", "rotating"} =>
         k.context \in Context!Contexts /\ Enters(k.context, k.seen, k.mixed)

\* The session that a call presents is there, and a refresh asks for its context.
Presented(k) ==
    /\ k.step \in {"owner", "renewing", "rotating"} => k.kind # "login"
    /\ k.step \in {"policy", "opening"} => k.kind = "login"
    /\ k.kind # "login" => k.token \in Tokens /\ session[k.token] # None
    /\ k.kind = "leave" => k.to \in Orgs
    /\ k.kind = "refresh" =>
         /\ k.step \in Context!TenantReads => k.org = session[k.token].context
         /\ k.step \in Context!PlatformReads => session[k.token].context = Platform
         /\ k.step \in {"renewing", "rotating"} => k.context = session[k.token].context

\* A session that replaced another one is in its context.
SuccessorsStay ==
    \A t \in Tokens : session[t] # None /\ session[t].from # None =>
        session[session[t].from] # None /\ session[session[t].from].context = session[t].context

\* The inductive invariant of LoginContext.
ContextInv ==
    /\ Context!ContextTypeOK /\ SuccessorsStay
    /\ \A c \in Entries : entry[c] # None => Standing(entry[c], account) /\ Presented(entry[c])

\* LoginContext: what the state and the calls are.
LEMMA ContextTypes ==
    ASSUME Context!ContextTypeOK
    PROVE  /\ account \in Context!Account /\ allowed \subseteq Orgs
           /\ session \in [Tokens -> Context!SessionRow \cup {None}]
           /\ entry \in [Entries -> Context!Call \cup {None}]
           /\ moves \in 0 .. MaxMoves /\ MaxMoves \in Nat
           /\ None \notin Tokens /\ None \notin Context!SessionRow /\ None \notin Context!Call
           /\ Platform \notin Orgs /\ None \notin Orgs /\ None # Platform /\ None \notin Roles
  BY AccessAssumption DEF Context!ContextAssumption, Context!ContextTypeOK

\* LoginContext: its initial state.
LEMMA ContextStart == Context!ContextInit => ContextInv
<1> SUFFICES ASSUME Context!ContextInit PROVE ContextInv
  OBVIOUS
<1>1. MaxMoves \in Nat /\ None \notin Tokens
  BY AccessAssumption DEF Context!ContextAssumption
<1>2. PICK admin \in BOOLEAN, o \in Orgs, r \in Roles, some \in SUBSET Roles :
        account = [active |-> TRUE, admin |-> admin, member |-> Orgs, role |-> [x \in Orgs |-> r],
                   default |-> o, organizations |-> Orgs, roles |-> some]
  BY DEF Context!ContextInit
<1>3. account \in Context!Account
  BY <1>2 DEF Context!Account
<1>4. allowed = Orgs /\ session = [t \in Tokens |-> None] /\ entry = [c \in Entries |-> None] /\ moves = 0
  BY DEF Context!ContextInit
<1>5. Context!ContextTypeOK
  BY <1>1, <1>3, <1>4 DEF Context!ContextTypeOK
<1> QED
  BY <1>4, <1>5 DEF ContextInv, SuccessorsStay

\* LoginContext: who has read the rows as they are, and would find a context by
\* them, holds it now.
LEMMA HeldNow ==
    ASSUME NEW k \in Context!Call, IsReading(k), NEW S, NEW u \in S, NEW x \in Targets(k),
           AsRead(k, u), Admissible(k, u, x), Passed(k, S), Platform \notin Orgs, None \notin Orgs
    PROVE  Together(S, x)
<1>1. k.step \in {"account", "membership", "organization", "role", "authority", "holder"}
  BY DEF IsReading, Context!TenantReads, Context!PlatformReads
<1>2. CASE k.step = "account"
  BY <1>2 DEF Admissible, Together
<1>3. CASE k.step \in {"membership", "organization", "role"}
  <2>1. x \in Orgs /\ (k.step # "membership" => x = k.org)
    BY <1>3 DEF Targets, Passed, Context!PlatformReads, Context!Call
  <2>2. x # Platform
    BY <2>1
  <2>3. Context!Holds(u, x)
    BY <1>3, <2>1, <2>2 DEF AsRead, Admissible, Context!Holds
  <2> QED
    BY <2>3 DEF Together
<1>4. CASE k.step \in {"authority", "holder"}
  <2>1. x = Platform
    BY <1>4 DEF Targets, Context!PlatformReads
  <2> QED
    BY <1>4, <2>1 DEF AsRead, Admissible, Together, Context!Holds
<1> QED
  BY <1>1, <1>2, <1>3, <1>4

\* LoginContext: a call that begins to read the rows of a tenant ...
LEMMA Asking ==
    ASSUME ContextInv, NEW r \in Context!Call, NEW o \in Orgs \cup {None}
    PROVE  \E s \in Context!Call :
              /\ s = Context!Asks(r, o) /\ s.kind = r.kind /\ s.token = r.token /\ s.to = r.to
              /\ s.step = "account" /\ s.org = o /\ Standing(s, account)
<1>0. account \in Context!Account /\ None \notin Orgs /\ Platform \notin Orgs
  BY ContextTypes DEF ContextInv
<1> PICK s : s = Context!Asks(r, o)
  OBVIOUS
<1>1. /\ s \in Context!Call /\ s.kind = r.kind /\ s.token = r.token /\ s.to = r.to
      /\ s.step = "account" /\ s.org = o /\ s.role = None /\ ~s.stale /\ ~s.mixed /\ s.seen = {account}
  BY <1>0 DEF Context!Asks, Context!Call, Context!TenantReads
<1>2. Standing(s, account)
  BY <1>1 DEF Standing, IsReading, AsRead, Admissible, Together, Passed
<1> QED
  BY <1>1, <1>2

\* ... or those of the platform.
LEMMA AskingPlatform ==
    ASSUME ContextInv, NEW r \in Context!Call
    PROVE  \E s \in Context!Call :
              /\ s = Context!AsksPlatform(r) /\ s.kind = r.kind /\ s.token = r.token /\ s.to = r.to
              /\ s.step = "authority" /\ Standing(s, account)
<1>0. account \in Context!Account
  BY ContextTypes DEF ContextInv
<1> PICK s : s = Context!AsksPlatform(r)
  OBVIOUS
<1>1. /\ s \in Context!Call /\ s.kind = r.kind /\ s.token = r.token /\ s.to = r.to
      /\ s.step = "authority" /\ s.role = None /\ ~s.stale /\ ~s.mixed /\ s.seen = {account}
  BY <1>0 DEF Context!AsksPlatform, Context!Call, Context!PlatformReads
<1>2. Standing(s, account)
  BY <1>1 DEF Standing, IsReading, Targets, AsRead, Admissible, Together, Passed, Context!Holds,
     Context!PlatformReads
<1> QED
  BY <1>1, <1>2

\* LoginContext: a call goes on or ends, and nothing else changes.
LEMMA EntryStep ==
    ASSUME ContextInv, NEW c \in Entries, NEW s \in Context!Call \cup {None},
           entry' = [entry EXCEPT ![c] = s], UNCHANGED <<account, allowed, session, moves>>,
           s # None => Standing(s, account) /\ Presented(s)
    PROVE  ContextInv'
<1> USE ContextTypes DEF ContextInv
<1>1. /\ entry' \in [Entries -> Context!Call \cup {None}] /\ entry'[c] = s
      /\ \A d \in Entries \ {c} : entry'[d] = entry[d]
  OBVIOUS
<1>2. Context!ContextTypeOK' /\ SuccessorsStay'
  BY <1>1 DEF Context!ContextTypeOK, SuccessorsStay
<1>3. ASSUME NEW d \in Entries, entry'[d] # None
      PROVE  (Standing(entry[d], account) /\ Presented(entry[d]))'
  <2>1. Standing(entry'[d], account) /\ Presented(entry'[d])
    BY <1>1, <1>3
  <2> QED
    BY <2>1 DEF Presented
<1> QED
  BY <1>2, <1>3

\* LoginContext: a call that is refused.
LEMMA RefusedStep ==
    ASSUME ContextInv, NEW c \in Entries, entry[c] # None,
           entry' = [entry EXCEPT ![c] = Context!Refused(entry[c])],
           UNCHANGED <<account, allowed, session, moves>>
    PROVE  ContextInv'
<1> PICK r \in Context!Call : r = entry[c]
  BY ContextTypes DEF ContextInv
<1>1. CASE r.kind = "login" /\ r.step \in Context!TenantReads
  <2>1. PICK s \in Context!Call :
          s = Context!AsksPlatform(r) /\ s.kind = r.kind /\ s.step = "authority" /\ Standing(s, account)
    BY AskingPlatform
  <2>2. entry' = [entry EXCEPT ![c] = s]
    BY <1>1, <2>1 DEF Context!Refused
  <2>3. Presented(s)
    BY <1>1, <2>1 DEF Presented
  <2> QED
    BY <2>1, <2>2, <2>3, EntryStep
<1>2. CASE ~(r.kind = "login" /\ r.step \in Context!TenantReads)
  <2>1. entry' = [entry EXCEPT ![c] = None]
    BY <1>2 DEF Context!Refused
  <2> QED
    BY <2>1, EntryStep
<1> QED
  BY <1>1, <1>2

\* LoginContext: a call goes on as s if what it has read is good.
LEMMA GoesOnAs ==
    ASSUME ContextInv, NEW c \in Entries, entry[c] # None, NEW good, NEW s, Context!GoesOn(c, good, s),
           good => s \in Context!Call /\ Standing(s, account) /\ Presented(s)
    PROVE  ContextInv'
<1>1. UNCHANGED <<account, allowed, session, moves>>
  BY DEF Context!GoesOn
<1>2. CASE good
  <2>1. entry' = [entry EXCEPT ![c] = s]
    BY <1>2 DEF Context!GoesOn
  <2> QED
    BY <1>1, <1>2, <2>1, EntryStep
<1>3. CASE ~good
  <2>1. entry' = [entry EXCEPT ![c] = Context!Refused(entry[c])]
    BY <1>3 DEF Context!GoesOn
  <2> QED
    BY <1>1, <2>1, RefusedStep
<1> QED
  BY <1>2, <1>3

\* LoginContext: the calls, one statement each.
LEMMA EntryGoesOn ==
    ASSUME ContextInv, NEW c \in Entries,
           \/ Context!LogIn(c) \/ \E t \in Tokens, to \in Orgs \cup {None} : Context!Present(c, t, to)
           \/ Context!ReadOwner(c) \/ Context!ReadAccount(c) \/ Context!ReadMembership(c)
           \/ Context!ReadOrganization(c) \/ Context!ReadRole(c) \/ Context!ReadAuthority(c)
           \/ Context!ReadHolder(c) \/ Context!ReadPolicy(c) \/ Context!ReadRenewed(c) \/ Context!CallDies(c)
    PROVE  ContextInv'
<1>0. /\ account \in Context!Account /\ session \in [Tokens -> Context!SessionRow \cup {None}]
      /\ entry \in [Entries -> Context!Call \cup {None}] /\ None \notin Context!Call
      /\ None \notin Tokens /\ None \notin Context!SessionRow
      /\ Platform \notin Orgs /\ None \notin Orgs /\ None # Platform /\ None \notin Roles
  BY ContextTypes DEF ContextInv
<1>1. CASE Context!LogIn(c)
  <2> PICK n : n = Context!NewCall("login")
    OBVIOUS
  <2>1. n \in Context!Call /\ n.kind = "login"
    BY DEF Context!NewCall, Context!Call
  <2>2. PICK s \in Context!Call :
          s = Context!Asks(n, None) /\ s.kind = "login" /\ s.step = "account" /\ Standing(s, account)
    BY <2>1, Asking
  <2>3. Presented(s)
    BY <2>2 DEF Presented
  <2>4. entry' = [entry EXCEPT ![c] = s] /\ UNCHANGED <<account, allowed, session, moves>>
    BY <1>1, <2>2 DEF Context!LogIn, Context!GoesOn
  <2> QED
    BY <2>2, <2>3, <2>4, EntryStep
<1>2. ASSUME NEW t \in Tokens, NEW to \in Orgs \cup {None}, Context!Present(c, t, to) PROVE ContextInv'
  <2> PICK kind : kind = IF to = None THEN "refresh" ELSE "leave"
    OBVIOUS
  <2> PICK s : s = [Context!NewCall(kind) EXCEPT !.token = t, !.to = to]
    OBVIOUS
  <2>1. /\ s \in Context!Call /\ s.kind = kind /\ s.step = "owner" /\ s.token = t /\ s.to = to
    BY DEF Context!NewCall, Context!Call
  <2>2. entry' = [entry EXCEPT ![c] = s] /\ UNCHANGED <<account, allowed, session, moves>> /\ session[t] # None
    BY <1>2 DEF Context!Present, Context!GoesOn, Context!Live
  <2>3. Presented(s) /\ Standing(s, account)
    BY <2>1, <2>2 DEF Presented, Standing, IsReading, Context!TenantReads, Context!PlatformReads
  <2> QED
    BY <2>1, <2>2, <2>3, EntryStep
<1>3. CASE Context!CallDies(c)
  <2>1. entry[c] # None /\ UNCHANGED <<account, allowed, session, moves>>
    BY <1>3 DEF Context!CallDies
  <2>2. entry' = [entry EXCEPT ![c] = None] \/ entry' = [entry EXCEPT ![c] = Context!Refused(entry[c])]
    BY <1>3 DEF Context!CallDies
  <2> QED
    BY <2>1, <2>2, EntryStep, RefusedStep
<1>4. ASSUME NEW r \in Context!Call, r = entry[c]
      PROVE  Standing(r, account) /\ Presented(r) /\ entry[c] # None
  BY <1>0, <1>4 DEF ContextInv
<1>5. ASSUME NEW step, Context!At(c, step) PROVE \E r \in Context!Call : r = entry[c] /\ r.step = step
  BY <1>0, <1>5 DEF Context!At
<1>6. CASE Context!ReadOwner(c)
  <2>1. PICK r \in Context!Call : r = entry[c] /\ r.step = "owner"
    BY <1>5, <1>6 DEF Context!ReadOwner
  <2>2. r.kind # "login" /\ r.token \in Tokens /\ session[r.token] # None
        /\ (r.kind = "leave" => r.to \in Orgs)
    BY <1>4, <2>1 DEF Presented
  <2> PICK x \in Context!Contexts : x = session[r.token].context
    BY <1>0, <2>2 DEF Context!SessionRow
  <2>3. CASE x # Platform
    <3>1. x \in Orgs
      BY <2>3 DEF Context!Contexts
    <3>2. PICK s \in Context!Call :
            /\ s = Context!Asks(r, x) /\ s.kind = r.kind /\ s.token = r.token /\ s.to = r.to
            /\ s.step = "account" /\ s.org = x /\ Standing(s, account)
      BY <3>1, Asking
    <3>3. Presented(s)
      BY <2>2, <3>2 DEF Presented, Context!TenantReads, Context!PlatformReads
    <3>4. Context!GoesOn(c, account.active, s)
      BY <1>6, <2>1, <2>3, <3>2 DEF Context!ReadOwner
    <3> QED
      BY <1>4, <2>1, <3>2, <3>3, <3>4, GoesOnAs
  <2>4. CASE x = Platform /\ r.kind = "refresh"
    <3>1. PICK s \in Context!Call :
            /\ s = Context!AsksPlatform(r) /\ s.kind = r.kind /\ s.token = r.token /\ s.to = r.to
            /\ s.step = "authority" /\ Standing(s, account)
      BY AskingPlatform
    <3>2. Presented(s)
      BY <2>2, <2>4, <3>1 DEF Presented, Context!TenantReads, Context!PlatformReads
    <3>3. Context!GoesOn(c, account.active, s)
      BY <1>6, <2>1, <2>4, <3>1 DEF Context!ReadOwner
    <3> QED
      BY <1>4, <2>1, <3>1, <3>2, <3>3, GoesOnAs
  <2>5. CASE x = Platform /\ r.kind # "refresh"
    <3>1. PICK s \in Context!Call :
            /\ s = Context!Asks(r, None) /\ s.kind = r.kind /\ s.token = r.token /\ s.to = r.to
            /\ s.step = "account" /\ Standing(s, account)
      BY Asking
    <3>2. Presented(s)
      BY <2>2, <2>5, <3>1 DEF Presented
    <3>3. Context!GoesOn(c, account.active, s)
      BY <1>6, <2>1, <2>5, <3>1 DEF Context!ReadOwner
    <3> QED
      BY <1>4, <2>1, <3>1, <3>2, <3>3, GoesOnAs
  <2> QED
    BY <2>3, <2>4, <2>5
<1>7. CASE Context!ReadAccount(c)
  <2>1. PICK r \in Context!Call : r = entry[c] /\ r.step = "account"
    BY <1>5, <1>7 DEF Context!ReadAccount
  <2> PICK s : s = [r EXCEPT !.step = "membership"]
    OBVIOUS
  <2>2. /\ s \in Context!Call /\ s.step = "membership" /\ s.kind = r.kind /\ s.token = r.token /\ s.to = r.to
        /\ s.org = r.org /\ s.role = r.role /\ s.stale = r.stale /\ s.mixed = r.mixed /\ s.seen = r.seen
    BY DEF Context!Call, Context!TenantReads
  <2>3. Context!GoesOn(c, account.active, s)
    BY <1>7, <2>1 DEF Context!ReadAccount
  <2>4. Standing(r, account) /\ Presented(r)
    BY <1>4, <2>1
  <2>5. ASSUME account.active, NEW x \in Targets(s), Admissible(s, account, x) PROVE Admissible(r, account, x)
    <3>1. x # Platform
      BY <1>0, <2>2, <2>5 DEF Targets, Context!PlatformReads, Context!Call
    <3> QED
      BY <2>1, <2>2, <2>5, <3>1 DEF Admissible, Context!Holds
  <2>6. Targets(s) = Targets(r)
    BY <2>1, <2>2 DEF Targets, Context!PlatformReads
  <2>7. account.active => Standing(s, account)
    BY <2>1, <2>2, <2>4, <2>5, <2>6 DEF Standing, IsReading, AsRead, Passed, Context!TenantReads
  <2>8. Presented(s)
    BY <2>1, <2>2, <2>4 DEF Presented, Context!TenantReads, Context!PlatformReads
  <2> QED
    BY <1>4, <2>1, <2>2, <2>3, <2>7, <2>8, GoesOnAs
<1>8. CASE Context!ReadMembership(c)
  <2>1. PICK r \in Context!Call : r = entry[c] /\ r.step = "membership"
    BY <1>5, <1>8 DEF Context!ReadMembership
  <2>2. Standing(r, account) /\ Presented(r)
    BY <1>4, <2>1
  <2> PICK found : found = IF r.org = None THEN Context!Sole ELSE {r.org} \cap account.member
    OBVIOUS
  <2>3. found \subseteq account.member /\ found \subseteq Orgs /\ (r.org # None => found \subseteq {r.org})
    BY <1>0 DEF Context!Sole, Context!Account
  <2>4. \/ \E o \in found :
             Context!GoesOn(c, TRUE, [r EXCEPT !.step = "organization", !.org = o, !.role = account.role[o]])
        \/ found = {} /\ Context!GoesOn(c, FALSE, None)
    BY <1>8, <2>1 DEF Context!ReadMembership
  <2>5. ASSUME NEW o \in found,
               Context!GoesOn(c, TRUE, [r EXCEPT !.step = "organization", !.org = o, !.role = account.role[o]])
        PROVE  ContextInv'
    <3> PICK q \in Roles \cup {None} : q = account.role[o]
      BY <1>0, <2>3 DEF Context!Account
    <3> PICK s : s = [r EXCEPT !.step = "organization", !.org = o, !.role = q]
      OBVIOUS
    <3>1. /\ s \in Context!Call /\ s.step = "organization" /\ s.kind = r.kind /\ s.token = r.token /\ s.to = r.to
          /\ s.org = o /\ s.role = q /\ s.stale = r.stale /\ s.mixed = r.mixed /\ s.seen = r.seen
      BY <2>3 DEF Context!Call, Context!TenantReads
    <3>2. Targets(s) = {o} /\ o \in Targets(r)
      BY <1>0, <2>1, <2>3, <3>1 DEF Targets, Context!PlatformReads
    <3>3. Admissible(s, account, o) => Admissible(r, account, o)
      BY <2>1, <2>3, <3>1 DEF Admissible
    <3>4. Standing(s, account)
      BY <2>1, <2>2, <2>3, <3>1, <3>2, <3>3 DEF Standing, IsReading, AsRead, Passed, Context!TenantReads
    <3>5. Presented(s)
      <4>1. r.kind = "refresh" => r.org = session[r.token].context /\ r.org # None
        BY <1>0, <2>1, <2>2 DEF Presented, Context!TenantReads, Context!SessionRow, Context!Contexts
      <4> QED
        BY <2>1, <2>2, <2>3, <3>1, <4>1 DEF Presented, Context!TenantReads, Context!PlatformReads
    <3>6. Context!GoesOn(c, TRUE, s)
      BY <2>5
    <3> QED
      BY <1>4, <2>1, <3>1, <3>4, <3>5, <3>6, GoesOnAs
  <2>6. CASE Context!GoesOn(c, FALSE, None)
    BY <1>4, <2>1, <2>6, GoesOnAs
  <2>7. CASE \E o \in found :
             Context!GoesOn(c, TRUE, [r EXCEPT !.step = "organization", !.org = o, !.role = account.role[o]])
    <3> PICK o \in found :
             Context!GoesOn(c, TRUE, [r EXCEPT !.step = "organization", !.org = o, !.role = account.role[o]])
      BY <2>7
    <3> QED
      BY <2>5
  <2> QED
    BY <2>4, <2>6, <2>7
<1>9. CASE Context!ReadOrganization(c)
  <2>1. PICK r \in Context!Call : r = entry[c] /\ r.step = "organization"
    BY <1>5, <1>9 DEF Context!ReadOrganization
  <2> PICK s : s = [r EXCEPT !.step = "role"]
    OBVIOUS
  <2>2. /\ s \in Context!Call /\ s.step = "role" /\ s.kind = r.kind /\ s.token = r.token /\ s.to = r.to
        /\ s.org = r.org /\ s.role = r.role /\ s.stale = r.stale /\ s.mixed = r.mixed /\ s.seen = r.seen
    BY DEF Context!Call, Context!TenantReads
  <2> PICK good : good = (r.org \in account.organizations)
    OBVIOUS
  <2>3. Context!GoesOn(c, good, s)
    BY <1>9, <2>1 DEF Context!ReadOrganization
  <2>4. Standing(r, account) /\ Presented(r)
    BY <1>4, <2>1
  <2>5. r.org \in Orgs
    BY <2>1, <2>4 DEF Standing, IsReading, Passed, Context!TenantReads
  <2>6. Targets(s) = {r.org} /\ Targets(r) = {r.org}
    BY <1>0, <2>1, <2>2, <2>5 DEF Targets, Context!PlatformReads
  <2>7. good /\ Admissible(s, account, r.org) => Admissible(r, account, r.org)
    BY <2>1, <2>2 DEF Admissible
  <2>8. good => Standing(s, account)
    <3>1. /\ account \in r.seen /\ Passed(r, r.seen) /\ (~r.stale => AsRead(r, account))
          /\ ~r.mixed => \A x \in Targets(r) : Admissible(r, account, x) => Together(r.seen, x)
      BY <2>1, <2>4 DEF Standing, IsReading, Context!TenantReads
    <3>2. good => Passed(s, s.seen)
      <4>1. /\ \E a \in r.seen : a.active
            /\ \E m \in r.seen : r.org \in m.member /\ m.role[r.org] = r.role
        BY <2>1, <3>1 DEF Passed
      <4>2. good => \E o \in r.seen : r.org \in o.organizations
        BY <3>1
      <4> QED
        BY <2>2, <2>5, <4>1, <4>2 DEF Passed
    <3>3. good /\ ~s.stale => AsRead(s, account)
      BY <2>1, <2>2, <3>1 DEF AsRead
    <3>4. good /\ ~s.mixed => \A x \in Targets(s) : Admissible(s, account, x) => Together(s.seen, x)
      BY <2>2, <2>6, <2>7, <3>1
    <3> QED
      BY <2>2, <3>1, <3>2, <3>3, <3>4 DEF Standing
  <2>9. Presented(s)
    BY <2>1, <2>2, <2>4 DEF Presented, Context!TenantReads, Context!PlatformReads
  <2> QED
    BY <1>4, <2>1, <2>2, <2>3, <2>8, <2>9, GoesOnAs
<1>10. CASE Context!ReadRole(c)
  <2>1. PICK r \in Context!Call : r = entry[c] /\ r.step = "role"
    BY <1>5, <1>10 DEF Context!ReadRole
  <2>2. Standing(r, account) /\ Presented(r)
    BY <1>4, <2>1
  <2> PICK good : good = (r.role \in account.roles)
    OBVIOUS
  <2>3. CASE r.kind = "leave"
    <3> PICK k : k = [r EXCEPT !.kind = "select"]
      OBVIOUS
    <3>1. k \in Context!Call /\ k.kind = "select" /\ k.token = r.token /\ k.to = r.to
      BY DEF Context!Call
    <3>2. r.to \in Orgs
      BY <2>2, <2>3 DEF Presented
    <3>3. PICK s \in Context!Call :
            /\ s = Context!Asks(k, r.to) /\ s.kind = k.kind /\ s.token = k.token /\ s.to = k.to
            /\ s.step = "account" /\ s.org = r.to /\ Standing(s, account)
      BY <3>1, <3>2, Asking
    <3>4. Presented(s)
      BY <2>2, <2>3, <3>1, <3>3 DEF Presented
    <3>5. Context!GoesOn(c, good, s)
      BY <1>10, <2>1, <2>3, <3>3 DEF Context!ReadRole
    <3> QED
      BY <1>4, <2>1, <3>3, <3>4, <3>5, GoesOnAs
  <2>4. CASE r.kind # "leave"
    <3> PICK step : step = IF r.kind = "login" THEN "policy" ELSE "renewing"
      OBVIOUS
    <3> PICK s : s = [r EXCEPT !.step = step, !.context = r.org]
      OBVIOUS
    <3>1. r.org \in Orgs
      BY <2>1, <2>2 DEF Standing, IsReading, Passed, Context!TenantReads
    <3>0. step \in {"policy", "renewing"}
      OBVIOUS
    <3>2. /\ s \in Context!Call /\ s.step = step /\ s.kind = r.kind /\ s.token = r.token /\ s.to = r.to
          /\ s.context = r.org /\ s.mixed = r.mixed /\ s.seen = r.seen
      BY <3>0, <3>1 DEF Context!Call, Context!Contexts
    <3>3. Targets(r) = {r.org}
      BY <1>0, <2>1, <3>1 DEF Targets, Context!PlatformReads
    <3>4. ASSUME good PROVE r.mixed \/ Together(r.seen, r.org)
      <4>1. Admissible(r, account, r.org)
        BY <2>1, <3>4 DEF Admissible
      <4> QED
        BY <2>1, <2>2, <3>3, <4>1 DEF Standing, IsReading, Context!TenantReads
    <3>5. account \in r.seen /\ Passed(r, r.seen)
      BY <2>1, <2>2 DEF Standing, IsReading, Context!TenantReads
    <3>6. ASSUME good PROVE Enters(r.org, r.seen, r.mixed)
      <4>1. r.org # Platform
        BY <1>0, <3>1
      <4>2. PICK m \in r.seen : r.org \in m.member /\ m.role[r.org] = r.role
        BY <2>1, <3>5 DEF Passed
      <4>3. m.role[r.org] \in account.roles
        BY <3>6, <4>2
      <4>4. (\E a \in r.seen : a.active) /\ (\E o \in r.seen : r.org \in o.organizations)
        BY <2>1, <3>5 DEF Passed
      <4>5. \E n, q \in r.seen : r.org \in n.member /\ n.role[r.org] \in q.roles
        BY <3>5, <4>2, <4>3
      <4> QED
        BY <3>4, <3>6, <4>1, <4>4, <4>5 DEF Enters
    <3>7. good => Standing(s, account)
      BY <3>1, <3>2, <3>6 DEF Standing, IsReading, Context!Contexts, Context!TenantReads, Context!PlatformReads
    <3>8. Presented(s)
      BY <2>1, <2>2, <2>4, <3>2 DEF Presented, Context!TenantReads, Context!PlatformReads
    <3>9. Context!GoesOn(c, good, s)
      BY <1>10, <2>1, <2>4 DEF Context!ReadRole
    <3> QED
      BY <1>4, <2>1, <3>2, <3>7, <3>8, <3>9, GoesOnAs
  <2> QED
    BY <2>3, <2>4
<1>11. CASE Context!ReadAuthority(c)
  <2>1. PICK r \in Context!Call : r = entry[c] /\ r.step = "authority"
    BY <1>5, <1>11 DEF Context!ReadAuthority
  <2> PICK s : s = [r EXCEPT !.step = "holder"]
    OBVIOUS
  <2>2. /\ s \in Context!Call /\ s.step = "holder" /\ s.kind = r.kind /\ s.token = r.token /\ s.to = r.to
        /\ s.org = r.org /\ s.stale = r.stale /\ s.mixed = r.mixed /\ s.seen = r.seen
    BY DEF Context!Call, Context!PlatformReads
  <2>3. Context!GoesOn(c, account.admin, s)
    BY <1>11, <2>1 DEF Context!ReadAuthority
  <2>4. Standing(r, account) /\ Presented(r)
    BY <1>4, <2>1
  <2>5. Targets(s) = Targets(r)
    BY <2>1, <2>2 DEF Targets, Context!PlatformReads
  <2>6. ASSUME account.admin, NEW x, Admissible(s, account, x) PROVE Admissible(r, account, x)
    BY <2>1, <2>2, <2>6 DEF Admissible
  <2>7. account.admin => Standing(s, account)
    BY <2>1, <2>2, <2>4, <2>5, <2>6 DEF Standing, IsReading, AsRead, Passed, Context!PlatformReads
  <2>8. Presented(s)
    BY <2>1, <2>2, <2>4 DEF Presented, Context!TenantReads, Context!PlatformReads
  <2> QED
    BY <1>4, <2>1, <2>2, <2>3, <2>7, <2>8, GoesOnAs
<1>12. CASE Context!ReadHolder(c)
  <2>1. PICK r \in Context!Call : r = entry[c] /\ r.step = "holder"
    BY <1>5, <1>12 DEF Context!ReadHolder
  <2>2. Standing(r, account) /\ Presented(r)
    BY <1>4, <2>1
  <2> PICK step : step = IF r.kind = "login" THEN "opening" ELSE "renewing"
    OBVIOUS
  <2> PICK s : s = [r EXCEPT !.step = step, !.context = Platform]
    OBVIOUS
  <2>0. step \in {"opening", "renewing"}
    OBVIOUS
  <2>3. /\ s \in Context!Call /\ s.step = step /\ s.kind = r.kind /\ s.token = r.token /\ s.to = r.to
        /\ s.context = Platform /\ s.mixed = r.mixed /\ s.seen = r.seen
    <3>1. PICK x \in Context!Contexts \cup {None} : x = Platform
      BY DEF Context!Contexts
    <3>2. s = [r EXCEPT !.step = step, !.context = x]
      BY <3>1
    <3>3. /\ s \in Context!Call /\ s.step = step /\ s.kind = r.kind /\ s.token = r.token /\ s.to = r.to
          /\ s.context = x /\ s.mixed = r.mixed /\ s.seen = r.seen
      BY <2>0, <3>2 DEF Context!Call
    <3> QED
      BY <3>1, <3>3
  <2>4. Targets(r) = {Platform}
    BY <2>1 DEF Targets, Context!PlatformReads
  <2>5. ASSUME account.active PROVE r.mixed \/ Together(r.seen, Platform)
    <3>1. Admissible(r, account, Platform)
      BY <2>1, <2>5 DEF Admissible
    <3> QED
      BY <2>1, <2>2, <2>4, <3>1 DEF Standing, IsReading, Context!PlatformReads
  <2>6. account \in r.seen /\ Passed(r, r.seen)
    BY <2>1, <2>2 DEF Standing, IsReading, Context!PlatformReads
  <2>7. ASSUME account.active PROVE Enters(Platform, r.seen, r.mixed)
    BY <2>1, <2>5, <2>6, <2>7 DEF Enters, Passed
  <2>8. account.active => Standing(s, account)
    BY <2>3, <2>7 DEF Standing, IsReading, Context!Contexts, Context!TenantReads, Context!PlatformReads
  <2>9. Presented(s)
    BY <2>1, <2>2, <2>3 DEF Presented, Context!TenantReads, Context!PlatformReads
  <2>10. Context!GoesOn(c, account.active, s)
    BY <1>12, <2>1 DEF Context!ReadHolder
  <2> QED
    BY <1>4, <2>1, <2>3, <2>8, <2>9, <2>10, GoesOnAs
<1>13. CASE Context!ReadPolicy(c)
  <2>1. PICK r \in Context!Call : r = entry[c] /\ r.step = "policy"
    BY <1>5, <1>13 DEF Context!ReadPolicy
  <2>2. Standing(r, account) /\ Presented(r)
    BY <1>4, <2>1
  <2> PICK s : s = [r EXCEPT !.step = "opening"]
    OBVIOUS
  <2>3. /\ s \in Context!Call /\ s.step = "opening" /\ s.kind = r.kind /\ s.token = r.token /\ s.to = r.to
        /\ s.context = r.context /\ s.mixed = r.mixed /\ s.seen = r.seen
    BY DEF Context!Call
  <2>4. Standing(s, account) /\ Presented(s)
    BY <2>1, <2>2, <2>3 DEF Standing, Presented, IsReading, Context!TenantReads, Context!PlatformReads
  <2> PICK good : good = (r.context \in allowed)
    OBVIOUS
  <2>5. Context!GoesOn(c, good, s)
    BY <1>13, <2>1 DEF Context!ReadPolicy
  <2> QED
    BY <1>4, <2>1, <2>3, <2>4, <2>5, GoesOnAs
<1>14. CASE Context!ReadRenewed(c)
  <2>1. PICK r \in Context!Call : r = entry[c] /\ r.step = "renewing"
    BY <1>5, <1>14 DEF Context!ReadRenewed
  <2>2. Standing(r, account) /\ Presented(r)
    BY <1>4, <2>1
  <2> PICK s : s = [r EXCEPT !.step = "rotating"]
    OBVIOUS
  <2>3. /\ s \in Context!Call /\ s.step = "rotating" /\ s.kind = r.kind /\ s.token = r.token /\ s.to = r.to
        /\ s.context = r.context /\ s.mixed = r.mixed /\ s.seen = r.seen
    BY DEF Context!Call
  <2>4. Standing(s, account) /\ Presented(s)
    BY <2>1, <2>2, <2>3 DEF Standing, Presented, IsReading, Context!TenantReads, Context!PlatformReads
  <2>5. Context!GoesOn(c, account.active, s)
    BY <1>14, <2>1 DEF Context!ReadRenewed
  <2> QED
    BY <1>4, <2>1, <2>3, <2>4, <2>5, GoesOnAs
<1> QED
  BY <1>1, <1>2, <1>3, <1>6, <1>7, <1>8, <1>9, <1>10, <1>11, <1>12, <1>13, <1>14

\* LoginContext: a session is opened, or one is replaced.
LEMMA WriteSessionStep ==
    ASSUME ContextInv, NEW c \in Entries, entry' = [entry EXCEPT ![c] = None],
           NEW n \in Tokens, session[n] = None, NEW s \in Context!SessionRow,
           session' \in [Tokens -> Context!SessionRow \cup {None}], session'[n] = s,
           \A t \in Tokens \ {n} : /\ session'[t] = None <=> session[t] = None
                                   /\ session[t] # None => session'[t].context = session[t].context
                                                           /\ session'[t].from = session[t].from,
           s.from # None => session[s.from] # None /\ s.context = session[s.from].context,
           UNCHANGED <<account, allowed, moves>>
    PROVE  ContextInv'
<1> USE ContextTypes DEF ContextInv
<1>1. /\ entry' \in [Entries -> Context!Call \cup {None}] /\ entry'[c] = None
      /\ \A d \in Entries \ {c} : entry'[d] = entry[d]
  OBVIOUS
<1>2. Context!ContextTypeOK'
  BY <1>1 DEF Context!ContextTypeOK
<1>3. \A t \in Tokens : session[t] # None => session'[t] # None /\ session'[t].context = session[t].context
  OBVIOUS
<1>4. ASSUME NEW t \in Tokens, session'[t] # None, session'[t].from # None
      PROVE  session'[session'[t].from] # None /\ session'[session'[t].from].context = session'[t].context
  <2>0. \A x \in Context!SessionRow : x.from \in Tokens \cup {None}
    BY DEF Context!SessionRow
  <2>1. CASE t = n
    BY <1>3, <1>4, <2>0, <2>1
  <2>2. CASE t # n
    <3>1. session[t] # None /\ session'[t].from = session[t].from /\ session'[t].context = session[t].context
      BY <1>4, <2>2
    <3>2. session[t].from \in Tokens
      BY <1>4, <2>0, <3>1
    <3>3. session[session[t].from] # None /\ session[session[t].from].context = session[t].context
      BY <1>4, <3>1 DEF SuccessorsStay
    <3> QED
      BY <1>3, <3>1, <3>2, <3>3
  <2> QED
    BY <2>1, <2>2
<1>5. ASSUME NEW d \in Entries, entry'[d] # None
      PROVE  (Standing(entry[d], account) /\ Presented(entry[d]))'
  <2>1. PICK r : r = entry[d]
    OBVIOUS
  <2>2. entry'[d] = r /\ Standing(r, account) /\ Presented(r)
    BY <1>1, <1>5, <2>1
  <2>3. Presented(r)'
    BY <1>3, <2>2 DEF Presented
  <2> QED
    BY <2>2, <2>3
<1> QED
  BY <1>2, <1>4, <1>5 DEF SuccessorsStay

\* LoginContext: the session that a call opens, and why it may.
LEMMA OpenStep ==
    ASSUME ContextInv, NEW c \in Entries, Context!OpenSession(c)
    PROVE  /\ ContextInv'
           /\ \A t \in Tokens : session[t] = None /\ session'[t] # None =>
                /\ entry[c] # None /\ entry'[c] = None
                /\ session'[t].context \in Context!Contexts
                /\ Enters(session'[t].context, entry[c].seen, entry[c].mixed)
<1>0. /\ session \in [Tokens -> Context!SessionRow \cup {None}]
      /\ entry \in [Entries -> Context!Call \cup {None}] /\ None \notin Context!Call
      /\ None \notin Tokens /\ None \notin Context!SessionRow
  BY ContextTypes DEF ContextInv
<1>1. PICK r \in Context!Call : r = entry[c] /\ r.step = "opening"
  BY <1>0 DEF Context!OpenSession, Context!At
<1>2. Standing(r, account) /\ entry[c] # None
  BY <1>0, <1>1 DEF ContextInv
<1>3. r.context \in Context!Contexts /\ Enters(r.context, r.seen, r.mixed)
  BY <1>1, <1>2 DEF Standing
<1> PICK s : s = [live |-> TRUE, context |-> r.context, from |-> None]
  OBVIOUS
<1>4. s \in Context!SessionRow /\ s.from = None /\ s.context = r.context
  BY <1>3 DEF Context!SessionRow
<1>5. PICK n \in Context!Fresh : session' = [session EXCEPT ![n] = s]
  BY <1>1 DEF Context!OpenSession
<1>6. n \in Tokens /\ session[n] = None
  BY DEF Context!Fresh
<1>7. entry' = [entry EXCEPT ![c] = None] /\ UNCHANGED <<account, allowed, moves>>
  BY DEF Context!OpenSession
<1>8. /\ session' \in [Tokens -> Context!SessionRow \cup {None}] /\ session'[n] = s
      /\ \A t \in Tokens \ {n} : session'[t] = session[t]
  BY <1>0, <1>4, <1>5, <1>6
<1>9. ContextInv'
  BY <1>4, <1>6, <1>7, <1>8, WriteSessionStep
<1>10. entry'[c] = None
  BY <1>0, <1>7
<1>11. ASSUME NEW t \in Tokens, session[t] = None, session'[t] # None PROVE session'[t] = s
  BY <1>6, <1>8, <1>11
<1> QED
  BY <1>1, <1>2, <1>3, <1>4, <1>9, <1>10, <1>11

\* LoginContext: the session that takes the place of another one.
LEMMA RotateStep ==
    ASSUME ContextInv, NEW c \in Entries, Context!Rotate(c)
    PROVE  /\ ContextInv'
           /\ \A t \in Tokens : session[t] = None /\ session'[t] # None =>
                /\ entry[c] # None /\ entry'[c] = None
                /\ session'[t].context \in Context!Contexts
                /\ Enters(session'[t].context, entry[c].seen, entry[c].mixed)
<1>0. /\ session \in [Tokens -> Context!SessionRow \cup {None}]
      /\ entry \in [Entries -> Context!Call \cup {None}] /\ None \notin Context!Call
      /\ None \notin Tokens /\ None \notin Context!SessionRow
  BY ContextTypes DEF ContextInv
<1>1. PICK r \in Context!Call : r = entry[c] /\ r.step = "rotating"
  BY <1>0 DEF Context!Rotate, Context!At
<1>2. Standing(r, account) /\ Presented(r) /\ entry[c] # None
  BY <1>0, <1>1 DEF ContextInv
<1>3. r.context \in Context!Contexts /\ Enters(r.context, r.seen, r.mixed)
  BY <1>1, <1>2 DEF Standing
<1>4. r.token \in Tokens /\ session[r.token] # None
      /\ (r.kind = "refresh" => r.context = session[r.token].context)
  BY <1>1, <1>2 DEF Presented
<1>5. entry' = [entry EXCEPT ![c] = None] /\ UNCHANGED <<account, allowed, moves>>
  BY Zenon DEF Context!Rotate
<1>6. entry'[c] = None
  BY <1>0, <1>5
<1>7. CASE ~session[r.token].live
  <2>1. session' = session
    BY <1>1, <1>7 DEF Context!Rotate
  <2>2. ContextInv'
    <3>1. UNCHANGED <<account, allowed, session, moves>>
      BY <1>5, <2>1
    <3> QED
      BY <1>5, <3>1, EntryStep
  <2> QED
    BY <2>1, <2>2
<1>8. CASE session[r.token].live
  <2> PICK from : from = IF r.kind = "refresh" THEN r.token ELSE None
    OBVIOUS
  <2> PICK s : s = [live |-> TRUE, context |-> r.context, from |-> from]
    OBVIOUS
  <2>1. /\ s \in Context!SessionRow /\ s.from = from /\ s.context = r.context
        /\ s.from # None => session[s.from] # None /\ s.context = session[s.from].context
    BY <1>3, <1>4 DEF Context!SessionRow
  <2>2. PICK n \in Context!Fresh : session' = [session EXCEPT ![r.token].live = FALSE, ![n] = s]
    <3>1. \E n \in Context!Fresh : session' = [session EXCEPT
            ![r.token].live = FALSE,
            ![n] = [live |-> TRUE, context |-> r.context, from |-> IF r.kind = "refresh" THEN r.token ELSE None]]
      BY <1>1, <1>8, Zenon DEF Context!Rotate
    <3> QED
      BY <3>1, Zenon
  <2>3. n \in Tokens /\ session[n] = None /\ n # r.token
    BY <1>4 DEF Context!Fresh
  <2> PICK old \in Context!SessionRow : old = session[r.token]
    BY <1>0, <1>4
  <2> PICK row : row = [old EXCEPT !.live = FALSE]
    OBVIOUS
  <2>4. row \in Context!SessionRow /\ row.context = old.context /\ row.from = old.from
    BY DEF Context!SessionRow
  <2>5. session' = [[session EXCEPT ![r.token] = row] EXCEPT ![n] = s]
    BY <2>2
  <2>6. /\ session' \in [Tokens -> Context!SessionRow \cup {None}] /\ session'[n] = s
        /\ session'[r.token] = row /\ \A t \in Tokens \ {n, r.token} : session'[t] = session[t]
    BY <1>0, <1>4, <2>1, <2>3, <2>4, <2>5
  <2>7. \A t \in Tokens \ {n} : /\ session'[t] = None <=> session[t] = None
                                /\ session[t] # None => session'[t].context = session[t].context
                                                        /\ session'[t].from = session[t].from
    BY <1>0, <1>4, <2>4, <2>6
  <2>8. ContextInv'
    BY <1>5, <2>1, <2>3, <2>6, <2>7, WriteSessionStep
  <2>9. ASSUME NEW t \in Tokens, session[t] = None, session'[t] # None PROVE session'[t] = s
    BY <2>3, <2>6, <2>7, <2>9
  <2> QED
    BY <1>1, <1>2, <1>3, <1>6, <2>1, <2>8, <2>9
<1> QED
  BY <1>7, <1>8

\* The rows v are u but for one row, of this organization or role if it is one's.
ButFor(row, of, u, v) ==
    /\ row # "account" => v.active = u.active
    /\ row # "authority" => v.admin = u.admin
    /\ \A o \in Orgs :
         /\ row # "membership" \/ o # of => (o \in v.member <=> o \in u.member) /\ v.role[o] = u.role[o]
         /\ row # "organization" \/ o # of => (o \in v.organizations <=> o \in u.organizations)
    /\ \A r \in Roles : row # "role" \/ r # of => (r \in v.roles <=> r \in u.roles)

\* The row is one that k would look at.
Concerns(k, row, of) ==
    CASE row \in {"membership", "organization"} -> k.org \in {None, of}
      [] row = "role" -> k.role \in {None, of}
      [] OTHER -> TRUE

\* LoginContext: a change of a row that was not read leaves what was read as it is,
\* and one of a row that is not to be read leaves what is to be found.
LEMMA OtherRows ==
    ASSUME NEW k \in Context!Call, IsReading(k), NEW S, Passed(k, S), NEW u \in Context!Account,
           NEW v \in Context!Account, NEW row, NEW of, ButFor(row, of, u, v), NEW x \in Targets(k),
           Platform \notin Orgs, None \notin Orgs, None \notin Roles
    PROVE  /\ ~(row \in Context!Decides(k) \ Context!ToRead(k) /\ Concerns(k, row, of)) /\ AsRead(k, u) => AsRead(k, v)
           /\ ~(row \in Context!ToRead(k) /\ Concerns(k, row, of)) /\ Admissible(k, v, x) => Admissible(k, u, x)
<1>1. k.step \in {"account", "membership", "organization", "role", "authority", "holder"}
  BY DEF IsReading, Context!TenantReads, Context!PlatformReads
<1>2. /\ u.roles \subseteq Roles /\ v.roles \subseteq Roles /\ k.role \in Roles \cup {None}
      /\ \A o \in Orgs : u.role[o] \in Roles \cup {None} /\ v.role[o] \in Roles \cup {None}
  BY DEF Context!Account, Context!Call
<1>3. /\ row # "account" => v.active = u.active
      /\ row # "authority" => v.admin = u.admin
  BY DEF ButFor
<1>4. row \in {"account", "authority"} => Concerns(k, row, of)
  BY DEF Concerns
<1>5. CASE k.step \in {"account", "membership", "organization", "role"}
  <2>1. x \in Orgs /\ (k.org # None => x = k.org) /\ x # Platform
    BY <1>5 DEF Targets, Context!PlatformReads, Context!Call
  <2>2. /\ ~(row = "membership" /\ Concerns(k, row, of)) => (x \in v.member <=> x \in u.member) /\ v.role[x] = u.role[x]
        /\ ~(row = "organization" /\ Concerns(k, row, of)) => (x \in v.organizations <=> x \in u.organizations)
    BY <2>1 DEF ButFor, Concerns
  <2>3. ASSUME NEW r \in Roles, k.role \in {None, r}, ~(row = "role" /\ Concerns(k, row, of))
        PROVE  r \in v.roles <=> r \in u.roles
    <3>1. row # "role" \/ r # of
      BY <2>3 DEF Concerns
    <3> QED
      BY <3>1 DEF ButFor
  <2>4. Context!Decides(k) = {"account", "membership", "organization", "role"}
    BY <1>5 DEF Context!Decides, Context!TenantReads, Context!PlatformReads
  <2>5. CASE k.step = "account"
    <3>1. Context!ToRead(k) = {"account", "membership", "organization", "role"}
      BY <2>5 DEF Context!ToRead, Context!TenantReads
    <3>2. k.role = None
      BY <2>5 DEF Passed
    <3>3. AsRead(k, v)
      BY <2>5 DEF AsRead
    <3>4. ASSUME ~(row \in Context!ToRead(k) /\ Concerns(k, row, of)), Context!Holds(v, x) PROVE Context!Holds(u, x)
      <4>1. v.active /\ x \in v.member /\ x \in v.organizations /\ v.role[x] \in v.roles
        BY <2>1, <3>4 DEF Context!Holds
      <4>2. u.active /\ x \in u.member /\ x \in u.organizations /\ u.role[x] = v.role[x]
        BY <1>3, <1>4, <2>2, <3>1, <3>4, <4>1
      <4>3. u.role[x] \in u.roles
        BY <1>2, <2>3, <3>1, <3>2, <3>4, <4>1, <4>2
      <4> QED
        BY <2>1, <4>2, <4>3 DEF Context!Holds
    <3> QED
      BY <2>5, <3>3, <3>4 DEF Admissible
  <2>6. CASE k.step = "membership"
    <3>1. Context!ToRead(k) = {"membership", "organization", "role"}
      BY <2>6 DEF Context!ToRead
    <3>2. k.role = None
      BY <2>6 DEF Passed
    <3>3. ~(row = "account") /\ AsRead(k, u) => AsRead(k, v)
      BY <1>3, <2>6 DEF AsRead
    <3>4. ASSUME ~(row \in Context!ToRead(k) /\ Concerns(k, row, of)), Admissible(k, v, x) PROVE Admissible(k, u, x)
      <4>1. x \in v.member /\ x \in v.organizations /\ v.role[x] \in v.roles
        BY <2>6, <3>4 DEF Admissible
      <4>2. x \in u.member /\ x \in u.organizations /\ u.role[x] = v.role[x]
        BY <2>2, <3>1, <3>4, <4>1
      <4>3. u.role[x] \in u.roles
        BY <1>2, <2>3, <3>1, <3>2, <3>4, <4>1, <4>2
      <4> QED
        BY <2>6, <4>2, <4>3 DEF Admissible
    <3> QED
      BY <1>4, <2>4, <3>1, <3>3, <3>4
  <2>7. CASE k.step = "organization"
    <3>1. Context!ToRead(k) = {"organization", "role"}
      BY <2>7 DEF Context!ToRead
    <3>2. k.org \in Orgs /\ x = k.org
      BY <2>1, <2>7 DEF Passed
    <3>3. ASSUME ~(row \in Context!Decides(k) \ Context!ToRead(k) /\ Concerns(k, row, of)), AsRead(k, u)
          PROVE  AsRead(k, v)
      BY <1>3, <1>4, <2>2, <2>4, <2>7, <3>1, <3>2, <3>3 DEF AsRead
    <3>4. ASSUME ~(row \in Context!ToRead(k) /\ Concerns(k, row, of)), Admissible(k, v, x) PROVE Admissible(k, u, x)
      <4>1. x \in v.organizations /\ k.role \in v.roles
        BY <2>7, <3>4 DEF Admissible
      <4>2. x \in u.organizations
        BY <2>2, <3>1, <3>4, <4>1
      <4>3. k.role \in u.roles
        BY <1>2, <2>3, <3>1, <3>4, <4>1
      <4> QED
        BY <2>7, <4>2, <4>3 DEF Admissible
    <3> QED
      BY <3>3, <3>4
  <2>8. CASE k.step = "role"
    <3>1. Context!ToRead(k) = {"role"}
      BY <2>8 DEF Context!ToRead
    <3>2. k.org \in Orgs /\ x = k.org
      BY <2>1, <2>8 DEF Passed
    <3>3. ASSUME ~(row \in Context!Decides(k) \ Context!ToRead(k) /\ Concerns(k, row, of)), AsRead(k, u)
          PROVE  AsRead(k, v)
      BY <1>3, <1>4, <2>2, <2>4, <2>8, <3>1, <3>2, <3>3 DEF AsRead
    <3>4. ASSUME ~(row \in Context!ToRead(k) /\ Concerns(k, row, of)), Admissible(k, v, x) PROVE Admissible(k, u, x)
      <4>1. k.role \in v.roles
        BY <2>8, <3>4 DEF Admissible
      <4>2. k.role \in u.roles
        BY <1>2, <2>3, <3>1, <3>4, <4>1
      <4> QED
        BY <2>8, <4>2 DEF Admissible
    <3> QED
      BY <3>3, <3>4
  <2> QED
    BY <1>5, <2>5, <2>6, <2>7, <2>8
<1>6. CASE k.step \in {"authority", "holder"}
  <2>1. Context!Decides(k) = {"authority", "account"}
    BY <1>6 DEF Context!Decides, Context!PlatformReads
  <2>2. CASE k.step = "authority"
    <3>1. Context!ToRead(k) = {"authority", "account"}
      BY <2>2 DEF Context!ToRead
    <3> QED
      BY <1>3, <1>4, <2>2, <3>1 DEF AsRead, Admissible
  <2>3. CASE k.step = "holder"
    <3>1. Context!ToRead(k) = {"account"}
      BY <2>3 DEF Context!ToRead
    <3> QED
      BY <1>3, <1>4, <2>1, <2>3, <3>1 DEF AsRead, Admissible
  <2> QED
    BY <1>6, <2>2, <2>3
<1> QED
  BY <1>1, <1>5, <1>6

\* LoginContext: what a call may rely on after a row has become another.
LEMMA StandingMeanwhile ==
    ASSUME NEW k \in Context!Call, NEW u \in Context!Account, NEW v \in Context!Account, NEW row, NEW of,
           ButFor(row, of, u, v), IsReading(k), Standing(k, u),
           Platform \notin Orgs, None \notin Orgs, None \notin Roles
    PROVE  \E s \in Context!Call :
              /\ s = Context!Meanwhile(k, row, of, v) /\ Standing(s, v)
              /\ s.step = k.step /\ s.kind = k.kind /\ s.token = k.token /\ s.to = k.to
              /\ s.org = k.org /\ s.context = k.context
<1> DEFINE touches == row \in Context!Decides(k) \ Context!ToRead(k) /\ Concerns(k, row, of)
           misses == row \in Context!ToRead(k) /\ Concerns(k, row, of)
<1>1. PICK a, b \in BOOLEAN : a = (k.stale \/ touches) /\ b = (k.mixed \/ (k.stale /\ misses))
  OBVIOUS
<1>2. PICK S : S = k.seen \cup {v}
  OBVIOUS
<1>3. PICK s : s = [k EXCEPT !.stale = a, !.mixed = b, !.seen = S]
  OBVIOUS
<1>4. /\ s \in Context!Call /\ s.step = k.step /\ s.kind = k.kind /\ s.token = k.token /\ s.to = k.to
      /\ s.org = k.org /\ s.role = k.role /\ s.context = k.context
      /\ s.stale = a /\ s.mixed = b /\ s.seen = S
  BY <1>2, <1>3 DEF Context!Call
<1>5. s = Context!Meanwhile(k, row, of, v)
  BY <1>1, <1>2, <1>3 DEF Context!Meanwhile, Concerns
<1>6. /\ u \in k.seen /\ (~k.stale => AsRead(k, u)) /\ Passed(k, k.seen)
      /\ (~k.mixed => \A x \in Targets(k) : Admissible(k, u, x) => Together(k.seen, x))
  BY DEF Standing
<1>7. \A x \in Targets(k) : /\ ~touches /\ AsRead(k, u) => AsRead(k, v)
                            /\ ~misses /\ Admissible(k, v, x) => Admissible(k, u, x)
  BY <1>6, OtherRows
<1>8. \A x : Together(k.seen, x) => Together(S, x)
  BY <1>2 DEF Together
<1>9. Passed(k, S) /\ v \in S
  BY <1>2, <1>6 DEF Passed
<1>10. ~touches \/ ~misses
  OBVIOUS
<1> HIDE DEF touches, misses
<1>11. ASSUME ~b, NEW x \in Targets(k), Admissible(k, v, x) PROVE Together(S, x)
  <2>1. CASE misses
    <3>1. ~k.stale /\ ~touches
      BY <1>1, <1>10, <1>11, <2>1
    <3>2. AsRead(k, v)
      BY <1>6, <1>7, <1>11, <3>1
    <3> QED
      BY <1>9, <1>11, <3>2, HeldNow
  <2>2. CASE ~misses
    BY <1>1, <1>6, <1>7, <1>8, <1>11, <2>2
  <2> QED
    BY <2>1, <2>2
<1>12. ~a => AsRead(k, v)
  <2>0. k.step \in {"account", "membership", "organization", "role", "authority", "holder"}
    BY DEF IsReading, Context!TenantReads, Context!PlatformReads
  <2>1. CASE k.step = "account"
    BY <2>1 DEF AsRead
  <2>2. CASE k.step = "membership"
    <3>1. "account" \in Context!Decides(k) \ Context!ToRead(k)
      BY <2>2 DEF Context!Decides, Context!ToRead, Context!TenantReads, Context!PlatformReads
    <3>2. touches \/ row # "account"
      BY <3>1 DEF touches, Concerns
    <3>3. row # "account" /\ AsRead(k, u) => AsRead(k, v)
      BY <2>2 DEF AsRead, ButFor
    <3> QED
      BY <1>1, <1>6, <3>2, <3>3
  <2>3. CASE k.step \in {"organization", "role", "authority", "holder"}
    <3>1. (IF k.step \in {"authority", "holder"} THEN Platform ELSE k.org) \in Targets(k)
      BY <1>6, <2>3 DEF Targets, Passed, Context!PlatformReads
    <3>2. ~touches /\ AsRead(k, u) => AsRead(k, v)
      BY <1>7, <3>1
    <3> QED
      BY <1>1, <1>6, <3>2
  <2> QED
    BY <2>0, <2>1, <2>2, <2>3
<1>13. Targets(s) = Targets(k) /\ (AsRead(s, v) <=> AsRead(k, v)) /\ (Passed(s, S) <=> Passed(k, S))
       /\ \A x : Admissible(s, v, x) <=> Admissible(k, v, x)
  BY <1>4 DEF Targets, AsRead, Passed, Admissible
<1>14. Standing(s, v)
  BY <1>4, <1>9, <1>11, <1>12, <1>13 DEF Standing, IsReading, Context!TenantReads, Context!PlatformReads
<1> QED
  BY <1>4, <1>5, <1>14

\* LoginContext: a row becomes another.
LEMMA RowBecomes ==
    ASSUME ContextInv, moves' \in 0..MaxMoves,
           NEW row, NEW of, NEW v \in Context!Account, ButFor(row, of, account, v),
           Context!Becomes(row, of, v)
    PROVE  ContextInv'
<1>0. /\ account \in Context!Account /\ session \in [Tokens -> Context!SessionRow \cup {None}]
      /\ entry \in [Entries -> Context!Call \cup {None}] /\ None \notin Context!Call
      /\ Platform \notin Orgs /\ None \notin Orgs /\ None \notin Roles
  BY ContextTypes DEF ContextInv
<1>1. /\ account' = v /\ UNCHANGED <<allowed, session>>
      /\ entry' = [c \in Entries |-> IF Context!Reading(c) THEN Context!Meanwhile(entry[c], row, of, v) ELSE entry[c]]
  BY Zenon DEF Context!Becomes
<1>2. ASSUME NEW d \in Entries
      PROVE  /\ entry'[d] \in Context!Call \cup {None}
             /\ entry'[d] # None => Standing(entry'[d], v) /\ Presented(entry'[d])
  <2>0. entry'[d] = IF Context!Reading(d) THEN Context!Meanwhile(entry[d], row, of, v) ELSE entry[d]
    BY <1>1
  <2>1. CASE ~Context!Reading(d)
    <3>1. CASE entry[d] = None
      BY <2>0, <2>1, <3>1
    <3>2. CASE entry[d] # None
      <4>1. PICK k \in Context!Call : k = entry[d]
        BY <1>0, <3>2
      <4>2. Standing(k, account) /\ Presented(k) /\ ~IsReading(k)
        BY <2>1, <3>2, <4>1 DEF ContextInv, Context!Reading, IsReading
      <4>3. Standing(k, v)
        BY <4>2 DEF Standing
      <4> QED
        BY <2>0, <2>1, <4>1, <4>2, <4>3
    <3> QED
      BY <3>1, <3>2
  <2>2. CASE Context!Reading(d)
    <3>1. PICK k \in Context!Call : k = entry[d] /\ entry[d] # None /\ IsReading(k)
      BY <1>0, <2>2 DEF Context!Reading, IsReading
    <3>2. Standing(k, account) /\ Presented(k)
      BY <3>1 DEF ContextInv
    <3>3. PICK s \in Context!Call :
            /\ s = Context!Meanwhile(k, row, of, v) /\ Standing(s, v)
            /\ s.step = k.step /\ s.kind = k.kind /\ s.token = k.token /\ s.to = k.to
            /\ s.org = k.org /\ s.context = k.context
      BY <1>0, <3>1, <3>2, StandingMeanwhile
    <3>4. Presented(s)
      BY <3>2, <3>3 DEF Presented
    <3>5. entry'[d] = s
      BY <2>0, <2>2, <3>1, <3>3
    <3> QED
      BY <3>3, <3>4, <3>5
  <2> QED
    BY <2>1, <2>2
<1>3. Context!ContextTypeOK'
  <2>1. entry' \in [Entries -> Context!Call \cup {None}]
    BY <1>1, <1>2
  <2> QED
    BY <1>1, <2>1 DEF ContextInv, Context!ContextTypeOK
<1>4. SuccessorsStay'
  BY <1>1 DEF ContextInv, SuccessorsStay
<1>5. ASSUME NEW d \in Entries, entry'[d] # None PROVE (Standing(entry[d], account) /\ Presented(entry[d]))'
  <2>1. PICK s : s = entry'[d]
    OBVIOUS
  <2>2. Standing(s, v) /\ Presented(s)
    BY <1>2, <1>5, <2>1
  <2>3. Presented(s)'
    BY <1>1, <2>2 DEF Presented
  <2>4. Standing(entry'[d], account')
    BY <1>1, <2>1, <2>2
  <2> QED
    BY <2>1, <2>3, <2>4
<1> QED
  BY <1>3, <1>4, <1>5 DEF ContextInv

\* LoginContext: each change of a row.
LEMMA AccountChanges == ContextInv /\ Context!Change => ContextInv'
<1> SUFFICES ASSUME ContextInv, Context!Change PROVE ContextInv'
  OBVIOUS
<1>0. /\ account \in Context!Account /\ allowed \subseteq Orgs /\ moves \in 0..MaxMoves /\ MaxMoves \in Nat
      /\ session \in [Tokens -> Context!SessionRow \cup {None}]
  BY ContextTypes DEF ContextInv
<1>1. moves' \in 0..MaxMoves
  <2>1. moves < MaxMoves /\ moves' = moves + 1
    BY Zenon DEF Context!Change
  <2> QED
    BY <1>0, <2>1
<1> PICK u \in Context!Account : u = account
  BY <1>0
<1>2. ASSUME Context!Becomes("account", None, [u EXCEPT !.active = ~@]) PROVE ContextInv'
  <2>1. PICK v : v = [u EXCEPT !.active = ~@]
    OBVIOUS
  <2>2. v \in Context!Account /\ ButFor("account", None, u, v)
    BY <2>1 DEF Context!Account, ButFor
  <2> QED
    BY <1>1, <1>2, <2>1, <2>2, RowBecomes
<1>3. ASSUME Context!Becomes("authority", None, [u EXCEPT !.admin = ~@]) PROVE ContextInv'
  <2>1. PICK v : v = [u EXCEPT !.admin = ~@]
    OBVIOUS
  <2>2. v \in Context!Account /\ ButFor("authority", None, u, v)
    BY <2>1 DEF Context!Account, ButFor
  <2> QED
    BY <1>1, <1>3, <2>1, <2>2, RowBecomes
<1>4. ASSUME NEW o \in Orgs \cup {None}, Context!Becomes("default", None, [u EXCEPT !.default = o])
      PROVE  ContextInv'
  <2>1. PICK v : v = [u EXCEPT !.default = o]
    OBVIOUS
  <2>2. v \in Context!Account /\ ButFor("default", None, u, v)
    BY <2>1 DEF Context!Account, ButFor
  <2> QED
    BY <1>1, <1>4, <2>1, <2>2, RowBecomes
<1>5. ASSUME NEW S \in SUBSET Orgs, NEW o \in Orgs PROVE
        /\ Context!Switched(S, o) \in SUBSET Orgs
        /\ \A x \in Orgs \ {o} : x \in Context!Switched(S, o) <=> x \in S
  BY DEF Context!Switched
<1>6. ASSUME NEW o \in Orgs, NEW r \in Roles \cup {None}, NEW member \in {u.member, Context!Switched(u.member, o)},
             Context!Becomes("membership", o, [u EXCEPT !.member = member, !.role = [@ EXCEPT ![o] = r]])
      PROVE  ContextInv'
  <2>1. PICK f : f = [u.role EXCEPT ![o] = r]
    OBVIOUS
  <2>2. PICK v : v = [u EXCEPT !.member = member, !.role = f]
    OBVIOUS
  <2>3. /\ u.member \in SUBSET Orgs /\ u.role \in [Orgs -> Roles \cup {None}]
    BY DEF Context!Account
  <2>4. member \in SUBSET Orgs /\ \A x \in Orgs \ {o} : x \in member <=> x \in u.member
    BY <1>5, <2>3
  <2>5. f \in [Orgs -> Roles \cup {None}] /\ \A x \in Orgs \ {o} : f[x] = u.role[x]
    BY <2>1, <2>3
  <2>6. v \in Context!Account
    BY <2>2, <2>4, <2>5 DEF Context!Account
  <2>7. ButFor("membership", o, u, v)
    BY <2>2, <2>4, <2>5 DEF Context!Account, ButFor
  <2>8. Context!Becomes("membership", o, v)
    BY <1>6, <2>1, <2>2
  <2> QED
    BY <1>1, <2>6, <2>7, <2>8, RowBecomes
<1>7. ASSUME NEW o \in Orgs,
             Context!Becomes("organization", o, [u EXCEPT !.organizations = Context!Switched(@, o)])
      PROVE  ContextInv'
  <2>1. PICK S : S = Context!Switched(u.organizations, o)
    OBVIOUS
  <2>2. S \in SUBSET Orgs /\ \A x \in Orgs \ {o} : x \in S <=> x \in u.organizations
    BY <1>5, <2>1 DEF Context!Account
  <2>3. PICK v : v = [u EXCEPT !.organizations = S]
    OBVIOUS
  <2>4. v \in Context!Account /\ ButFor("organization", o, u, v)
    BY <2>2, <2>3 DEF Context!Account, ButFor
  <2>5. Context!Becomes("organization", o, v)
    BY <1>7, <2>1, <2>3
  <2> QED
    BY <1>1, <2>4, <2>5, RowBecomes
<1>8. ASSUME NEW r \in Roles, Context!Becomes("role", r, [u EXCEPT !.roles = Context!Switched(@, r)])
      PROVE  ContextInv'
  <2>1. PICK S : S = Context!Switched(u.roles, r)
    OBVIOUS
  <2>2. S \in SUBSET Roles /\ \A x \in Roles \ {r} : x \in S <=> x \in u.roles
    BY <2>1 DEF Context!Switched, Context!Account
  <2>3. PICK v : v = [u EXCEPT !.roles = S]
    OBVIOUS
  <2>4. v \in Context!Account /\ ButFor("role", r, u, v)
    BY <2>2, <2>3 DEF Context!Account, ButFor
  <2>5. Context!Becomes("role", r, v)
    BY <1>8, <2>1, <2>3
  <2> QED
    BY <1>1, <2>4, <2>5, RowBecomes
<1>9. ASSUME NEW o \in Orgs, allowed' = Context!Switched(allowed, o), UNCHANGED <<account, session, entry>>
      PROVE  ContextInv'
  <2>1. allowed' \subseteq Orgs
    BY <1>0, <1>5, <1>9
  <2>2. Context!ContextTypeOK' /\ SuccessorsStay'
    BY <1>1, <1>9, <2>1 DEF ContextInv, Context!ContextTypeOK, SuccessorsStay
  <2>3. \A c \in Entries : entry'[c] # None => (Standing(entry[c], account) /\ Presented(entry[c]))'
    BY <1>9 DEF ContextInv, Presented
  <2> QED
    BY <2>2, <2>3 DEF ContextInv
<1>10. /\ \A o \in Orgs, r \in Roles \cup {None} : \A member \in {u.member, Context!Switched(u.member, o)} :
            Context!Becomes("membership", o, [u EXCEPT !.member = member, !.role = [@ EXCEPT ![o] = r]]) => ContextInv'
       /\ \A o \in Orgs \cup {None} : Context!Becomes("default", None, [u EXCEPT !.default = o]) => ContextInv'
       /\ \A o \in Orgs :
            Context!Becomes("organization", o, [u EXCEPT !.organizations = Context!Switched(@, o)]) => ContextInv'
       /\ \A r \in Roles : Context!Becomes("role", r, [u EXCEPT !.roles = Context!Switched(@, r)]) => ContextInv'
  BY <1>4, <1>6, <1>7, <1>8
<1> QED
  BY <1>2, <1>3, <1>9, <1>10 DEF Context!Change

\* LoginContext: every step keeps the invariant.
LEMMA ContextStep == ContextInv /\ [Context!ContextNext]_contextVars => ContextInv'
<1> SUFFICES ASSUME ContextInv, [Context!ContextNext]_contextVars PROVE ContextInv'
  OBVIOUS
<1>1. ASSUME NEW c \in Entries, Context!OpenSession(c) \/ Context!Rotate(c) PROVE ContextInv'
  BY <1>1, OpenStep, RotateStep
<1>2. CASE UNCHANGED contextVars
  BY <1>2, Zenon DEF contextVars, ContextInv, Context!ContextTypeOK, SuccessorsStay, Presented
<1> QED
  BY <1>1, <1>2, EntryGoesOn, AccountChanges DEF Context!ContextNext

\* LoginContext: a session is opened in a context its user held while the call
\* read the rows of it, unless they were mixed; then each was good at some moment.
LEMMA EnterStep ==
    ASSUME ContextInv, [Context!ContextNext]_contextVars, NEW t \in Tokens, session[t] = None, session'[t] # None
    PROVE  \E c \in Entries : entry[c] # None /\ entry'[c] = None /\
             Enters(session'[t].context, entry[c].seen, entry[c].mixed)
<1>1. ASSUME NEW c \in Entries, Context!OpenSession(c) \/ Context!Rotate(c)
      PROVE  entry[c] # None /\ entry'[c] = None /\ Enters(session'[t].context, entry[c].seen, entry[c].mixed)
  BY <1>1, OpenStep, RotateStep
<1>2. ASSUME NEW c \in Entries,
             \/ Context!LogIn(c) \/ \E u \in Tokens, to \in Orgs \cup {None} : Context!Present(c, u, to)
             \/ Context!ReadOwner(c) \/ Context!ReadAccount(c) \/ Context!ReadMembership(c)
             \/ Context!ReadOrganization(c) \/ Context!ReadRole(c) \/ Context!ReadAuthority(c)
             \/ Context!ReadHolder(c) \/ Context!ReadPolicy(c) \/ Context!ReadRenewed(c) \/ Context!CallDies(c)
      PROVE  session' = session
  BY <1>2, Zenon DEF Context!LogIn, Context!Present, Context!ReadOwner, Context!ReadAccount,
     Context!ReadMembership, Context!ReadOrganization, Context!ReadRole, Context!ReadAuthority,
     Context!ReadHolder, Context!ReadPolicy, Context!ReadRenewed, Context!CallDies, Context!GoesOn
<1>3. Context!Change => session' = session
  BY Zenon DEF Context!Change, Context!Becomes
<1>4. UNCHANGED contextVars => session' = session
  BY DEF contextVars
<1> QED
  BY <1>1, <1>2, <1>3, <1>4 DEF Context!ContextNext

-----------------------------------------------------------------------------
(* Passkeys, as Passkey.                                                   *)

\* A call that has verified a challenge nobody else did, by how far it is: the
\* challenge has opened nothing, or the passkey of this registration.
Verifying(c) ==
    LET x == ceremony[c].challenge
    IN  /\ answer[x] # None
        /\ Passkey!At(c, "verifying") => passkey[ceremony[c].key] # None
        /\ Passkey!At(c, "verifying") /\ ~ceremony[c].stale /\ Passkey!Exists(ceremony[c].key) =>
             passkey[ceremony[c].key] = ceremony[c].counter
        /\ x \notin overlapped =>
             /\ ceremony[c].step \in {"verifying", "updated"} => verified[x] = 0 /\ x # registration
             /\ ceremony[c].step = "registering" => verified[x] = 0 /\ x \notin authentication
             /\ ceremony[c].step = "registered" => verified[x] <= 1 /\ x \notin authentication

\* The inductive invariant: a challenge in the cache has opened nothing yet, but
\* that of a registration which is about to end.
PasskeyInv ==
    /\ Passkey!PasskeyTypeOK
    /\ passkey \in [Keys -> (-1 .. MaxUses) \cup {None}] /\ verified \in [Challenges -> Nat]
    /\ registration \notin authentication
    /\ \A c \in Calls : ceremony[c] # None => Verifying(c)
    /\ \A c, d \in Calls : c # d /\ ceremony[c] # None /\ ceremony[d] # None
                           /\ ceremony[c].challenge = ceremony[d].challenge => ceremony[c].challenge \in overlapped
    /\ \A x \in Challenges \ overlapped :
         /\ verified[x] <= 1
         /\ x \in authentication => verified[x] = 0
         /\ x = registration /\ verified[x] # 0 =>
              \E c \in Calls : Passkey!At(c, "registered") /\ ceremony[c].challenge = x

\* Passkeys: its initial state.
LEMMA PasskeyStart == Passkey!PasskeyInit => PasskeyInv
<1> SUFFICES ASSUME Passkey!PasskeyInit PROVE PasskeyInv
  OBVIOUS
<1>1. /\ MaxUses \in Nat /\ None \notin Challenges
  BY AccessAssumption DEF Passkey!PasskeysAssumption
<1>2. /\ passkey \in [Keys -> {None, 0}] /\ verified = [x \in Challenges |-> 0]
      /\ ceremony = [c \in Calls |-> None] /\ authentication = {} /\ registration = None
      /\ answer = [x \in Challenges |-> None] /\ overlapped = {} /\ uses = [k \in Keys |-> 0]
  BY DEF Passkey!PasskeyInit
<1>3. \A k \in Keys : passkey[k] \in {None, Passkey!Deleted} \/ Passkey!Exists(k)
  BY <1>1, <1>2 DEF Passkey!Exists
<1>4. Passkey!PasskeyTypeOK
  BY <1>1, <1>2, <1>3 DEF Passkey!PasskeyTypeOK
<1>5. passkey \in [Keys -> (-1 .. MaxUses) \cup {None}]
  BY <1>1, <1>2
<1> QED
  BY <1>1, <1>2, <1>4, <1>5 DEF PasskeyInv, Passkey!At

\* Passkeys: what the state and the calls are.
LEMMA PasskeyTypes ==
    ASSUME PasskeyInv
    PROVE  /\ passkey \in [Keys -> (-1 .. MaxUses) \cup {None}] /\ verified \in [Challenges -> Nat]
           /\ authentication \subseteq Challenges /\ registration \in Challenges \cup {None}
           /\ answer \in [Challenges -> Passkey!Answer \cup {None}] /\ uses \in [Keys -> 0 .. MaxUses]
           /\ ceremony \in [Calls -> Passkey!Call \cup {None}] /\ overlapped \subseteq Challenges
           /\ MaxUses \in Nat /\ None \notin Challenges /\ None \notin Keys /\ None \notin Passkey!Answer
           /\ None \notin Passkey!Call /\ None \notin -1 .. MaxUses
           /\ \A r \in Passkey!Call :
                /\ r.challenge \in Challenges /\ r.key \in Keys /\ r.counter \in 0 .. MaxUses /\ r.stale \in BOOLEAN
                /\ r.step \in {"verifying", "updated", "registering", "registered"}
           /\ \A a \in Passkey!Answer : a.key \in Keys /\ a.count \in 0 .. MaxUses
  BY AccessAssumption DEF Passkey!PasskeysAssumption, PasskeyInv, Passkey!PasskeyTypeOK, Passkey!Call, Passkey!Answer

\* The type of a passkey, one by one.
LEMMA PasskeyRows ==
    ASSUME MaxUses \in Nat, passkey \in [Keys -> (-1 .. MaxUses) \cup {None}]
    PROVE  \A k \in Keys : passkey[k] \in {None, Passkey!Deleted} \/ Passkey!Exists(k)
  BY DEF Passkey!Deleted, Passkey!Exists

\* Passkeys: a call reads a challenge and begins to verify.
LEMMA BeginStep ==
    ASSUME PasskeyInv, NEW c \in Calls, ceremony[c] = None, NEW x \in Challenges, NEW k \in Keys,
           NEW step \in {"verifying", "registering"}, NEW counter \in 0 .. MaxUses,
           Passkey!Begin(c, x, k, step, counter), answer[x] # None,
           step = "verifying" => x \in authentication /\ passkey[k] = counter,
           step = "registering" => x = registration,
           UNCHANGED <<passkey, uses, authentication, registration, answer, admitted, verified>>
    PROVE  PasskeyInv'
<1> PICK r : r = [step |-> step, challenge |-> x, key |-> k, counter |-> counter, stale |-> FALSE]
  OBVIOUS
<1>1. r \in Passkey!Call /\ r.step = step /\ r.challenge = x /\ r.key = k /\ r.counter = counter /\ ~r.stale
  BY DEF Passkey!Call
<1>2. ceremony' = [ceremony EXCEPT ![c] = r]
  BY DEF Passkey!Begin
<1>3. /\ overlapped \subseteq overlapped' /\ overlapped' \subseteq overlapped \cup {x}
      /\ (\E d \in Calls : ceremony[d] # None /\ ceremony[d].challenge = x) => x \in overlapped'
  BY DEF Passkey!Begin
<1>4. ceremony' \in [Calls -> Passkey!Call \cup {None}] /\ overlapped' \subseteq Challenges
  BY <1>1, <1>2, <1>3, PasskeyTypes
<1>5. Passkey!PasskeyTypeOK'
  BY <1>4 DEF PasskeyInv, Passkey!PasskeyTypeOK, Passkey!Exists
<1>6. ceremony'[c] = r /\ \A d \in Calls \ {c} : ceremony'[d] = ceremony[d]
  BY <1>2, PasskeyTypes
<1>7. \A d \in Calls \ {c} : ceremony[d] # None => Verifying(d)'
  BY <1>3, <1>6 DEF PasskeyInv, Verifying, Passkey!At, Passkey!Exists
<1>8. x \notin overlapped' => verified[x] = 0 /\ (step = "verifying" => x # registration)
                                              /\ (step = "registering" => x \notin authentication)
  BY <1>3 DEF PasskeyInv, Passkey!At
<1>9. Verifying(c)'
  BY <1>1, <1>6, <1>8, PasskeyTypes DEF Verifying, Passkey!At, Passkey!Exists
<1>10. \A d, e \in Calls : d # e /\ ceremony'[d] # None /\ ceremony'[e] # None
          /\ ceremony'[d].challenge = ceremony'[e].challenge => ceremony'[d].challenge \in overlapped'
  BY <1>1, <1>3, <1>6 DEF PasskeyInv
<1>11. \A y \in Challenges \ overlapped' :
         /\ verified[y] <= 1
         /\ y \in authentication => verified[y] = 0
         /\ y = registration /\ verified[y] # 0 =>
              \E d \in Calls : ceremony'[d] # None /\ ceremony'[d].step = "registered" /\ ceremony'[d].challenge = y
  BY <1>3, <1>6 DEF PasskeyInv, Passkey!At
<1> QED
  BY <1>5, <1>6, <1>7, <1>9, <1>10, <1>11 DEF PasskeyInv, Passkey!At

\* Passkeys: calls that go, and a cache that loses challenges, or is given one
\* that was never answered.
LEMMA CacheStep ==
    ASSUME PasskeyInv, UNCHANGED <<passkey, verified, overlapped, uses>>,
           answer' \in [Challenges -> Passkey!Answer \cup {None}],
           \A x \in Challenges : answer[x] # None => answer'[x] # None,
           ceremony' \in [Calls -> Passkey!Call \cup {None}],
           \A c \in Calls : ceremony'[c] = None \/ ceremony'[c] = ceremony[c],
           authentication' \subseteq authentication \cup (Passkey!Unissued \cap Challenges),
           registration' \in {registration, None} \cup (Passkey!Unissued \cap Challenges),
           registration' \notin authentication',
           registration' # None => \A c \in Calls : Passkey!At(c, "registered") => ceremony'[c] = ceremony[c]
    PROVE  PasskeyInv'
<1>1. Passkey!PasskeyTypeOK'
  BY PasskeyTypes DEF PasskeyInv, Passkey!PasskeyTypeOK, Passkey!Exists
<1>2. \A x \in Passkey!Unissued : /\ x \in Challenges /\ answer[x] = None /\ verified[x] = 0
                                  /\ \A c \in Calls : ceremony[c] # None => ceremony[c].challenge # x
  BY DEF Passkey!Unissued
<1>3. ASSUME NEW c \in Calls, ceremony'[c] # None PROVE Verifying(c)'
  <2>1. ceremony'[c] = ceremony[c] /\ Verifying(c) /\ ceremony[c].challenge \in Challenges
    BY <1>3, PasskeyTypes DEF PasskeyInv
  <2>2. ceremony[c].challenge \notin Passkey!Unissued
    BY <1>2, <1>3, <2>1
  <2> QED
    BY <1>3, <2>1, <2>2, PasskeyTypes DEF Verifying, Passkey!At, Passkey!Exists
<1>4. \A x \in Challenges \ overlapped : x \in authentication' => verified[x] = 0
  BY <1>2 DEF PasskeyInv
<1>5. ASSUME NEW x \in Challenges \ overlapped, x = registration', verified[x] # 0
      PROVE  \E c \in Calls : ceremony'[c] # None /\ ceremony'[c].step = "registered" /\ ceremony'[c].challenge = x
  <2>1. x = registration
    BY <1>2, <1>5, PasskeyTypes
  <2>2. PICK c \in Calls : Passkey!At(c, "registered") /\ ceremony[c].challenge = x
    BY <1>5, <2>1 DEF PasskeyInv
  <2>3. registration' # None
    BY <1>5, PasskeyTypes
  <2>4. ceremony'[c] = ceremony[c]
    BY <2>2, <2>3
  <2> QED
    BY <2>2, <2>4 DEF Passkey!At
<1> QED
  BY <1>1, <1>3, <1>4, <1>5, PasskeyTypes DEF PasskeyInv, Passkey!At

\* Passkeys: each of its actions.
LEMMA PasskeyStep == PasskeyInv /\ [Passkey!PasskeyNext]_passkeyVars => PasskeyInv'
<1> SUFFICES ASSUME PasskeyInv, [Passkey!PasskeyNext]_passkeyVars PROVE PasskeyInv'
  OBVIOUS
<1> USE PasskeyTypes
<1>1. ASSUME NEW x \in Challenges, NEW k \in Keys, Passkey!Sign(x, k) PROVE PasskeyInv'
  <2>1. uses' \in [Keys -> 0 .. MaxUses]
    BY <1>1 DEF Passkey!Sign
  <2>2. PICK a : a = [key |-> k, count |-> uses'[k]]
    OBVIOUS
  <2>3. a \in Passkey!Answer
    BY <2>1, <2>2 DEF Passkey!Answer
  <2>4. answer' = [answer EXCEPT ![x] = a]
    BY <1>1, <2>2 DEF Passkey!Sign
  <2>5. answer' \in [Challenges -> Passkey!Answer \cup {None}] /\ \A y \in Challenges : answer[y] # None => answer'[y] # None
    BY <2>3, <2>4
  <2>6. UNCHANGED <<passkey, authentication, registration, ceremony, verified, overlapped>>
    BY <1>1 DEF Passkey!Sign
  <2>7. Passkey!PasskeyTypeOK'
    BY <2>1, <2>5, <2>6 DEF PasskeyInv, Passkey!PasskeyTypeOK, Passkey!Exists
  <2>8. \A c \in Calls : ceremony'[c] # None => Verifying(c)'
    BY <2>5, <2>6 DEF PasskeyInv, Verifying, Passkey!At, Passkey!Exists
  <2> QED
    BY <2>6, <2>7, <2>8 DEF PasskeyInv, Passkey!At
<1>2. ASSUME Passkey!StartRegistration PROVE PasskeyInv'
  BY <1>2, CacheStep DEF Passkey!StartRegistration, Passkey!Unissued
<1>3. ASSUME NEW c \in Calls, Passkey!VerifyRegistration(c) PROVE PasskeyInv'
  <2>1. registration \in Challenges /\ answer[registration] \in Passkey!Answer
    BY <1>3 DEF Passkey!VerifyRegistration
  <2> QED
    BY <1>3, <2>1, BeginStep DEF Passkey!VerifyRegistration
<1>4. ASSUME NEW c \in Calls, Passkey!CreatePasskey(c) PROVE PasskeyInv'
  <2>1. PICK r \in Passkey!Call : r = ceremony[c] /\ r.step = "registering" /\ Verifying(c)
    BY <1>4 DEF Passkey!CreatePasskey, Passkey!At, PasskeyInv
  <2>2. CASE passkey[r.key] # None
    BY <1>4, <2>1, <2>2, CacheStep DEF Passkey!CreatePasskey, Passkey!Return, Passkey!At, PasskeyInv
  <2>3. CASE passkey[r.key] = None
    <3> PICK s, x : s = [r EXCEPT !.step = "registered"] /\ x = r.challenge
      OBVIOUS
    <3>1. s \in Passkey!Call /\ s.step = "registered" /\ s.challenge = x /\ s.key = r.key /\ x \in Challenges
      BY <2>1 DEF Passkey!Call
    <3>2. /\ passkey' = [passkey EXCEPT ![r.key] = r.counter] /\ verified' = [verified EXCEPT ![x] = @ + 1]
          /\ UNCHANGED <<uses, authentication, registration, answer, overlapped>>
      BY <1>4, <2>1, <2>3, <3>1 DEF Passkey!CreatePasskey
    <3>3. ceremony' = [ceremony EXCEPT ![c] = s]
      <4>1. ceremony' = [ceremony EXCEPT ![c].step = "registered"]
        BY <1>4, <2>1, <2>3 DEF Passkey!CreatePasskey
      <4> QED
        BY <2>1, <4>1
    <3>4. /\ ceremony'[c] = s /\ \A d \in Calls \ {c} : ceremony'[d] = ceremony[d]
          /\ verified'[x] = verified[x] + 1 /\ \A y \in Challenges \ {x} : verified'[y] = verified[y]
          /\ passkey'[r.key] = r.counter /\ \A k \in Keys \ {r.key} : passkey'[k] = passkey[k]
      BY <2>1, <3>1, <3>2, <3>3
    <3>5. /\ passkey' \in [Keys -> (-1 .. MaxUses) \cup {None}] /\ verified' \in [Challenges -> Nat]
          /\ ceremony' \in [Calls -> Passkey!Call \cup {None}]
      BY <2>1, <3>1, <3>2, <3>3
    <3>6. Passkey!PasskeyTypeOK'
      BY <3>2, <3>5 DEF PasskeyInv, Passkey!PasskeyTypeOK, Passkey!Exists, Passkey!Deleted
    <3>7. \A d \in Calls \ {c} : ceremony[d] # None /\ ceremony[d].challenge = x => x \in overlapped
      BY <2>1 DEF PasskeyInv
    <3>8. x \notin overlapped => verified[x] = 0 /\ x \notin authentication
      BY <2>1 DEF Verifying
    <3>9. Verifying(c)'
      BY <2>1, <3>1, <3>2, <3>4, <3>8 DEF Verifying, Passkey!At, Passkey!Exists
    <3>10. ASSUME NEW d \in Calls \ {c}, ceremony[d] # None PROVE Verifying(d)'
      <4>1. Verifying(d) /\ ceremony[d].challenge \in Challenges /\ ceremony[d].key \in Keys
        BY <3>10 DEF PasskeyInv
      <4>2. ceremony[d].step = "verifying" => ceremony[d].key # r.key
        BY <2>3, <3>10, <4>1 DEF Verifying, Passkey!At
      <4> QED
        BY <3>2, <3>4, <3>7, <3>10, <4>1, <4>2 DEF Verifying, Passkey!At, Passkey!Exists
    <3>11. \A y \in Challenges \ overlapped : verified'[y] <= 1 /\ (y \in authentication => verified'[y] = 0)
      BY <3>4, <3>8 DEF PasskeyInv
    <3>12. ASSUME NEW y \in Challenges \ overlapped, y = registration, verified'[y] # 0
           PROVE  \E d \in Calls : ceremony'[d] # None /\ ceremony'[d].step = "registered" /\ ceremony'[d].challenge = y
      <4>1. CASE y = x
        BY <2>1, <3>1, <3>4, <4>1
      <4>2. CASE y # x
        <5>1. PICK d \in Calls : Passkey!At(d, "registered") /\ ceremony[d].challenge = y
          BY <3>4, <3>12, <4>2 DEF PasskeyInv
        <5>2. d # c
          BY <2>1, <5>1 DEF Passkey!At
        <5> QED
          BY <3>4, <5>1, <5>2 DEF Passkey!At
      <4> QED
        BY <4>1, <4>2
    <3>13. \A d, e \in Calls : d # e /\ ceremony'[d] # None /\ ceremony'[e] # None
             /\ ceremony'[d].challenge = ceremony'[e].challenge => ceremony'[d].challenge \in overlapped
      <4> SUFFICES ASSUME NEW d \in Calls, NEW e \in Calls, d # e, ceremony'[d] # None, ceremony'[e] # None,
                          ceremony'[d].challenge = ceremony'[e].challenge
                   PROVE  ceremony'[d].challenge \in overlapped
        OBVIOUS
      <4>1. \A q \in Calls : ceremony'[q] # None => ceremony[q] # None /\ ceremony'[q].challenge = ceremony[q].challenge
        BY <2>1, <3>1, <3>4
      <4> QED
        BY <4>1 DEF PasskeyInv
    <3> QED
      BY <3>2, <3>4, <3>5, <3>6, <3>9, <3>10, <3>11, <3>12, <3>13 DEF PasskeyInv, Passkey!At
  <2> QED
    BY <2>2, <2>3
<1>5. ASSUME NEW c \in Calls, Passkey!EndRegistration(c) PROVE PasskeyInv'
  <2>1. /\ registration' = None /\ ceremony' = [ceremony EXCEPT ![c] = None]
        /\ UNCHANGED <<passkey, uses, authentication, answer, admitted, verified, overlapped>>
    BY <1>5 DEF Passkey!EndRegistration, Passkey!Return
  <2>2. None \notin authentication /\ \A d \in Calls : ceremony'[d] = None \/ ceremony'[d] = ceremony[d]
    BY <2>1
  <2>3. ceremony' \in [Calls -> Passkey!Call \cup {None}] /\ answer' \in [Challenges -> Passkey!Answer \cup {None}]
    BY <2>1
  <2>4. /\ authentication' \subseteq authentication \cup (Passkey!Unissued \cap Challenges)
        /\ registration' \in {registration, None} \cup (Passkey!Unissued \cap Challenges)
        /\ registration' \notin authentication'
    BY <2>1, <2>2
  <2>5. UNCHANGED <<passkey, verified, overlapped, uses>> /\ answer' = answer
    BY <2>1
  <2> QED
    BY <2>1, <2>2, <2>3, <2>4, <2>5, CacheStep
<1>6. ASSUME NEW k \in Keys, Passkey!Delete(k) PROVE PasskeyInv'
  <2>1. passkey' = [passkey EXCEPT ![k] = -1] /\ Passkey!Exists(k)
        /\ UNCHANGED <<uses, authentication, registration, answer, ceremony, verified, overlapped>>
    BY <1>6 DEF Passkey!Delete, Passkey!Deleted
  <2>2. passkey' \in [Keys -> (-1 .. MaxUses) \cup {None}] /\ -1 \in -1 .. MaxUses
    BY <2>1
  <2>3. Passkey!PasskeyTypeOK'
    BY <2>1, <2>2 DEF PasskeyInv, Passkey!PasskeyTypeOK, Passkey!Exists, Passkey!Deleted
  <2>4. \A c \in Calls : ceremony[c] # None => Verifying(c)'
    BY <2>1, <2>2 DEF PasskeyInv, Verifying, Passkey!At, Passkey!Exists
  <2> QED
    BY <2>1, <2>2, <2>3, <2>4 DEF PasskeyInv, Passkey!At
<1>7. ASSUME Passkey!StartAuthentication PROVE PasskeyInv'
  <2>1. PICK x \in Passkey!Unissued : authentication' = authentication \cup {x}
    BY <1>7 DEF Passkey!StartAuthentication
  <2>2. x \in Challenges /\ x # registration
    BY DEF Passkey!Unissued
  <2>3. registration' \notin authentication'
    BY <1>7, <2>1, <2>2 DEF Passkey!StartAuthentication, PasskeyInv
  <2> QED
    BY <1>7, <2>1, <2>2, <2>3, CacheStep DEF Passkey!StartAuthentication
<1>8. ASSUME NEW c \in Calls, NEW x \in Challenges, Passkey!VerifyAuthentication(c, x) PROVE PasskeyInv'
  <2>1. answer[x] \in Passkey!Answer /\ passkey[answer[x].key] \in 0 .. MaxUses
    BY <1>8 DEF Passkey!VerifyAuthentication, Passkey!Exists
  <2> QED
    BY <1>8, <2>1, BeginStep DEF Passkey!VerifyAuthentication
<1>9. ASSUME NEW c \in Calls, Passkey!UpdatePasskey(c) PROVE PasskeyInv'
  <2>1. PICK r \in Passkey!Call : r = ceremony[c] /\ r.step = "verifying" /\ Verifying(c)
    BY <1>9 DEF Passkey!UpdatePasskey, Passkey!At, PasskeyInv
  <2> PICK k, count : k = r.key /\ count = answer[r.challenge].count
    OBVIOUS
  <2>2. k \in Keys /\ count \in 0 .. MaxUses /\ r.challenge \in Challenges
    BY <2>1 DEF Verifying
  <2>3. CASE ~(Passkey!Rises(count, r.counter) /\ Passkey!Exists(k))
    <3>1. ceremony' = [ceremony EXCEPT ![c] = None]
          /\ UNCHANGED <<passkey, uses, authentication, registration, answer, admitted, verified, overlapped>>
      BY <1>9, <2>1, <2>3 DEF Passkey!UpdatePasskey, Passkey!Return
    <3> QED
      BY <2>1, <3>1, CacheStep DEF Passkey!At, PasskeyInv
  <2>4. CASE Passkey!Rises(count, r.counter) /\ Passkey!Exists(k)
    <3>1. /\ passkey' = [passkey EXCEPT ![k] = count]
          /\ UNCHANGED <<uses, authentication, registration, answer, verified, overlapped>>
      BY <1>9, <2>1, <2>4 DEF Passkey!UpdatePasskey
    <3>2. ceremony' = [d \in Calls |->
            IF d = c THEN [ceremony[d] EXCEPT !.step = "updated"]
            ELSE IF Passkey!At(d, "verifying") /\ ceremony[d].key = k THEN [ceremony[d] EXCEPT !.stale = TRUE]
                 ELSE ceremony[d]]
      BY <1>9, <2>1, <2>4 DEF Passkey!UpdatePasskey
    <3>3. \A q \in Passkey!Call : /\ [q EXCEPT !.step = "updated"] \in Passkey!Call
                                  /\ [q EXCEPT !.stale = TRUE] \in Passkey!Call
      BY DEF Passkey!Call
    <3>4. /\ passkey' \in [Keys -> (-1 .. MaxUses) \cup {None}] /\ ceremony' \in [Calls -> Passkey!Call \cup {None}]
          /\ passkey'[k] = count /\ \A j \in Keys \ {k} : passkey'[j] = passkey[j]
      BY <2>1, <2>2, <3>1, <3>2, <3>3 DEF Passkey!At
    <3>5. Passkey!PasskeyTypeOK'
      BY <3>1, <3>4 DEF PasskeyInv, Passkey!PasskeyTypeOK, Passkey!Exists, Passkey!Deleted
    <3>6. \A d \in Calls :
            /\ ceremony'[d] # None <=> ceremony[d] # None
            /\ ceremony[d] # None =>
                 /\ ceremony'[d].challenge = ceremony[d].challenge /\ ceremony'[d].key = ceremony[d].key
                 /\ ceremony'[d].counter = ceremony[d].counter
                 /\ ceremony'[d].step = IF d = c THEN "updated" ELSE ceremony[d].step
                 /\ d # c /\ ceremony[d].step = "verifying" /\ ceremony[d].key = k => ceremony'[d].stale
                 /\ ~ceremony'[d].stale => ~ceremony[d].stale
      <4> SUFFICES ASSUME NEW d \in Calls
                   PROVE  /\ ceremony'[d] # None <=> ceremony[d] # None
                          /\ ceremony[d] # None =>
                               /\ ceremony'[d].challenge = ceremony[d].challenge
                               /\ ceremony'[d].key = ceremony[d].key
                               /\ ceremony'[d].counter = ceremony[d].counter
                               /\ ceremony'[d].step = IF d = c THEN "updated" ELSE ceremony[d].step
                               /\ d # c /\ ceremony[d].step = "verifying" /\ ceremony[d].key = k =>
                                    ceremony'[d].stale
                               /\ ~ceremony'[d].stale => ~ceremony[d].stale
        OBVIOUS
      <4>1. ceremony'[d] = IF d = c THEN [ceremony[d] EXCEPT !.step = "updated"]
              ELSE IF Passkey!At(d, "verifying") /\ ceremony[d].key = k THEN [ceremony[d] EXCEPT !.stale = TRUE]
                   ELSE ceremony[d]
        BY <3>2
      <4>2. CASE ceremony[d] = None
        BY <2>1, <4>1, <4>2 DEF Passkey!At
      <4>3. CASE ceremony[d] \in Passkey!Call
        <5>1. ceremony'[d] \in Passkey!Call /\ ceremony[d] # None
          BY <3>3, <4>1, <4>3
        <5>2. CASE d = c
          BY <2>1, <4>1, <4>3, <5>1, <5>2 DEF Passkey!Call
        <5>3. CASE d # c /\ Passkey!At(d, "verifying") /\ ceremony[d].key = k
          <6>1. ceremony'[d] = [ceremony[d] EXCEPT !.stale = TRUE]
            BY <4>1, <5>3, Zenon
          <6> QED
            BY <4>3, <5>1, <5>3, <6>1 DEF Passkey!Call
        <5>4. CASE d # c /\ ~(Passkey!At(d, "verifying") /\ ceremony[d].key = k)
          BY <4>1, <4>3, <5>1, <5>4 DEF Passkey!At
        <5> QED
          BY <5>2, <5>3, <5>4
      <4> QED
        BY <4>2, <4>3
    <3>7. ASSUME NEW d \in Calls, ceremony'[d] # None PROVE Verifying(d)'
      <4>1. ceremony[d] # None /\ Verifying(d) /\ ceremony[d].key \in Keys
        BY <3>6, <3>7 DEF PasskeyInv
      <4>2. d = c => /\ ceremony'[d].step = "updated" /\ ceremony[d].step = "verifying"
        BY <2>1, <3>6, <4>1
      <4>3. d # c => ceremony'[d].step = ceremony[d].step
        BY <3>6, <4>1
      <4>4. passkey'[ceremony[d].key] # None <=> passkey[ceremony[d].key] # None
        BY <2>2, <2>4, <3>4, <4>1 DEF Passkey!Exists
      <4> QED
        BY <3>1, <3>4, <3>6, <3>7, <4>1, <4>2, <4>3, <4>4 DEF Verifying, Passkey!At, Passkey!Exists
    <3>8. \A d, e \in Calls : d # e /\ ceremony'[d] # None /\ ceremony'[e] # None
             /\ ceremony'[d].challenge = ceremony'[e].challenge => ceremony'[d].challenge \in overlapped
      BY <3>6 DEF PasskeyInv
    <3>9. ASSUME NEW y \in Challenges \ overlapped, y = registration, verified[y] # 0
          PROVE  \E d \in Calls : ceremony'[d] # None /\ ceremony'[d].step = "registered" /\ ceremony'[d].challenge = y
      BY <2>1, <3>6, <3>9 DEF PasskeyInv, Passkey!At
    <3> QED
      BY <3>1, <3>4, <3>5, <3>7, <3>8, <3>9 DEF PasskeyInv, Passkey!At
  <2> QED
    BY <2>3, <2>4
<1>10. ASSUME NEW c \in Calls, Passkey!Grant(c) PROVE PasskeyInv'
  <2>1. PICK r \in Passkey!Call : r = ceremony[c] /\ r.step = "updated" /\ Verifying(c)
    BY <1>10 DEF Passkey!Grant, Passkey!At, PasskeyInv
  <2> PICK x \in Challenges : x = r.challenge
    OBVIOUS
  <2>2. /\ authentication' = authentication \ {x} /\ verified' = [verified EXCEPT ![x] = @ + 1]
        /\ ceremony' = [ceremony EXCEPT ![c] = None]
        /\ UNCHANGED <<passkey, uses, registration, answer, overlapped>>
    BY <1>10, <2>1 DEF Passkey!Grant, Passkey!Return
  <2>3. /\ verified' \in [Challenges -> Nat] /\ ceremony' \in [Calls -> Passkey!Call \cup {None}]
        /\ verified'[x] = verified[x] + 1 /\ \A y \in Challenges \ {x} : verified'[y] = verified[y]
        /\ ceremony'[c] = None /\ \A d \in Calls \ {c} : ceremony'[d] = ceremony[d]
    BY <2>2
  <2>4. Passkey!PasskeyTypeOK'
    BY <2>2, <2>3 DEF PasskeyInv, Passkey!PasskeyTypeOK, Passkey!Exists
  <2>5. x \notin overlapped => verified[x] = 0 /\ x # registration
    BY <2>1 DEF Verifying
  <2>6. ASSUME NEW d \in Calls, ceremony'[d] # None PROVE Verifying(d)'
    <3>1. d # c /\ ceremony'[d] = ceremony[d] /\ Verifying(d) /\ ceremony[d].challenge \in Challenges
      BY <2>3, <2>6 DEF PasskeyInv
    <3>2. ceremony[d].challenge = x => x \in overlapped
      BY <2>1, <2>6, <3>1 DEF PasskeyInv
    <3> QED
      BY <2>2, <2>3, <3>1, <3>2 DEF Verifying, Passkey!At, Passkey!Exists
  <2>7. ASSUME NEW y \in Challenges \ overlapped, y = registration, verified'[y] # 0
        PROVE  \E d \in Calls : ceremony'[d] # None /\ ceremony'[d].step = "registered" /\ ceremony'[d].challenge = y
    BY <2>1, <2>3, <2>5, <2>7 DEF PasskeyInv, Passkey!At
  <2> QED
    BY <2>2, <2>3, <2>4, <2>5, <2>6, <2>7 DEF PasskeyInv, Passkey!At
<1>11. ASSUME Passkey!ExpireChallenge PROVE PasskeyInv'
  BY <1>11, CacheStep DEF Passkey!ExpireChallenge, PasskeyInv
<1>12. ASSUME Passkey!Restart PROVE PasskeyInv'
  <2>1. /\ authentication' = {} /\ registration' = None /\ ceremony' = [c \in Calls |-> None]
        /\ UNCHANGED <<passkey, uses, answer, admitted, verified, overlapped>>
    BY <1>12 DEF Passkey!Restart
  <2>2. \A c \in Calls : ceremony'[c] = None
    BY <2>1
  <2> QED
    BY <2>1, <2>2, CacheStep
<1>13. ASSUME Passkey!Admit \/ UNCHANGED passkeyVars PROVE PasskeyInv'
  BY <1>13, CacheStep DEF Passkey!Admit, passkeyVars, PasskeyInv
<1> QED
  BY <1>1, <1>2, <1>3, <1>4, <1>5, <1>6, <1>7, <1>8, <1>9, <1>10, <1>11, <1>12, <1>13 DEF Passkey!PasskeyNext

\* Passkeys: who lowers the counter of a passkey had read it before another wrote it.
LEMMA CounterStep ==
    ASSUME PasskeyInv, [Passkey!PasskeyNext]_passkeyVars, NEW k \in Keys, Passkey!Exists(k),
           passkey'[k] # passkey[k]
    PROVE  \/ passkey'[k] = Passkey!Deleted
           \/ passkey'[k] > passkey[k]
           \/ \E c \in Calls : Passkey!At(c, "verifying") /\ ceremony[c].key = k /\ ceremony[c].stale
<1>1. CASE \E j \in Keys : Passkey!Delete(j)
  BY <1>1, PasskeyTypes DEF Passkey!Delete
<1>2. ASSUME NEW c \in Calls, Passkey!CreatePasskey(c) PROVE passkey'[k] = passkey[k]
  <2>1. ceremony[c] \in Passkey!Call
    BY <1>2, PasskeyTypes DEF Passkey!CreatePasskey, Passkey!At
  <2> QED
    BY <1>2, <2>1, PasskeyTypes DEF Passkey!CreatePasskey, Passkey!Exists
<1>3. ASSUME NEW c \in Calls, Passkey!UpdatePasskey(c), ~ceremony[c].stale
      PROVE  passkey'[k] > passkey[k]
  <2>1. PICK r \in Passkey!Call : r = ceremony[c] /\ r.step = "verifying" /\ Verifying(c)
    BY <1>3, PasskeyTypes DEF Passkey!UpdatePasskey, Passkey!At, PasskeyInv
  <2>2. PICK count : count = answer[r.challenge].count
    OBVIOUS
  <2>3. /\ passkey' = [passkey EXCEPT ![r.key] = count] /\ Passkey!Rises(count, r.counter) /\ Passkey!Exists(r.key)
    BY <1>3, <2>1, <2>2 DEF Passkey!UpdatePasskey
  <2>4. r.key = k /\ passkey'[k] = count /\ passkey[k] = r.counter
    BY <1>3, <2>1, <2>3, PasskeyTypes DEF Verifying, Passkey!At
  <2> QED
    BY <2>3, <2>4, PasskeyTypes DEF Passkey!Rises, Passkey!Exists
<1>4. ASSUME NEW c \in Calls, Passkey!UpdatePasskey(c), ceremony[c].stale
      PROVE  Passkey!At(c, "verifying") /\ ceremony[c].key = k
  BY <1>4, PasskeyTypes DEF Passkey!UpdatePasskey, Passkey!At
<1> QED
  BY <1>1, <1>2, <1>3, <1>4 DEF Passkey!PasskeyNext, passkeyVars, Passkey!VerifyRegistration, Passkey!EndRegistration,
     Passkey!Grant, Passkey!VerifyAuthentication, Passkey!Sign, Passkey!StartRegistration,
     Passkey!StartAuthentication, Passkey!ExpireChallenge, Passkey!Restart, Passkey!Admit

-----------------------------------------------------------------------------
(* SignOn, as Sso.                                                         *)

\* A callback has consumed its state; an exchange has read its ticket.
Returned == {"consumed", "asserted", "admitting", "linking", "ticketing"}
Exchanging == {"taking", "taken"}

\* What a call under way may rely on.
SigningOn(c) ==
    /\ signOn[c].step \in Returned \cup {"consuming"} => state[signOn[c].state] # None
    /\ signOn[c].step \in Returned =>
         /\ ~state[signOn[c].state].open
         /\ \A t \in Tickets : ticket[t] # None => ticket[t].by # signOn[c].state
    /\ signOn[c].step \in Returned \ {"consumed"} => signOn[c].user \in Users
    /\ signOn[c].step = "admitting" =>
         /\ user[signOn[c].user] # None
         /\ signOn[c].seen # None => membership[signOn[c].user] # None
    /\ signOn[c].step \in Exchanging =>
         /\ ticket[signOn[c].ticket] # None
         /\ ~ticket[signOn[c].ticket].shared => exchanged[signOn[c].ticket] = 0
    /\ signOn[c].step = "taken" => ~ticket[signOn[c].ticket].open
    /\ signOn[c].step = "deleting" =>
         \A u \in Users : <<signOn[c].provider, u>> \in identity => u \in signOn[c].since

\* Two callbacks never have the same state, and two exchanges that have the same
\* ticket are known.
Apart(c, d) ==
    c # d /\ signOn[c] # None /\ signOn[d] # None =>
        /\ signOn[c].step \in Returned /\ signOn[d].step \in Returned => signOn[c].state # signOn[d].state
        /\ signOn[c].step \in Exchanging /\ signOn[d].step \in Exchanging /\ signOn[c].ticket = signOn[d].ticket =>
             ticket[signOn[c].ticket].shared

\* What the rows are: an open state has its provider, a ticket is of a state that is
\* consumed, one that opened a session is consumed, and a membership has its user.
SignOnRows ==
    /\ \A x \in States : state[x] # None /\ state[x].open => provider[state[x].provider] # None
    /\ \A t \in Tickets : ticket[t] # None => state[ticket[t].by] # None /\ ~state[ticket[t].by].open
    /\ Sso!StateGivesOneTicket
    /\ \A t \in Tickets : exchanged[t] # 0 => ticket[t] # None /\ ~ticket[t].open
    /\ Sso!TicketOpensOnce
    /\ \A u \in Users : user[u] = None => membership[u] = None

\* The types, with those of the histories.
SignOnTyped ==
    /\ Sso!SignOnTypeOK
    /\ user \in [Users -> BOOLEAN \cup {None}] /\ signOnChanges \in Nat /\ exchanged \in [Tickets -> Nat]

\* The inductive invariant of SignOn.
SignOnInv ==
    /\ SignOnTyped /\ SignOnRows
    /\ \A c \in Calls : signOn[c] # None => SigningOn(c)
    /\ \A c, d \in Calls : Apart(c, d)

\* SignOn: what the state and the calls are.
LEMMA SignOnTypes ==
    ASSUME SignOnTyped
    PROVE  /\ provider \in [Sso!Providers -> Sso!ProviderRow \cup {None}]
           /\ user \in [Users -> BOOLEAN \cup {None}]
           /\ membership \in [Users -> Sso!MembershipRow \cup {None}]
           /\ identity \subseteq Sso!Providers \X Users
           /\ state \in [States -> Sso!StateRow \cup {None}]
           /\ ticket \in [Tickets -> Sso!TicketRow \cup {None}]
           /\ signOn \in [Calls -> Sso!CallbackCall \cup Sso!ExchangeCall \cup Sso!DeleteCall \cup {None}]
           /\ signOnChanges \in Nat /\ exchanged \in [Tickets -> Nat]
           /\ None \notin BOOLEAN /\ None \notin Sso!Providers /\ None \notin Users
           /\ None \notin States /\ None \notin Tickets
           /\ None \notin Sso!ProviderRow /\ None \notin Sso!MembershipRow /\ None \notin Sso!StateRow
           /\ None \notin Sso!TicketRow /\ None \notin Sso!CallbackCall /\ None \notin Sso!ExchangeCall
           /\ None \notin Sso!DeleteCall
           /\ \A r \in Sso!CallbackCall :
                /\ r.step \in Returned \cup {"consuming"} /\ r.state \in States /\ r.provider \in Sso!Providers
                /\ r.active \in BOOLEAN /\ r.auto \in BOOLEAN /\ r.user \in Users \cup {None}
                /\ r.mapped \in BOOLEAN /\ r.allowed \in BOOLEAN /\ r.linked \in BOOLEAN
                /\ r.seen \in Sso!MembershipRow \cup {None}
           /\ \A r \in Sso!ExchangeCall : /\ r.step \in Exchanging /\ r.ticket \in Tickets
                                          /\ r.provider \in Sso!Providers \cup {None}
           /\ \A r \in Sso!DeleteCall : r.step = "deleting" /\ r.provider \in Sso!Providers /\ r.since \subseteq Users
           /\ \A r \in Sso!ProviderRow : r.active \in BOOLEAN /\ r.autoProvision \in BOOLEAN
           /\ \A r \in Sso!MembershipRow : r.active \in BOOLEAN /\ r.usable \in BOOLEAN
           /\ \A r \in Sso!StateRow : r.provider \in Sso!Providers /\ r.open \in BOOLEAN
           /\ \A r \in Sso!TicketRow :
                /\ r.user \in Users /\ r.provider \in Sso!Providers \cup {None} /\ r.open \in BOOLEAN
                /\ r.by \in States /\ r.shared \in BOOLEAN
  BY AccessAssumption
  DEF Sso!SignOnAssumption, SignOnTyped, Sso!SignOnTypeOK, Sso!CallbackCall, Sso!ExchangeCall, Sso!DeleteCall,
      Sso!ProviderRow, Sso!MembershipRow, Sso!StateRow, Sso!TicketRow, Returned, Exchanging

\* The step of a call says what it carries.
LEMMA SignOnCalls ==
    ASSUME SignOnTyped, NEW c \in Calls, signOn[c] # None
    PROVE  /\ signOn[c].step \in Returned \cup {"consuming"} => signOn[c] \in Sso!CallbackCall
           /\ signOn[c].step \in Exchanging => signOn[c] \in Sso!ExchangeCall
           /\ signOn[c].step = "deleting" => signOn[c] \in Sso!DeleteCall
           /\ signOn[c].step \in Returned \cup {"consuming"} \cup Exchanging \cup {"deleting"}
<1>1. signOn[c] \in Sso!CallbackCall \cup Sso!ExchangeCall \cup Sso!DeleteCall
  BY SignOnTypes
<1> QED
  BY <1>1, SignOnTypes DEF Returned, Exchanging

\* SignOn: its initial state.
LEMMA SignOnStart == Sso!SignOnInit => SignOnInv
<1> SUFFICES ASSUME Sso!SignOnInit PROVE SignOnInv
  OBVIOUS
<1>1. /\ None \notin BOOLEAN /\ None \notin States /\ None \notin Tickets
  BY AccessAssumption DEF Sso!SignOnAssumption
<1>2. /\ user \in [Users -> {TRUE, None}] /\ identity = {} /\ state = [x \in States |-> None]
      /\ ticket = [t \in Tickets |-> None] /\ signOn = [c \in Calls |-> None] /\ signOnChanges = 0
      /\ exchanged = [t \in Tickets |-> 0]
      /\ \A u \in Users : user[u] = None => membership[u] = None
  BY DEF Sso!SignOnInit
<1>3. provider \in [Sso!Providers -> Sso!ProviderRow \cup {None}]
  BY DEF Sso!SignOnInit, Sso!ProviderRow
<1>4. membership \in [Users -> Sso!MembershipRow \cup {None}]
  <2> PICK m, n : m = [active |-> TRUE, usable |-> FALSE] /\ n = [active |-> TRUE, usable |-> TRUE]
    OBVIOUS
  <2>1. m \in Sso!MembershipRow /\ n \in Sso!MembershipRow
    BY DEF Sso!MembershipRow
  <2>2. membership \in [Users -> {None, m, n}]
    BY DEF Sso!SignOnInit
  <2> QED
    BY <2>1, <2>2
<1>5. user \in [Users -> BOOLEAN \cup {None}] /\ \A u \in Users : user[u] \in BOOLEAN \/ user[u] = None
  BY <1>2
<1>6. SignOnTyped
  BY <1>2, <1>3, <1>4, <1>5 DEF SignOnTyped, Sso!SignOnTypeOK
<1>7. SignOnRows
  BY <1>1, <1>2 DEF SignOnRows, Sso!StateGivesOneTicket, Sso!TicketOpensOnce
<1> QED
  BY <1>2, <1>6, <1>7 DEF SignOnInv, Apart

\* Calls that go on as they were, while the rows change as the code changes them: a
\* state or a ticket that is closed stays closed, a new ticket and a new session
\* are those of another call.
LEMMA CallsKept ==
    ASSUME SignOnInv, NEW D \in SUBSET Calls,
           \A x \in States : state[x] # None => state'[x] # None /\ (~state[x].open => ~state'[x].open),
           \A t \in Tickets : ticket[t] # None => /\ ticket'[t] # None /\ ticket'[t].by = ticket[t].by
                                                  /\ ticket[t].shared => ticket'[t].shared
                                                  /\ ~ticket[t].open => ~ticket'[t].open,
           \A t \in Tickets : ticket[t] = None /\ ticket'[t] # None =>
             \E c \in Calls \ D : signOn[c] # None /\ signOn[c].step \in Returned /\ ticket'[t].by = signOn[c].state,
           \A t \in Tickets : exchanged'[t] # exchanged[t] =>
             \E c \in Calls \ D : signOn[c] # None /\ signOn[c].step \in Exchanging /\ signOn[c].ticket = t,
           \A u \in Users : (user[u] # None => user'[u] # None) /\ (membership[u] # None => membership'[u] # None),
           \A d \in D : \/ signOn'[d] = signOn[d]
                        \/ /\ signOn[d] # None /\ signOn[d].step = "deleting"
                           /\ signOn'[d] # None /\ signOn'[d].step = "deleting",
           \A d \in D : signOn[d] # None /\ signOn[d].step = "deleting" =>
             \A u \in Users : <<signOn'[d].provider, u>> \in identity' => u \in signOn'[d].since
    PROVE  /\ \A d \in D : signOn'[d] # None => SigningOn(d)'
           /\ \A d, e \in D : Apart(d, e)'
<1> USE DEF Returned, Exchanging
<1>1. SignOnTyped
  BY DEF SignOnInv
<1>2. ASSUME NEW d \in D, signOn'[d] # None PROVE SigningOn(d)'
  <2>1. CASE signOn[d].step = "deleting" /\ signOn[d] # None
    <3>1. signOn'[d].step = "deleting"
      BY <2>1
    <3> QED
      BY <2>1, <3>1 DEF SigningOn
  <2>2. CASE ~(signOn[d].step = "deleting" /\ signOn[d] # None)
    <3>1. signOn'[d] = signOn[d] /\ signOn[d] # None /\ signOn[d].step # "deleting" /\ SigningOn(d)
      BY <1>2, <2>2 DEF SignOnInv
    <3>2. /\ signOn[d].step \in Returned \cup {"consuming"} => signOn[d].state \in States
          /\ signOn[d].step \in Exchanging => signOn[d].ticket \in Tickets
      BY <1>1, <3>1, SignOnCalls, SignOnTypes
    <3>3. signOn[d].step \in Returned /\ signOn[d].state \in States =>
            \A t \in Tickets : ticket'[t] # None => ticket'[t].by # signOn[d].state
      BY <3>1 DEF SigningOn, SignOnInv, Apart
    <3>4. signOn[d].step \in Exchanging /\ signOn[d].ticket \in Tickets =>
            ticket'[signOn[d].ticket].shared \/ exchanged'[signOn[d].ticket] = 0
      BY <3>1 DEF SigningOn, SignOnInv, Apart
    <3> QED
      BY <3>1, <3>2, <3>3, <3>4 DEF SigningOn
  <2> QED
    BY <2>1, <2>2
<1>3. ASSUME NEW d \in D, NEW e \in D PROVE Apart(d, e)'
  <2> SUFFICES ASSUME d # e, signOn'[d] # None, signOn'[e] # None,
                      signOn'[d].step # "deleting", signOn'[e].step # "deleting"
               PROVE  Apart(d, e)'
    BY DEF Apart
  <2>1. signOn'[d] = signOn[d] /\ signOn'[e] = signOn[e] /\ signOn[d] # None
    OBVIOUS
  <2>2. signOn[d].step \in Exchanging => signOn[d].ticket \in Tickets /\ ticket[signOn[d].ticket] # None
    BY <1>1, <2>1, SignOnCalls, SignOnTypes DEF SignOnInv, SigningOn
  <2> QED
    BY <2>1, <2>2 DEF SignOnInv, Apart
<1> QED
  BY <1>2, <1>3

\* One call goes on or ends, and nothing else changes.
LEMMA OneCallStep ==
    ASSUME SignOnInv, NEW c \in Calls,
           NEW s \in Sso!CallbackCall \cup Sso!ExchangeCall \cup Sso!DeleteCall \cup {None},
           signOn' = [signOn EXCEPT ![c] = s],
           UNCHANGED <<provider, user, membership, identity, state, ticket, exchanged>>, signOnChanges' \in Nat,
           s # None => SigningOn(c)',
           s # None => \A d \in Calls \ {c} : Apart(c, d)' /\ Apart(d, c)'
    PROVE  SignOnInv'
<1>1. SignOnTyped
  BY DEF SignOnInv
<1>2. /\ signOn' \in [Calls -> Sso!CallbackCall \cup Sso!ExchangeCall \cup Sso!DeleteCall \cup {None}]
      /\ signOn'[c] = s /\ \A d \in Calls \ {c} : signOn'[d] = signOn[d]
  BY <1>1, SignOnTypes
<1>3. SignOnTyped'
  BY <1>1, <1>2 DEF SignOnTyped, Sso!SignOnTypeOK
<1>4. SignOnRows'
  BY DEF SignOnInv, SignOnRows, Sso!StateGivesOneTicket, Sso!TicketOpensOnce
<1>5. \A d \in Calls \ {c} : signOn'[d] # None => SigningOn(d)'
  BY <1>2 DEF SignOnInv, SigningOn
<1>6. \A d, e \in Calls \ {c} : Apart(d, e)'
  BY <1>2 DEF SignOnInv, Apart
<1>7. \A d \in Calls : Apart(c, d)' /\ Apart(d, c)'
  BY <1>2 DEF Apart
<1> QED
  BY <1>2, <1>3, <1>4, <1>5, <1>6, <1>7 DEF SignOnInv

\* A callback goes on with its state, and nothing else changes.
LEMMA GoesOnStep ==
    ASSUME SignOnInv, NEW c \in Calls, NEW r \in Sso!CallbackCall, r = signOn[c], r.step \in Returned,
           NEW s \in Sso!CallbackCall, s.state = r.state, s.step \in Returned \ {"consumed"}, s.user \in Users,
           s.step = "admitting" => user[s.user] # None /\ (s.seen # None => membership[s.user] # None),
           signOn' = [signOn EXCEPT ![c] = s],
           UNCHANGED <<provider, user, membership, identity, state, ticket, exchanged, signOnChanges>>
    PROVE  SignOnInv'
<1>1. SignOnTyped /\ signOn[c] # None /\ SigningOn(c)
  BY SignOnTypes DEF SignOnInv
<1>2. signOn'[c] = s /\ \A d \in Calls \ {c} : signOn'[d] = signOn[d]
  BY <1>1, SignOnTypes
<1>3. s.step \notin Exchanging /\ s.step # "deleting" /\ s.step # "consuming" /\ r.step \notin Exchanging
      /\ s.step # "taken" /\ s.step \in Returned
  BY DEF Returned, Exchanging
<1>4. SigningOn(c)'
  BY <1>1, <1>2, <1>3 DEF SigningOn
<1>5. \A d \in Calls \ {c} : Apart(c, d)' /\ Apart(d, c)'
  BY <1>1, <1>2, <1>3 DEF SignOnInv, Apart
<1>6. signOnChanges' \in Nat
  BY <1>1, SignOnTypes
<1> QED
  BY <1>4, <1>5, <1>6, OneCallStep

\* A call ends, and nothing else changes.
LEMMA CallEnds ==
    ASSUME SignOnInv, NEW c \in Calls, signOn' = [signOn EXCEPT ![c] = None],
           UNCHANGED <<provider, user, membership, identity, state, ticket, exchanged, signOnChanges>>
    PROVE  SignOnInv'
  BY OneCallStep, SignOnTypes DEF SignOnInv

\* A callback writes rows, and goes on or ends.
LEMMA CallbackWrites ==
    ASSUME SignOnInv, NEW c \in Calls, NEW r \in Sso!CallbackCall, r = signOn[c], r.step \in Returned \cup {"consuming"},
           NEW s \in Sso!CallbackCall \cup {None}, signOn'[c] = s,
           s # None => s.state = r.state /\ SigningOn(c)' /\ s.step \in Returned,
           r.step = "consuming" /\ s # None => state[r.state].open,
           \A d \in Calls \ {c} : signOn'[d] # None => SigningOn(d)',
           \A d, e \in Calls \ {c} : Apart(d, e)',
           \A d \in Calls \ {c} : signOn'[d] # None =>
             /\ signOn[d] # None /\ signOn'[d].step = signOn[d].step
             /\ signOn[d].step \in Returned => signOn'[d] = signOn[d],
           SignOnTyped', SignOnRows'
    PROVE  SignOnInv'
<1>1. SignOnTyped /\ signOn[c] # None
  BY SignOnTypes DEF SignOnInv
<1>2. s # None => s.step \notin Exchanging
  BY DEF Returned, Exchanging
<1>3. ASSUME NEW d \in Calls \ {c}, s # None, signOn'[d] # None, signOn'[d].step \in Returned
      PROVE  signOn'[d].state # s.state
  <2>1. signOn[d] # None /\ signOn'[d] = signOn[d] /\ signOn[d].step \in Returned /\ SigningOn(d)
    BY <1>3 DEF SignOnInv
  <2>2. CASE r.step \in Returned
    BY <1>1, <1>3, <2>1, <2>2 DEF SignOnInv, Apart
  <2>3. CASE r.step = "consuming"
    BY <1>3, <2>1, <2>3 DEF SigningOn
  <2> QED
    BY <2>2, <2>3
<1>4. \A d \in Calls : Apart(c, d)' /\ Apart(d, c)'
  BY <1>2, <1>3 DEF Apart
<1> QED
  BY <1>4 DEF SignOnInv

\* The identity of a callback's user is linked, the user and the membership are
\* there, and a deletion under way is told.
LEMMA LinkStep ==
    ASSUME SignOnInv, NEW c \in Calls, NEW r \in Sso!CallbackCall, r = signOn[c],
           r.step \in {"asserted", "linking"}, Sso!Link(c),
           user' \in [Users -> BOOLEAN \cup {None}], membership' \in [Users -> Sso!MembershipRow \cup {None}],
           \A u \in Users : (user[u] # None => user'[u] # None) /\ (membership[u] # None => membership'[u] # None),
           \A u \in Users : user'[u] = None => membership'[u] = None,
           UNCHANGED <<provider, state, ticket, signOnChanges, exchanged>>
    PROVE  SignOnInv'
<1>1. SignOnTyped /\ signOn[c] # None /\ SigningOn(c)
  BY SignOnTypes DEF SignOnInv
<1> USE SignOnTypes
<1>2. r.user \in Users /\ r.provider \in Sso!Providers
  BY <1>1 DEF SigningOn, Returned
<1> PICK s : s = [r EXCEPT !.step = "ticketing"]
  OBVIOUS
<1>3. s \in Sso!CallbackCall /\ s.step = "ticketing" /\ s.state = r.state /\ s.user = r.user
  BY DEF Sso!CallbackCall
<1>4. /\ identity' = identity \cup {<<r.provider, r.user>>}
      /\ signOn' = [d \in Calls |->
           IF d = c THEN s
           ELSE IF Sso!At(d, "deleting") /\ signOn[d].provider = r.provider
                THEN [signOn[d] EXCEPT !.since = signOn[d].since \cup {r.user}]
                ELSE signOn[d]]
  BY DEF Sso!Link
<1>5. ASSUME NEW d \in Calls \ {c}, signOn[d] # None, signOn[d].step = "deleting"
      PROVE  /\ signOn'[d] \in Sso!DeleteCall
             /\ \A u \in Users : <<signOn'[d].provider, u>> \in identity' => u \in signOn'[d].since
  <2>1. signOn[d] \in Sso!DeleteCall /\ SigningOn(d)
    BY <1>1, <1>5, SignOnCalls DEF SignOnInv
  <2>2. CASE signOn[d].provider = r.provider
    <3> PICK q : q = [signOn[d] EXCEPT !.since = signOn[d].since \cup {r.user}]
      OBVIOUS
    <3>1. q \in Sso!DeleteCall /\ q.provider = r.provider /\ q.since = signOn[d].since \cup {r.user}
      BY <1>1, <1>2, <2>1, <2>2 DEF Sso!DeleteCall
    <3>2. signOn'[d] = q
      BY <1>4, <1>5, <2>2 DEF Sso!At
    <3>3. \A u \in Users : <<r.provider, u>> \in identity => u \in signOn[d].since
      BY <1>5, <2>1, <2>2 DEF SigningOn
    <3>4. \A u \in Users : <<r.provider, u>> \in identity' => <<r.provider, u>> \in identity \/ u = r.user
      BY <1>4
    <3>5. \A u \in Users : <<q.provider, u>> \in identity' => u \in q.since
      BY <3>1, <3>3, <3>4
    <3> QED
      BY <3>1, <3>2, <3>5
  <2>3. CASE signOn[d].provider # r.provider
    <3>1. signOn'[d] = signOn[d]
      BY <1>4, <2>3 DEF Sso!At
    <3> QED
      BY <1>4, <1>5, <2>1, <2>3, <3>1 DEF SigningOn
  <2> QED
    BY <2>2, <2>3
<1>6. \A d \in Calls \ {c} : ~(signOn[d] # None /\ signOn[d].step = "deleting") => signOn'[d] = signOn[d]
  BY <1>4 DEF Sso!At
<1>7. signOn'[c] = s
  BY <1>4
<1>8. signOn' \in [Calls -> Sso!CallbackCall \cup Sso!ExchangeCall \cup Sso!DeleteCall \cup {None}]
  <2>1. \A d \in Calls : signOn'[d] \in Sso!CallbackCall \cup Sso!ExchangeCall \cup Sso!DeleteCall \cup {None}
    BY <1>1, <1>3, <1>5, <1>6, <1>7
  <2>2. signOn' = [d \in Calls |-> signOn'[d]]
    BY <1>4
  <2> QED
    BY <2>1, <2>2
<1>9. identity' \subseteq Sso!Providers \X Users
  BY <1>1, <1>2, <1>4
<1>10. SignOnTyped'
  <2>1. \A u \in Users : user'[u] \in BOOLEAN \/ user'[u] = None
    OBVIOUS
  <2> QED
    BY <1>1, <1>8, <1>9, <2>1 DEF SignOnTyped, Sso!SignOnTypeOK
<1>11. SignOnRows'
  BY DEF SignOnInv, SignOnRows, Sso!StateGivesOneTicket, Sso!TicketOpensOnce
<1>12. \A d \in Calls \ {c} : signOn[d] # None /\ signOn[d].step = "deleting" =>
         signOn'[d] # None /\ signOn'[d].step = "deleting"
  BY <1>1, <1>5
<1>13. /\ \A d \in Calls \ {c} : signOn'[d] # None => SigningOn(d)'
       /\ \A d, e \in Calls \ {c} : Apart(d, e)'
  <2>1. Calls \ {c} \in SUBSET Calls
    OBVIOUS
  <2>2. \A d \in Calls \ {c} : \/ signOn'[d] = signOn[d]
                               \/ /\ signOn[d] # None /\ signOn[d].step = "deleting"
                                  /\ signOn'[d] # None /\ signOn'[d].step = "deleting"
    BY <1>6, <1>12
  <2>3. \A d \in Calls \ {c} : signOn[d] # None /\ signOn[d].step = "deleting" =>
          \A u \in Users : <<signOn'[d].provider, u>> \in identity' => u \in signOn'[d].since
    BY <1>5
  <2> QED
    BY <2>1, <2>2, <2>3, CallsKept
<1>14. SigningOn(c)'
  BY <1>1, <1>2, <1>3, <1>7 DEF SigningOn, Returned, Exchanging
<1>15. \A d \in Calls \ {c} : signOn'[d] # None =>
         /\ signOn[d] # None /\ signOn'[d].step = signOn[d].step
         /\ signOn[d].step \in Returned => signOn'[d] = signOn[d]
  BY <1>6, <1>12 DEF Returned
<1>16. r.step \in Returned /\ s.step \in Returned /\ r.step # "consuming"
  BY <1>3 DEF Returned
<1> HIDE SignOnTypes
<1> QED
  BY <1>3, <1>7, <1>10, <1>11, <1>13, <1>14, <1>15, <1>16, CallbackWrites

\* Rows change, while every call stays as it is.
LEMMA RowsChange ==
    ASSUME SignOnInv, UNCHANGED <<signOn, exchanged>>, SignOnTyped', SignOnRows',
           \A x \in States : state[x] # None => state'[x] # None /\ (~state[x].open => ~state'[x].open),
           \A t \in Tickets : /\ ticket[t] = None <=> ticket'[t] = None
                              /\ ticket[t] # None => /\ ticket'[t].by = ticket[t].by
                                                     /\ ticket[t].shared => ticket'[t].shared
                                                     /\ ~ticket[t].open => ~ticket'[t].open,
           \A u \in Users : (user[u] # None => user'[u] # None) /\ (membership[u] # None => membership'[u] # None),
           identity' \subseteq identity
    PROVE  SignOnInv'
<1>1. Calls \in SUBSET Calls
  OBVIOUS
<1>2. \A d \in Calls : signOn[d] # None /\ signOn[d].step = "deleting" =>
        \A u \in Users : <<signOn'[d].provider, u>> \in identity' => u \in signOn'[d].since
  BY DEF SignOnInv, SigningOn
<1>3. /\ \A d \in Calls : signOn'[d] # None => SigningOn(d)'
      /\ \A d, e \in Calls : Apart(d, e)'
  BY <1>1, <1>2, CallsKept
<1> QED
  BY <1>3 DEF SignOnInv

\* SignOn: the actions that no call takes.
LEMMA OutsideStep ==
    ASSUME SignOnInv,
           \/ \E p \in Sso!Providers : Sso!BuildAuthorizationUrl(p) \/ Sso!BuildLoginUrl(p) \/ Sso!SetProvider(p)
           \/ \E u \in Users : Sso!ChangeUser(u)
           \/ Sso!ExpireSignOn
    PROVE  SignOnInv'
<1> USE SignOnTypes
<1>1. SignOnTyped /\ SignOnRows
  BY DEF SignOnInv
<1>2. ASSUME NEW p \in Sso!Providers, Sso!BuildAuthorizationUrl(p) \/ Sso!BuildLoginUrl(p) PROVE SignOnInv'
  <2>1. Sso!CreateState(p) /\ provider[p] # None
    BY <1>2 DEF Sso!BuildAuthorizationUrl, Sso!BuildLoginUrl, Sso!ActiveSaml, Sso!IsActive, Sso!Exists
  <2>2. PICK x \in Sso!Next1(state) : state' = [state EXCEPT ![x] = [provider |-> p, open |-> TRUE, late |-> FALSE]]
    BY <2>1 DEF Sso!CreateState
  <2>3. x \in States /\ state[x] = None
    BY <1>1 DEF Sso!Next1
  <2> PICK s : s = [provider |-> p, open |-> TRUE, late |-> FALSE]
    OBVIOUS
  <2>4. s \in Sso!StateRow /\ s.provider = p
    BY DEF Sso!StateRow
  <2>5. UNCHANGED <<provider, user, membership, identity, ticket, signOn, signOnChanges, exchanged>>
    BY <2>1 DEF Sso!CreateState
  <2>6. /\ state' \in [States -> Sso!StateRow \cup {None}] /\ state'[x] = s
        /\ \A y \in States \ {x} : state'[y] = state[y]
    BY <1>1, <2>2, <2>3, <2>4
  <2>7. SignOnTyped'
    BY <1>1, <2>5, <2>6 DEF SignOnTyped, Sso!SignOnTypeOK
  <2>8. SignOnRows'
    BY <1>1, <2>1, <2>3, <2>4, <2>5, <2>6 DEF SignOnRows, Sso!StateGivesOneTicket, Sso!TicketOpensOnce
  <2>9. \A y \in States : state[y] # None => state'[y] # None /\ (~state[y].open => ~state'[y].open)
    BY <2>3, <2>6
  <2> QED
    BY <2>5, <2>7, <2>8, <2>9, RowsChange
<1>3. ASSUME NEW p \in Sso!Providers, Sso!SetProvider(p) PROVE SignOnInv'
  <2>1. provider[p] \in Sso!ProviderRow /\ provider[p] # None
    BY <1>1, <1>3 DEF Sso!SetProvider, Sso!Exists
  <2>2. PICK q : /\ q \in {[provider[p] EXCEPT !.active = ~provider[p].active],
                           [provider[p] EXCEPT !.autoProvision = ~provider[p].autoProvision]}
                 /\ provider' = [provider EXCEPT ![p] = q]
    BY <1>3 DEF Sso!SetProvider
  <2>3. q \in Sso!ProviderRow
    <3>1. /\ [provider[p] EXCEPT !.active = ~provider[p].active] \in Sso!ProviderRow
          /\ [provider[p] EXCEPT !.autoProvision = ~provider[p].autoProvision] \in Sso!ProviderRow
      BY <2>1 DEF Sso!ProviderRow
    <3> QED
      BY <2>2, <3>1
  <2>4. /\ UNCHANGED <<user, membership, identity, state, ticket, signOn, exchanged>>
        /\ signOnChanges' = signOnChanges + 1
    BY <1>3 DEF Sso!SetProvider
  <2>5. provider' \in [Sso!Providers -> Sso!ProviderRow \cup {None}]
        /\ \A o \in Sso!Providers : provider[o] # None => provider'[o] # None
    BY <1>1, <2>2, <2>3
  <2>6. SignOnTyped'
    BY <1>1, <2>4, <2>5 DEF SignOnTyped, Sso!SignOnTypeOK
  <2>7. SignOnRows'
    BY <1>1, <2>4, <2>5 DEF SignOnRows, Sso!StateGivesOneTicket, Sso!TicketOpensOnce
  <2> QED
    BY <2>4, <2>6, <2>7, RowsChange
<1>4. ASSUME NEW u \in Users, Sso!ChangeUser(u) PROVE SignOnInv'
  <2>1. /\ UNCHANGED <<provider, identity, state, ticket, signOn, exchanged>> /\ signOnChanges' = signOnChanges + 1
    BY <1>4 DEF Sso!ChangeUser
  <2>2. /\ user' \in [Users -> BOOLEAN \cup {None}] /\ membership' \in [Users -> Sso!MembershipRow \cup {None}]
        /\ \A v \in Users : (user[v] = None <=> user'[v] = None) /\ (membership[v] = None <=> membership'[v] = None)
    <3>1. CASE user[u] # None /\ user' = [user EXCEPT ![u] = ~user[u]]
               /\ membership' = [membership EXCEPT ![u] =
                    IF membership[u] = None THEN None ELSE [membership[u] EXCEPT !.active = ~user[u]]]
      <4>1. user[u] \in BOOLEAN
        BY <1>1, <3>1
      <4>2. user' \in [Users -> BOOLEAN \cup {None}] /\ \A v \in Users : user[v] = None <=> user'[v] = None
        BY <1>1, <3>1, <4>1
      <4> PICK a \in BOOLEAN : a <=> ~user[u]
        BY <4>1
      <4> PICK m : m = [membership[u] EXCEPT !.active = a]
        OBVIOUS
      <4>3. membership[u] # None => m \in Sso!MembershipRow
        BY <1>1 DEF Sso!MembershipRow
      <4>4. membership' = [membership EXCEPT ![u] = IF membership[u] = None THEN None ELSE m]
        BY <3>1, <4>1
      <4>5. /\ membership' \in [Users -> Sso!MembershipRow \cup {None}]
            /\ \A v \in Users : membership[v] = None <=> membership'[v] = None
        BY <1>1, <4>3, <4>4
      <4> QED
        BY <4>2, <4>5
    <3>2. CASE membership[u] # None /\ UNCHANGED user
               /\ membership' \in {[membership EXCEPT ![u].active = FALSE], [membership EXCEPT ![u].usable = FALSE]}
      <4> PICK m, n : m = [membership[u] EXCEPT !.active = FALSE] /\ n = [membership[u] EXCEPT !.usable = FALSE]
        OBVIOUS
      <4>1. m \in Sso!MembershipRow /\ n \in Sso!MembershipRow
        <5>1. membership[u] \in Sso!MembershipRow
          BY <1>1, <3>2
        <5> QED
          BY <5>1 DEF Sso!MembershipRow
      <4>2. membership' = [membership EXCEPT ![u] = m] \/ membership' = [membership EXCEPT ![u] = n]
        BY <3>2
      <4>3. /\ membership' \in [Users -> Sso!MembershipRow \cup {None}]
            /\ \A v \in Users : membership[v] = None <=> membership'[v] = None
        <5>1. ASSUME NEW q \in Sso!MembershipRow, membership' = [membership EXCEPT ![u] = q]
              PROVE  /\ membership' \in [Users -> Sso!MembershipRow \cup {None}]
                     /\ \A v \in Users : membership[v] = None <=> membership'[v] = None
          BY <1>1, <3>2, <5>1
        <5> QED
          BY <4>1, <4>2, <5>1
      <4> QED
        BY <1>1, <3>2, <4>3
    <3> QED
      BY <1>4, <3>1, <3>2 DEF Sso!ChangeUser
  <2>3. SignOnTyped'
    <3>1. \A v \in Users : user'[v] \in BOOLEAN \/ user'[v] = None
      BY <2>2
    <3> QED
      BY <1>1, <2>1, <2>2, <3>1 DEF SignOnTyped, Sso!SignOnTypeOK
  <2>4. SignOnRows'
    BY <1>1, <2>1, <2>2 DEF SignOnRows, Sso!StateGivesOneTicket, Sso!TicketOpensOnce
  <2> QED
    BY <2>1, <2>2, <2>3, <2>4, RowsChange
<1>5. CASE Sso!ExpireSignOn
  <2>1. UNCHANGED <<provider, user, membership, identity, signOn, signOnChanges, exchanged>>
    BY <1>5 DEF Sso!ExpireSignOn
  <2>2. ASSUME NEW x \in States, state[x] # None, state' = [state EXCEPT ![x].late = TRUE], UNCHANGED ticket
        PROVE  SignOnInv'
    <3> PICK s : s = [state[x] EXCEPT !.late = TRUE]
      OBVIOUS
    <3>1. s \in Sso!StateRow /\ s.open = state[x].open /\ s.provider = state[x].provider
      <4>1. state[x] \in Sso!StateRow
        BY <1>1, <2>2
      <4> QED
        BY <4>1 DEF Sso!StateRow
    <3>2. /\ state' \in [States -> Sso!StateRow \cup {None}] /\ state'[x] = s
          /\ \A y \in States \ {x} : state'[y] = state[y]
      BY <1>1, <2>2, <3>1
    <3>3. SignOnTyped'
      BY <1>1, <2>1, <2>2, <3>2 DEF SignOnTyped, Sso!SignOnTypeOK
    <3>4. \A y \in States : state[y] # None => state'[y] # None /\ (~state[y].open => ~state'[y].open)
      BY <1>1, <3>1, <3>2
    <3>5. \A y \in States : state'[y] # None /\ state'[y].open =>
            state[y] # None /\ state[y].open /\ state'[y].provider = state[y].provider
      BY <1>1, <2>2, <3>1, <3>2
    <3>6. SignOnRows'
      BY <1>1, <2>1, <2>2, <3>4, <3>5 DEF SignOnRows, Sso!StateGivesOneTicket, Sso!TicketOpensOnce
    <3> QED
      BY <2>1, <2>2, <3>3, <3>4, <3>6, RowsChange
  <2>3. ASSUME NEW t \in Tickets, ticket[t] # None, ticket' = [ticket EXCEPT ![t].open = FALSE], UNCHANGED state
        PROVE  SignOnInv'
    <3> PICK s : s = [ticket[t] EXCEPT !.open = FALSE]
      OBVIOUS
    <3>1. s \in Sso!TicketRow /\ ~s.open /\ s.by = ticket[t].by /\ s.shared = ticket[t].shared
      <4>1. ticket[t] \in Sso!TicketRow
        BY <1>1, <2>3
      <4> QED
        BY <4>1 DEF Sso!TicketRow
    <3>2. /\ ticket' \in [Tickets -> Sso!TicketRow \cup {None}] /\ ticket'[t] = s
          /\ \A y \in Tickets \ {t} : ticket'[y] = ticket[y]
      BY <1>1, <2>3, <3>1
    <3>3. SignOnTyped'
      BY <1>1, <2>1, <2>3, <3>2 DEF SignOnTyped, Sso!SignOnTypeOK
    <3>4. \A y \in Tickets : /\ ticket[y] = None <=> ticket'[y] = None
                             /\ ticket[y] # None => /\ ticket'[y].by = ticket[y].by
                                                    /\ ticket[y].shared = ticket'[y].shared
                                                    /\ ~ticket[y].open => ~ticket'[y].open
      BY <1>1, <2>3, <3>1, <3>2
    <3>5. SignOnRows'
      BY <1>1, <2>1, <2>3, <3>4 DEF SignOnRows, Sso!StateGivesOneTicket, Sso!TicketOpensOnce
    <3> QED
      BY <2>1, <2>3, <3>3, <3>4, <3>5, RowsChange
  <2> QED
    BY <1>5, <2>2, <2>3 DEF Sso!ExpireSignOn
<1> QED
  BY <1>2, <1>3, <1>4, <1>5

\* SignOn: leaving, returning, and finding the user.
LEMMA CallbackStep ==
    ASSUME SignOnInv, NEW c \in Calls,
           \/ \E x \in States : Sso!ReadState(c, x)
           \/ Sso!ConsumeState(c) \/ Sso!HandleCallback(c) \/ Sso!HandleAcs(c) \/ Sso!ResolveIdentity(c)
           \/ Sso!Provision(c) \/ Sso!ReadMembership(c) \/ Sso!WriteMembership(c) \/ Sso!LinkIdentity(c)
           \/ Sso!CreateTicket(c)
    PROVE  SignOnInv'
<1> USE SignOnTypes
<1>1. SignOnTyped /\ SignOnRows
  BY DEF SignOnInv
<1>2. ASSUME NEW x \in States, Sso!ReadState(c, x) PROVE SignOnInv'
  <2>1. state[x] \in Sso!StateRow /\ state[x].open /\ signOn[c] = None
    BY <1>1, <1>2 DEF Sso!ReadState
  <2> PICK p : p = state[x].provider
    OBVIOUS
  <2>2. p \in Sso!Providers /\ provider[p] \in Sso!ProviderRow
    BY <1>1, <2>1 DEF SignOnRows
  <2> PICK on : on = Sso!IsActive(p)
    OBVIOUS
  <2>a. on \in BOOLEAN /\ provider[p].autoProvision \in BOOLEAN
    BY <1>1, <2>2 DEF Sso!IsActive, Sso!Exists
  <2> PICK s : s = [step |-> "consuming", state |-> x, provider |-> p, active |-> on,
                    auto |-> provider[p].autoProvision,
                    user |-> None, mapped |-> FALSE, allowed |-> FALSE, linked |-> FALSE, seen |-> None]
    OBVIOUS
  <2>3. s \in Sso!CallbackCall /\ s.step = "consuming" /\ s.state = x
    BY <2>2, <2>a DEF Sso!CallbackCall
  <2>4. signOn' = [signOn EXCEPT ![c] = s]
    BY <1>2 DEF Sso!ReadState
  <2>5. UNCHANGED <<provider, user, membership, identity, state, ticket, exchanged, signOnChanges>>
    BY <1>2 DEF Sso!ReadState
  <2>6. signOn'[c] = s /\ signOnChanges' \in Nat
    BY <1>1, <2>4, <2>5
  <2>7. SigningOn(c)'
    <3>1. state'[x] # None /\ signOn'[c].state = x /\ signOn'[c].step = "consuming"
      BY <1>1, <2>1, <2>3, <2>5, <2>6
    <3> QED
      BY <3>1 DEF SigningOn, Returned, Exchanging
  <2>8. \A d \in Calls \ {c} : Apart(c, d)' /\ Apart(d, c)'
    BY <2>3, <2>6 DEF Apart, Returned, Exchanging
  <2> QED
    BY <2>3, <2>4, <2>5, <2>6, <2>7, <2>8, OneCallStep
<1>3. CASE Sso!ConsumeState(c)
  <2>1. PICK r \in Sso!CallbackCall : r = signOn[c] /\ r.step = "consuming" /\ SigningOn(c)
    BY <1>1, <1>3, SignOnCalls DEF Sso!ConsumeState, Sso!At, SignOnInv
  <2> PICK x : x = r.state
    OBVIOUS
  <2>2. x \in States /\ state[x] \in Sso!StateRow
    BY <1>1, <2>1 DEF SigningOn
  <2>3. UNCHANGED <<provider, user, membership, identity, ticket, signOnChanges, exchanged>>
    BY <1>3 DEF Sso!ConsumeState
  <2>4. CASE ~Sso!MayConsume(x)
    <3>1. signOn' = [signOn EXCEPT ![c] = None] /\ UNCHANGED state
      BY <1>3, <2>1, <2>4 DEF Sso!ConsumeState, Sso!Return
    <3> QED
      BY <2>3, <3>1, CallEnds
  <2>5. CASE Sso!MayConsume(x)
    <3>0. state[x].open
      BY <2>5 DEF Sso!MayConsume
    <3> PICK s, y : s = [r EXCEPT !.step = "consumed"] /\ y = [state[x] EXCEPT !.open = FALSE]
      OBVIOUS
    <3>1. s \in Sso!CallbackCall /\ s.step = "consumed" /\ s.state = x
      BY <2>1 DEF Sso!CallbackCall, Returned
    <3>2. y \in Sso!StateRow /\ ~y.open /\ y.provider = state[x].provider
      BY <2>2 DEF Sso!StateRow
    <3>3. state' = [state EXCEPT ![x] = y]
      <4>1. state' = [state EXCEPT ![x].open = FALSE]
        BY <1>3, <2>1, <2>5 DEF Sso!ConsumeState
      <4> QED
        BY <4>1
    <3>4. signOn' = [signOn EXCEPT ![c] = s]
      <4>1. signOn' = [signOn EXCEPT ![c].step = "consumed"]
        BY <1>3, <2>1, <2>5 DEF Sso!ConsumeState, Sso!Goto
      <4> QED
        BY <2>1, <4>1
    <3>5. /\ state' \in [States -> Sso!StateRow \cup {None}] /\ state'[x] = y
          /\ \A z \in States \ {x} : state'[z] = state[z]
          /\ signOn'[c] = s /\ \A d \in Calls \ {c} : signOn'[d] = signOn[d]
          /\ signOn' \in [Calls -> Sso!CallbackCall \cup Sso!ExchangeCall \cup Sso!DeleteCall \cup {None}]
      BY <1>1, <2>2, <3>1, <3>2, <3>3, <3>4
    <3>6. SignOnTyped'
      BY <1>1, <2>3, <3>5 DEF SignOnTyped, Sso!SignOnTypeOK
    <3>7. \A z \in States : state[z] # None => state'[z] # None /\ (~state[z].open => ~state'[z].open)
      BY <1>1, <3>2, <3>5
    <3>8. \A z \in States : state'[z] # None /\ state'[z].open => state'[z] = state[z]
      BY <3>2, <3>5
    <3>9. SignOnRows'
      BY <1>1, <2>3, <3>7, <3>8 DEF SignOnRows, Sso!StateGivesOneTicket, Sso!TicketOpensOnce
    <3>10. /\ \A d \in Calls \ {c} : signOn'[d] # None => SigningOn(d)'
           /\ \A d, e \in Calls \ {c} : Apart(d, e)'
      <4>1. \A d \in Calls \ {c} : signOn[d] # None /\ signOn[d].step = "deleting" =>
              \A u \in Users : <<signOn'[d].provider, u>> \in identity' => u \in signOn'[d].since
        BY <2>3, <3>5 DEF SignOnInv, SigningOn
      <4>2. Calls \ {c} \in SUBSET Calls
        OBVIOUS
      <4> QED
        BY <2>3, <3>5, <3>7, <4>1, <4>2, CallsKept
    <3>11. SigningOn(c)'
      <4>1. \A t \in Tickets : ticket[t] # None => ticket[t].by # x
        BY <3>0, <1>1 DEF SignOnRows
      <4>2. /\ signOn'[c].state = x /\ signOn'[c].step = "consumed" /\ state'[x] # None /\ ~state'[x].open
            /\ UNCHANGED ticket
        BY <1>1, <2>3, <3>1, <3>2, <3>5
      <4> HIDE SignOnTypes
      <4> QED
        BY <4>1, <4>2 DEF SigningOn, Returned, Exchanging
    <3>12. r.step \in Returned \cup {"consuming"} /\ s.step \in Returned
      BY <2>1, <3>1 DEF Returned
    <3>13. \A d \in Calls \ {c} : signOn'[d] # None =>
             /\ signOn[d] # None /\ signOn'[d].step = signOn[d].step
             /\ signOn[d].step \in Returned => signOn'[d] = signOn[d]
      BY <3>5
    <3>14. signOn'[c] = s /\ s.state = r.state /\ state[r.state].open
      BY <3>0, <3>1, <3>5
    <3> HIDE SignOnTypes
    <3> QED
      BY <2>1, <3>1, <3>6, <3>9, <3>10, <3>11, <3>12, <3>13, <3>14, CallbackWrites
  <2> QED
    BY <2>4, <2>5
<1>4. ASSUME Sso!HandleCallback(c) \/ Sso!HandleAcs(c) PROVE SignOnInv'
  <2>1. PICK r \in Sso!CallbackCall : r = signOn[c] /\ r.step = "consumed"
    BY <1>1, <1>4, SignOnCalls DEF Sso!HandleCallback, Sso!HandleAcs, Sso!At, Returned
  <2>2. PICK auto \in BOOLEAN : Sso!Asserted(c, auto)
    <3>1. CASE Sso!HandleCallback(c)
      <4>1. r.auto \in BOOLEAN /\ Sso!Asserted(c, r.auto)
        BY <1>1, <2>1, <3>1 DEF Sso!HandleCallback
      <4> QED
        BY <4>1
    <3>2. CASE Sso!HandleAcs(c)
      <4>1. r.provider \in Sso!Providers /\ provider[r.provider] # None
            /\ Sso!Asserted(c, provider[r.provider].autoProvision)
        BY <1>1, <2>1, <3>2 DEF Sso!HandleAcs, Sso!ActiveSaml, Sso!IsActive, Sso!Exists
      <4>2. provider[r.provider].autoProvision \in BOOLEAN
        BY <1>1, <4>1
      <4> QED
        BY <4>1, <4>2
    <3> QED
      BY <1>4, <3>1, <3>2
  <2>3. PICK u \in Users, mapped \in BOOLEAN, fits \in BOOLEAN :
          signOn' = [signOn EXCEPT ![c] = [signOn[c] EXCEPT
            !.step = "asserted", !.user = u, !.mapped = mapped, !.allowed = fits, !.auto = auto]]
    BY <2>2 DEF Sso!Asserted
  <2> PICK s : s = [r EXCEPT !.step = "asserted", !.user = u, !.mapped = mapped, !.allowed = fits, !.auto = auto]
    OBVIOUS
  <2>4. s \in Sso!CallbackCall /\ s.step = "asserted" /\ s.user = u /\ s.state = r.state
    <3> HIDE SignOnTypes
    <3> QED
      BY DEF Sso!CallbackCall
  <2>5. signOn' = [signOn EXCEPT ![c] = s]
    BY <2>1, <2>3
  <2>6. UNCHANGED <<provider, user, membership, identity, state, ticket, exchanged, signOnChanges>>
    BY <2>2 DEF Sso!Asserted
  <2>7. r.step \in Returned /\ s.step \in Returned \ {"consumed"} /\ s.step # "admitting"
    BY <2>1, <2>4 DEF Returned
  <2> HIDE SignOnTypes
  <2>8. s.user \in Users
    BY <2>4
  <2> QED
    BY <2>1, <2>4, <2>5, <2>6, <2>7, <2>8, GoesOnStep
<1>5. ASSUME Sso!ResolveIdentity(c) \/ Sso!Provision(c) PROVE SignOnInv'
  <2>1. PICK r \in Sso!CallbackCall : r = signOn[c] /\ r.step = "asserted" /\ SigningOn(c)
    BY <1>1, <1>5, SignOnCalls DEF Sso!ResolveIdentity, Sso!Provision, Sso!At, Returned, SignOnInv
  <2>2. UNCHANGED <<provider, state, ticket, signOnChanges, exchanged>>
    BY <1>5 DEF Sso!ResolveIdentity, Sso!Provision
  <2>3. \/ signOn' = [signOn EXCEPT ![c] = None] /\ UNCHANGED <<user, membership, identity>>
        \/ /\ Sso!Link(c) /\ user' = [user EXCEPT ![r.user] = TRUE]
           /\ membership' = [membership EXCEPT ![r.user] = Sso!Member]
    BY <1>5, <2>1 DEF Sso!ResolveIdentity, Sso!Provision, Sso!Return
  <2>4. CASE signOn' = [signOn EXCEPT ![c] = None] /\ UNCHANGED <<user, membership, identity>>
    BY <2>2, <2>4, CallEnds
  <2>5. CASE /\ Sso!Link(c) /\ user' = [user EXCEPT ![r.user] = TRUE]
             /\ membership' = [membership EXCEPT ![r.user] = Sso!Member]
    <3> PICK m : m = Sso!Member
      OBVIOUS
    <3>1. m \in Sso!MembershipRow
      BY DEF Sso!Member, Sso!MembershipRow
    <3>2. /\ user' \in [Users -> BOOLEAN \cup {None}] /\ membership' \in [Users -> Sso!MembershipRow \cup {None}]
          /\ \A u \in Users : (user[u] # None => user'[u] # None) /\ (membership[u] # None => membership'[u] # None)
          /\ \A u \in Users : user'[u] = None => membership'[u] = None
      BY <1>1, <2>5, <3>1 DEF SignOnRows
    <3> QED
      BY <2>1, <2>2, <2>5, <3>2, LinkStep
  <2> QED
    BY <2>3, <2>4, <2>5
<1>6. CASE Sso!ReadMembership(c)
  <2>1. PICK r \in Sso!CallbackCall : r = signOn[c] /\ r.step = "asserted" /\ SigningOn(c)
    BY <1>1, <1>6, SignOnCalls DEF Sso!ReadMembership, Sso!At, Returned, SignOnInv
  <2>2. r.user \in Users
    BY <2>1 DEF SigningOn, Returned
  <2>3. UNCHANGED <<provider, user, membership, identity, state, ticket, signOnChanges, exchanged>>
    BY <1>6 DEF Sso!ReadMembership
  <2> PICK linked : linked = (<<r.provider, r.user>> \in identity)
    OBVIOUS
  <2>a. linked \in BOOLEAN
    OBVIOUS
  <2> PICK s : s = [r EXCEPT !.step = "admitting", !.linked = linked, !.seen = membership[r.user]]
    OBVIOUS
  <2>4. user[r.user] # None /\ (signOn' = [signOn EXCEPT ![c] = None] \/ signOn' = [signOn EXCEPT ![c] = s])
    BY <1>6, <2>1 DEF Sso!ReadMembership, Sso!Return
  <2>5. CASE signOn' = [signOn EXCEPT ![c] = None]
    BY <2>3, <2>5, CallEnds
  <2>6. CASE signOn' = [signOn EXCEPT ![c] = s]
    <3>1. membership[r.user] \in Sso!MembershipRow \cup {None}
      BY <1>1, <2>2
    <3>2. /\ s \in Sso!CallbackCall /\ s.step = "admitting" /\ s.user = r.user /\ s.state = r.state
          /\ s.seen = membership[r.user]
      <4> HIDE SignOnTypes
      <4> QED
        BY <2>a, <3>1 DEF Sso!CallbackCall
    <3>3. r.step \in Returned /\ s.step \in Returned \ {"consumed"}
      BY <2>1, <3>2 DEF Returned
    <3>4. s.user \in Users /\ user[s.user] # None /\ (s.seen # None => membership[s.user] # None)
      BY <2>2, <2>4, <3>2
    <3> HIDE SignOnTypes
    <3> QED
      BY <2>1, <2>3, <2>6, <3>2, <3>3, <3>4, GoesOnStep
  <2> QED
    BY <2>4, <2>5, <2>6
<1>7. CASE Sso!WriteMembership(c)
  <2>1. PICK r \in Sso!CallbackCall : r = signOn[c] /\ r.step = "admitting" /\ SigningOn(c)
    BY <1>1, <1>7, SignOnCalls DEF Sso!WriteMembership, Sso!At, Returned, SignOnInv
  <2> PICK u : u = r.user
    OBVIOUS
  <2>2. u \in Users /\ user[u] # None /\ (r.seen # None => membership[u] \in Sso!MembershipRow)
    BY <1>1, <2>1 DEF SigningOn, Returned
  <2>3. UNCHANGED <<provider, user, identity, state, ticket, signOnChanges, exchanged>>
    BY <1>7 DEF Sso!WriteMembership
  <2>4. CASE r.seen = None /\ membership[u] # None
    <3>1. signOn' = [signOn EXCEPT ![c] = None] /\ UNCHANGED membership
      BY <1>7, <2>1, <2>4 DEF Sso!WriteMembership, Sso!Return
    <3> QED
      BY <2>3, <3>1, CallEnds
  <2>5. CASE ~(r.seen = None /\ membership[u] # None)
    <3> PICK s, m, n : s = [r EXCEPT !.step = "linking"] /\ m = Sso!Member /\ n = [membership[u] EXCEPT !.usable = TRUE]
      OBVIOUS
    <3>1. s \in Sso!CallbackCall /\ s.step = "linking" /\ s.state = r.state /\ s.user = u
      BY <2>1 DEF Sso!CallbackCall
    <3>2. m \in Sso!MembershipRow /\ (r.seen # None => n \in Sso!MembershipRow)
      BY <2>2 DEF Sso!Member, Sso!MembershipRow
    <3>3. membership' = IF r.seen = None THEN [membership EXCEPT ![u] = m]
                        ELSE IF r.seen.usable THEN membership ELSE [membership EXCEPT ![u] = n]
      <4>1. membership' = IF r.seen = None THEN [membership EXCEPT ![u] = m]
                          ELSE IF r.seen.usable THEN membership ELSE [membership EXCEPT ![u].usable = TRUE]
        BY <1>7, <2>1, <2>5, Zenon DEF Sso!WriteMembership
      <4> QED
        BY <4>1
    <3>4. signOn' = [signOn EXCEPT ![c] = s]
      <4>1. signOn' = [signOn EXCEPT ![c].step = "linking"]
        BY <1>7, <2>1, <2>5 DEF Sso!WriteMembership, Sso!Goto
      <4> QED
        BY <2>1, <4>1
    <3>5. /\ membership' \in [Users -> Sso!MembershipRow \cup {None}]
          /\ \A v \in Users : membership[v] # None => membership'[v] # None
          /\ \A v \in Users \ {u} : membership'[v] = membership[v]
      BY <1>1, <2>2, <3>2, <3>3
    <3>6. /\ signOn'[c] = s /\ \A d \in Calls \ {c} : signOn'[d] = signOn[d]
          /\ signOn' \in [Calls -> Sso!CallbackCall \cup Sso!ExchangeCall \cup Sso!DeleteCall \cup {None}]
      BY <1>1, <3>1, <3>4
    <3>7. SignOnTyped'
      BY <1>1, <2>3, <3>5, <3>6 DEF SignOnTyped, Sso!SignOnTypeOK
    <3>8. SignOnRows'
      BY <1>1, <2>2, <2>3, <3>5 DEF SignOnRows, Sso!StateGivesOneTicket, Sso!TicketOpensOnce
    <3>9. /\ \A d \in Calls \ {c} : signOn'[d] # None => SigningOn(d)'
          /\ \A d, e \in Calls \ {c} : Apart(d, e)'
      <4>1. \A d \in Calls \ {c} : signOn[d] # None /\ signOn[d].step = "deleting" =>
              \A v \in Users : <<signOn'[d].provider, v>> \in identity' => v \in signOn'[d].since
        BY <2>3, <3>6 DEF SignOnInv, SigningOn
      <4>2. Calls \ {c} \in SUBSET Calls
        OBVIOUS
      <4> QED
        BY <2>3, <3>5, <3>6, <4>1, <4>2, CallsKept
    <3>10. SigningOn(c)'
      BY <2>1, <2>2, <2>3, <3>1, <3>6 DEF SigningOn, Returned, Exchanging
    <3>11. r.step \in Returned \cup {"consuming"} /\ s.step \in Returned /\ r.step # "consuming"
      BY <2>1, <3>1 DEF Returned
    <3> HIDE SignOnTypes
    <3> QED
      BY <2>1, <3>1, <3>6, <3>7, <3>8, <3>9, <3>10, <3>11, CallbackWrites
  <2> QED
    BY <2>4, <2>5
<1>8. CASE Sso!LinkIdentity(c)
  <2>1. PICK r \in Sso!CallbackCall : r = signOn[c] /\ r.step = "linking" /\ SigningOn(c)
    BY <1>1, <1>8, SignOnCalls DEF Sso!LinkIdentity, Sso!At, Returned, SignOnInv
  <2>2. r.user \in Users
    BY <2>1 DEF SigningOn, Returned
  <2>3. UNCHANGED <<provider, user, membership, state, ticket, signOnChanges, exchanged>>
    BY <1>8 DEF Sso!LinkIdentity
  <2>4. CASE signOn' = [signOn EXCEPT ![c] = None] /\ UNCHANGED identity
    BY <2>3, <2>4, CallEnds
  <2>5. CASE signOn' = [signOn EXCEPT ![c].step = "ticketing"] /\ UNCHANGED identity
    <3> PICK s : s = [r EXCEPT !.step = "ticketing"]
      OBVIOUS
    <3>1. s \in Sso!CallbackCall /\ s.step = "ticketing" /\ s.state = r.state /\ s.user = r.user
      BY <2>1 DEF Sso!CallbackCall
    <3>2. signOn' = [signOn EXCEPT ![c] = s]
      BY <2>1, <2>5
    <3>3. r.step \in Returned /\ s.step \in Returned \ {"consumed"} /\ s.step # "admitting"
      BY <2>1, <3>1 DEF Returned
    <3>4. s.user \in Users /\ UNCHANGED identity
      BY <2>2, <2>5, <3>1
    <3> HIDE SignOnTypes
    <3> QED
      BY <2>1, <2>3, <3>1, <3>2, <3>3, <3>4, GoesOnStep
  <2>6. CASE Sso!Link(c)
    <3>1. /\ \A u \in Users : (user[u] # None => user'[u] # None) /\ (membership[u] # None => membership'[u] # None)
          /\ \A u \in Users : user'[u] = None => membership'[u] = None
      BY <1>1, <2>3 DEF SignOnRows
    <3>2. user' \in [Users -> BOOLEAN \cup {None}] /\ membership' \in [Users -> Sso!MembershipRow \cup {None}]
      BY <1>1, <2>3
    <3> QED
      BY <2>1, <2>3, <2>6, <3>1, <3>2, LinkStep
  <2> QED
    BY <1>8, <2>4, <2>5, <2>6 DEF Sso!LinkIdentity, Sso!Goto, Sso!Return
<1>9. CASE Sso!CreateTicket(c)
  <2>1. PICK r \in Sso!CallbackCall : r = signOn[c] /\ r.step = "ticketing" /\ SigningOn(c)
    BY <1>1, <1>9, SignOnCalls DEF Sso!CreateTicket, Sso!At, Returned, SignOnInv
  <2>2. /\ r.user \in Users /\ r.state \in States /\ state[r.state] # None /\ ~state[r.state].open
        /\ \A t \in Tickets : ticket[t] # None => ticket[t].by # r.state
    BY <1>1, <2>1 DEF SigningOn, Returned
  <2>3. /\ signOn' = [signOn EXCEPT ![c] = None]
        /\ UNCHANGED <<provider, user, membership, identity, state, signOnChanges, exchanged>>
    BY <1>9 DEF Sso!CreateTicket, Sso!Return
  <2>4. CASE provider[r.provider] = None
    <3>1. UNCHANGED ticket
      BY <1>9, <2>1, <2>4 DEF Sso!CreateTicket, Sso!Exists
    <3> QED
      BY <2>3, <3>1, CallEnds
  <2>5. CASE provider[r.provider] # None
    <3> PICK row : row = [user |-> r.user, provider |-> r.provider, open |-> TRUE, by |-> r.state, shared |-> FALSE]
      OBVIOUS
    <3>1. row \in Sso!TicketRow /\ row.by = r.state /\ row.open
      <4>1. r.provider \in Sso!Providers
        BY <1>1, <2>1
      <4> QED
        BY <2>2, <4>1 DEF Sso!TicketRow
    <3>2. PICK t \in Sso!Next1(ticket) : ticket' = [ticket EXCEPT ![t] = row]
      BY <1>9, <2>1, <2>5 DEF Sso!CreateTicket, Sso!Exists
    <3>3. t \in Tickets /\ ticket[t] = None
      BY <1>1 DEF Sso!Next1
    <3>4. /\ ticket' \in [Tickets -> Sso!TicketRow \cup {None}] /\ ticket'[t] = row
          /\ \A z \in Tickets \ {t} : ticket'[z] = ticket[z]
          /\ signOn'[c] = None /\ \A d \in Calls \ {c} : signOn'[d] = signOn[d]
          /\ signOn' \in [Calls -> Sso!CallbackCall \cup Sso!ExchangeCall \cup Sso!DeleteCall \cup {None}]
      BY <1>1, <2>3, <3>1, <3>2, <3>3
    <3>5. SignOnTyped'
      BY <1>1, <2>3, <3>4 DEF SignOnTyped, Sso!SignOnTypeOK
    <3>6. SignOnRows'
      <4>1. Sso!StateGivesOneTicket'
        BY <1>1, <2>2, <3>1, <3>4 DEF SignOnRows, Sso!StateGivesOneTicket
      <4>2. exchanged[t] = 0
        BY <1>1, <3>3 DEF SignOnRows
      <4>3. Sso!TicketOpensOnce'
        BY <1>1, <2>3, <3>4, <4>2 DEF SignOnRows, Sso!TicketOpensOnce
      <4>4. \A z \in Tickets : exchanged'[z] # 0 => ticket'[z] # None /\ ~ticket'[z].open
        BY <1>1, <2>3, <3>4, <4>2 DEF SignOnRows
      <4> QED
        BY <1>1, <2>2, <2>3, <3>1, <3>4, <4>1, <4>3, <4>4 DEF SignOnRows
    <3>7. /\ \A d \in Calls \ {c} : signOn'[d] # None => SigningOn(d)'
          /\ \A d, e \in Calls \ {c} : Apart(d, e)'
      <4>1. \A d \in Calls \ {c} : signOn[d] # None /\ signOn[d].step = "deleting" =>
              \A v \in Users : <<signOn'[d].provider, v>> \in identity' => v \in signOn'[d].since
        BY <2>3, <3>4 DEF SignOnInv, SigningOn
      <4>2. Calls \ {c} \in SUBSET Calls
        OBVIOUS
      <4>3. \A z \in Tickets : ticket[z] # None => /\ ticket'[z] # None /\ ticket'[z].by = ticket[z].by
                                                   /\ ticket[z].shared => ticket'[z].shared
                                                   /\ ~ticket[z].open => ~ticket'[z].open
        BY <3>3, <3>4
      <4>4. \A z \in Tickets : ticket[z] = None /\ ticket'[z] # None =>
              \E b \in Calls \ (Calls \ {c}) :
                signOn[b] # None /\ signOn[b].step \in Returned /\ ticket'[z].by = signOn[b].state
        BY <1>1, <2>1, <3>1, <3>4 DEF Returned
      <4>5. /\ \A x \in States : state[x] # None => state'[x] # None /\ (~state[x].open => ~state'[x].open)
            /\ \A z \in Tickets : exchanged'[z] = exchanged[z]
            /\ \A u \in Users : (user[u] # None => user'[u] # None) /\ (membership[u] # None => membership'[u] # None)
        BY <2>3
      <4> HIDE SignOnTypes
      <4> QED
        BY <3>4, <4>1, <4>2, <4>3, <4>4, <4>5, CallsKept
    <3>8. r.step \in Returned \cup {"consuming"} /\ r.step # "consuming"
      BY <2>1 DEF Returned
    <3> HIDE SignOnTypes
    <3> QED
      BY <2>1, <3>4, <3>5, <3>6, <3>7, <3>8, CallbackWrites
  <2> QED
    BY <2>4, <2>5
<1> QED
  BY <1>2, <1>3, <1>4, <1>5, <1>6, <1>7, <1>8, <1>9

\* An exchange reads its ticket, consumes it, or ends.
LEMMA ExchangeWrites ==
    ASSUME SignOnInv, NEW c \in Calls, NEW s \in Sso!ExchangeCall \cup {None}, signOn' = [signOn EXCEPT ![c] = s],
           UNCHANGED <<provider, user, membership, identity, state, signOnChanges>>,
           ticket' \in [Tickets -> Sso!TicketRow \cup {None}], exchanged' \in [Tickets -> Nat],
           \A t \in Tickets : /\ ticket[t] = None <=> ticket'[t] = None
                              /\ ticket[t] # None => /\ ticket'[t].by = ticket[t].by
                                                     /\ ticket[t].shared => ticket'[t].shared
                                                     /\ ~ticket[t].open => ~ticket'[t].open,
           \A t \in Tickets : exchanged'[t] # exchanged[t] =>
             /\ signOn[c] # None /\ signOn[c].step \in Exchanging /\ signOn[c].ticket = t
             /\ ticket[t] # None /\ ~ticket[t].open,
           Sso!TicketOpensOnce',
           s # None => SigningOn(c)',
           \A d \in Calls \ {c} :
             s # None /\ signOn[d] # None /\ signOn[d].step \in Exchanging /\ signOn[d].ticket = s.ticket =>
               ticket'[s.ticket].shared
    PROVE  SignOnInv'
<1>1. SignOnTyped /\ SignOnRows
  BY DEF SignOnInv
<1>2. /\ signOn' \in [Calls -> Sso!CallbackCall \cup Sso!ExchangeCall \cup Sso!DeleteCall \cup {None}]
      /\ signOn'[c] = s /\ \A d \in Calls \ {c} : signOn'[d] = signOn[d]
  BY <1>1, SignOnTypes
<1>3. SignOnTyped'
  BY <1>1, <1>2 DEF SignOnTyped, Sso!SignOnTypeOK
<1>4. SignOnRows'
  BY <1>1 DEF SignOnRows, Sso!StateGivesOneTicket
<1>5. /\ \A d \in Calls \ {c} : signOn'[d] # None => SigningOn(d)'
      /\ \A d, e \in Calls \ {c} : Apart(d, e)'
  <2>1. \A d \in Calls \ {c} : signOn[d] # None /\ signOn[d].step = "deleting" =>
          \A u \in Users : <<signOn'[d].provider, u>> \in identity' => u \in signOn'[d].since
    BY <1>2 DEF SignOnInv, SigningOn
  <2>2. Calls \ {c} \in SUBSET Calls
    OBVIOUS
  <2>3. \A t \in Tickets : exchanged'[t] # exchanged[t] =>
          \E b \in Calls \ (Calls \ {c}) :
            signOn[b] # None /\ signOn[b].step \in Exchanging /\ signOn[b].ticket = t
    OBVIOUS
  <2>4. \A t \in Tickets : ~(ticket[t] = None /\ ticket'[t] # None)
    OBVIOUS
  <2>5. \A t \in Tickets : ticket[t] # None => /\ ticket'[t] # None /\ ticket'[t].by = ticket[t].by
                                               /\ ticket[t].shared => ticket'[t].shared
                                               /\ ~ticket[t].open => ~ticket'[t].open
    OBVIOUS
  <2> QED
    BY <1>2, <2>1, <2>2, <2>3, <2>4, <2>5, CallsKept
<1>6. s # None => s.step \in Exchanging /\ s.step \notin Returned /\ s.ticket \in Tickets
  BY <1>1, SignOnTypes DEF Exchanging, Returned
<1>7. \A d \in Calls : Apart(c, d)' /\ Apart(d, c)'
  BY <1>2, <1>6 DEF Apart
<1> QED
  BY <1>2, <1>3, <1>4, <1>5, <1>7 DEF SignOnInv

\* The same, of one that goes on.
LEMMA ExchangeGoesOn ==
    ASSUME SignOnInv, NEW c \in Calls, NEW s \in Sso!ExchangeCall, signOn' = [signOn EXCEPT ![c] = s],
           UNCHANGED <<provider, user, membership, identity, state, signOnChanges>>,
           ticket' \in [Tickets -> Sso!TicketRow \cup {None}], exchanged' \in [Tickets -> Nat],
           \A t \in Tickets : /\ ticket[t] = None <=> ticket'[t] = None
                              /\ ticket[t] # None => /\ ticket'[t].by = ticket[t].by
                                                     /\ ticket[t].shared => ticket'[t].shared
                                                     /\ ~ticket[t].open => ~ticket'[t].open,
           \A t \in Tickets : exchanged'[t] # exchanged[t] =>
             /\ signOn[c] # None /\ signOn[c].step \in Exchanging /\ signOn[c].ticket = t
             /\ ticket[t] # None /\ ~ticket[t].open,
           Sso!TicketOpensOnce',
           SigningOn(c)',
           \A d \in Calls \ {c} :
             signOn[d] # None /\ signOn[d].step \in Exchanging /\ signOn[d].ticket = s.ticket =>
               ticket'[s.ticket].shared
    PROVE  SignOnInv'
<1>1. s \in Sso!ExchangeCall \cup {None} /\ (s # None => SigningOn(c)')
  OBVIOUS
<1>2. \A d \in Calls \ {c} :
        s # None /\ signOn[d] # None /\ signOn[d].step \in Exchanging /\ signOn[d].ticket = s.ticket =>
          ticket'[s.ticket].shared
  OBVIOUS
<1>3. /\ signOn' = [signOn EXCEPT ![c] = s]
      /\ UNCHANGED <<provider, user, membership, identity, state, signOnChanges>>
      /\ Sso!TicketOpensOnce'
  OBVIOUS
<1> QED
  BY <1>1, <1>2, <1>3, ExchangeWrites, Zenon

\* SignOn: the exchange of a ticket.
LEMMA ExchangeStep ==
    ASSUME SignOnInv, NEW c \in Calls,
           \/ \E t \in Tickets : Sso!ReadTicket(c, t)
           \/ Sso!TakeTicket(c) \/ Sso!OpenSession(c)
    PROVE  SignOnInv'
<1>1. SignOnTyped /\ SignOnRows
  BY DEF SignOnInv
<1>2. ASSUME NEW t \in Tickets, Sso!ReadTicket(c, t) PROVE SignOnInv'
  <2>1. ticket[t] \in Sso!TicketRow /\ ticket[t].open /\ signOn[c] = None
    BY <1>1, <1>2, SignOnTypes DEF Sso!ReadTicket
  <2> PICK shared : shared = (ticket[t].shared \/ \E d \in Calls : Sso!At(d, "taking") /\ signOn[d].ticket = t)
    OBVIOUS
  <2> PICK row, s : /\ row = [ticket[t] EXCEPT !.shared = shared]
                    /\ s = [step |-> "taking", ticket |-> t, provider |-> ticket[t].provider]
    OBVIOUS
  <2>2. shared \in BOOLEAN /\ ticket[t].provider \in Sso!Providers \cup {None}
    BY <1>1, <2>1, SignOnTypes
  <2>3. /\ row \in Sso!TicketRow /\ row.by = ticket[t].by /\ row.shared = shared /\ row.open = ticket[t].open
    BY <2>1, <2>2 DEF Sso!TicketRow
  <2>4. s \in Sso!ExchangeCall /\ s.step = "taking" /\ s.ticket = t
    BY <2>2 DEF Sso!ExchangeCall
  <2>5. ticket' = [ticket EXCEPT ![t] = row]
    <3>1. ticket' = [ticket EXCEPT ![t].shared =
                       ticket[t].shared \/ \E d \in Calls : Sso!At(d, "taking") /\ signOn[d].ticket = t]
      BY <1>2 DEF Sso!ReadTicket
    <3> QED
      BY <3>1
  <2>6. /\ signOn' = [signOn EXCEPT ![c] = s]
        /\ UNCHANGED <<provider, user, membership, identity, state, signOnChanges, exchanged>>
    BY <1>2 DEF Sso!ReadTicket
  <2>7. /\ ticket' \in [Tickets -> Sso!TicketRow \cup {None}] /\ ticket'[t] = row
        /\ \A z \in Tickets \ {t} : ticket'[z] = ticket[z]
        /\ signOn'[c] = s
    BY <1>1, <2>3, <2>5, <2>6, SignOnTypes
  <2>8. \A z \in Tickets : /\ ticket[z] = None <=> ticket'[z] = None
                           /\ ticket[z] # None => /\ ticket'[z].by = ticket[z].by
                                                  /\ ticket[z].shared => ticket'[z].shared
                                                  /\ ticket[z].open <=> ticket'[z].open
    <3>1. ticket[t] # None /\ row # None /\ (ticket[t].shared => shared)
      BY <1>1, <2>1, <2>3, SignOnTypes
    <3> QED
      BY <2>3, <2>7, <3>1
  <2>9. Sso!TicketOpensOnce'
    <3>1. \A z \in Tickets : exchanged[z] > 1 => ticket[z] # None
      BY <1>1, SignOnTypes DEF SignOnRows
    <3> QED
      BY <1>1, <2>6, <2>8, <3>1 DEF SignOnRows, Sso!TicketOpensOnce
  <2>10. SigningOn(c)'
    <3>1. exchanged'[t] = 0 /\ ticket'[t] # None
      BY <1>1, <2>1, <2>3, <2>6, <2>7, SignOnTypes DEF SignOnRows
    <3> QED
      BY <2>4, <2>7, <3>1 DEF SigningOn, Returned, Exchanging
  <2>11. ASSUME NEW d \in Calls \ {c}, signOn[d] # None, signOn[d].step \in Exchanging, signOn[d].ticket = t
         PROVE  ticket'[t].shared
    <3>1. signOn[d].step # "taken"
      BY <2>1, <2>11 DEF SignOnInv, SigningOn
    <3>2. Sso!At(d, "taking")
      BY <2>11, <3>1 DEF Exchanging, Sso!At
    <3>3. shared
      BY <2>11, <3>2
    <3> QED
      BY <2>3, <2>7, <3>3
  <2>12. exchanged' \in [Tickets -> Nat] /\ \A z \in Tickets : exchanged'[z] = exchanged[z]
    BY <1>1, <2>6, SignOnTypes
  <2>13. \A d \in Calls \ {c} : signOn[d] # None /\ signOn[d].step \in Exchanging /\ signOn[d].ticket = s.ticket =>
           ticket'[s.ticket].shared
    BY <2>4, <2>11
  <2>14. \A z \in Tickets : /\ ticket[z] = None <=> ticket'[z] = None
                            /\ ticket[z] # None => /\ ticket'[z].by = ticket[z].by
                                                   /\ ticket[z].shared => ticket'[z].shared
                                                   /\ ~ticket[z].open => ~ticket'[z].open
    BY <2>8
  <2>15. \A z \in Tickets : exchanged'[z] # exchanged[z] =>
           /\ signOn[c] # None /\ signOn[c].step \in Exchanging /\ signOn[c].ticket = z
           /\ ticket[z] # None /\ ~ticket[z].open
    BY <2>12
  <2>16. s \in Sso!ExchangeCall \cup {None}
    BY <2>4
  <2> QED
    BY <2>6, <2>7, <2>9, <2>10, <2>12, <2>13, <2>14, <2>15, <2>4, ExchangeGoesOn
<1>3. CASE Sso!TakeTicket(c)
  <2>1. PICK r \in Sso!ExchangeCall : r = signOn[c] /\ r.step = "taking" /\ SigningOn(c) /\ signOn[c] # None
    BY <1>1, <1>3, SignOnCalls DEF Sso!TakeTicket, Sso!At, Exchanging, SignOnInv
  <2> PICK t : t = r.ticket
    OBVIOUS
  <2>2. t \in Tickets /\ ticket[t] \in Sso!TicketRow
    BY <1>1, <2>1, SignOnTypes DEF SigningOn, Exchanging
  <2> PICK row, s : row = [ticket[t] EXCEPT !.open = FALSE] /\ s = [r EXCEPT !.step = "taken"]
    OBVIOUS
  <2>3. /\ row \in Sso!TicketRow /\ row.by = ticket[t].by /\ row.shared = ticket[t].shared /\ ~row.open
    BY <2>2 DEF Sso!TicketRow
  <2>4. s \in Sso!ExchangeCall /\ s.step = "taken" /\ s.ticket = t
    BY <2>1 DEF Sso!ExchangeCall
  <2>5. ticket' = [ticket EXCEPT ![t] = row]
    <3>1. ticket' = [ticket EXCEPT ![t].open = FALSE]
      BY <1>3, <2>1 DEF Sso!TakeTicket
    <3> QED
      BY <3>1
  <2>6. signOn' = [signOn EXCEPT ![c] = s]
    <3>1. signOn' = [signOn EXCEPT ![c].step = "taken"]
      BY <1>3 DEF Sso!TakeTicket, Sso!Goto
    <3> QED
      BY <2>1, <3>1
  <2>7. UNCHANGED <<provider, user, membership, identity, state, signOnChanges, exchanged>>
    BY <1>3 DEF Sso!TakeTicket
  <2>8. /\ ticket' \in [Tickets -> Sso!TicketRow \cup {None}] /\ ticket'[t] = row
        /\ \A z \in Tickets \ {t} : ticket'[z] = ticket[z]
        /\ signOn'[c] = s
    BY <1>1, <2>2, <2>3, <2>4, <2>5, <2>6, SignOnTypes
  <2>9. \A z \in Tickets : /\ ticket[z] = None <=> ticket'[z] = None
                           /\ ticket[z] # None => /\ ticket'[z].by = ticket[z].by
                                                  /\ ticket[z].shared <=> ticket'[z].shared
                                                  /\ ~ticket[z].open => ~ticket'[z].open
    BY <1>1, <2>2, <2>3, <2>8, SignOnTypes
  <2>10. Sso!TicketOpensOnce'
    <3>1. \A z \in Tickets : exchanged[z] > 1 => ticket[z] # None
      BY <1>1, SignOnTypes DEF SignOnRows
    <3> QED
      BY <1>1, <2>7, <2>9, <3>1 DEF SignOnRows, Sso!TicketOpensOnce
  <2>11. SigningOn(c)'
    <3>1. /\ ticket'[t] # None /\ ~ticket'[t].open /\ (~ticket'[t].shared => exchanged'[t] = 0)
      BY <2>1, <2>2, <2>3, <2>7, <2>8, <2>9, <1>1, SignOnTypes DEF SigningOn, Exchanging
    <3> QED
      BY <2>4, <2>8, <3>1 DEF SigningOn, Returned, Exchanging
  <2>12. ASSUME NEW d \in Calls \ {c}, signOn[d] # None, signOn[d].step \in Exchanging, signOn[d].ticket = t
         PROVE  ticket'[t].shared
    <3>1. ticket[t].shared
      BY <2>1, <2>12 DEF SignOnInv, Apart, Exchanging
    <3> QED
      BY <2>2, <2>3, <2>8, <3>1
  <2>13. exchanged' \in [Tickets -> Nat] /\ \A z \in Tickets : exchanged'[z] = exchanged[z]
    BY <1>1, <2>7, SignOnTypes
  <2>14. \A d \in Calls \ {c} : signOn[d] # None /\ signOn[d].step \in Exchanging /\ signOn[d].ticket = s.ticket =>
           ticket'[s.ticket].shared
    BY <2>4, <2>12
  <2>15. \A z \in Tickets : /\ ticket[z] = None <=> ticket'[z] = None
                            /\ ticket[z] # None => /\ ticket'[z].by = ticket[z].by
                                                   /\ ticket[z].shared => ticket'[z].shared
                                                   /\ ~ticket[z].open => ~ticket'[z].open
    BY <2>9
  <2>16. \A z \in Tickets : exchanged'[z] # exchanged[z] =>
           /\ signOn[c] # None /\ signOn[c].step \in Exchanging /\ signOn[c].ticket = z
           /\ ticket[z] # None /\ ~ticket[z].open
    BY <2>13
  <2>17. s \in Sso!ExchangeCall \cup {None}
    BY <2>4
  <2> QED
    BY <2>6, <2>7, <2>8, <2>10, <2>11, <2>13, <2>14, <2>15, <2>16, <2>4, ExchangeGoesOn
<1>4. CASE Sso!OpenSession(c)
  <2>1. PICK r \in Sso!ExchangeCall : r = signOn[c] /\ r.step = "taken" /\ SigningOn(c) /\ signOn[c] # None
    BY <1>1, <1>4, SignOnCalls DEF Sso!OpenSession, Sso!At, Exchanging, SignOnInv
  <2> PICK t : t = r.ticket
    OBVIOUS
  <2>2. /\ t \in Tickets /\ ticket[t] # None /\ ~ticket[t].open /\ exchanged[t] \in Nat
        /\ exchanged[t] # 0 => ticket[t].shared
    BY <1>1, <2>1, SignOnTypes DEF SigningOn, Exchanging
  <2>3. /\ signOn' = [signOn EXCEPT ![c] = None]
        /\ UNCHANGED <<provider, user, membership, identity, state, ticket, signOnChanges>>
    BY <1>4 DEF Sso!OpenSession, Sso!Return
  <2>4. exchanged' = [exchanged EXCEPT ![t] = exchanged[t] + 1] \/ exchanged' = exchanged
    BY <1>4, <2>1 DEF Sso!OpenSession
  <2>5. /\ exchanged' \in [Tickets -> Nat] /\ \A z \in Tickets \ {t} : exchanged'[z] = exchanged[z]
        /\ exchanged'[t] = exchanged[t] \/ exchanged'[t] = exchanged[t] + 1
    BY <1>1, <2>2, <2>4, SignOnTypes
  <2>6. Sso!TicketOpensOnce'
    BY <1>1, <2>2, <2>3, <2>5 DEF SignOnRows, Sso!TicketOpensOnce
  <2>7. ticket' \in [Tickets -> Sso!TicketRow \cup {None}]
    BY <1>1, <2>3, SignOnTypes
  <2>8. \A z \in Tickets : exchanged'[z] # exchanged[z] =>
          /\ signOn[c] # None /\ signOn[c].step \in Exchanging /\ signOn[c].ticket = z
          /\ ticket[z] # None /\ ~ticket[z].open
    BY <2>1, <2>2, <2>5 DEF Exchanging
  <2>9. \A z \in Tickets : /\ ticket[z] = None <=> ticket'[z] = None
                           /\ ticket[z] # None => /\ ticket'[z].by = ticket[z].by
                                                  /\ ticket[z].shared => ticket'[z].shared
                                                  /\ ~ticket[z].open => ~ticket'[z].open
    BY <2>3
  <2> QED
    BY <2>3, <2>5, <2>6, <2>7, <2>8, <2>9, ExchangeWrites
<1> QED
  BY <1>2, <1>3, <1>4

\* SignOn: the deletion of a provider, and a call that dies.
LEMMA DeletionStep ==
    ASSUME SignOnInv, NEW c \in Calls,
           \/ \E p \in Sso!Providers : Sso!DeleteBegin(c, p)
           \/ Sso!DeleteEnd(c) \/ Sso!SignOnDies(c)
    PROVE  SignOnInv'
<1>1. SignOnTyped /\ SignOnRows
  BY DEF SignOnInv
<1>2. ASSUME NEW p \in Sso!Providers, Sso!DeleteBegin(c, p) PROVE SignOnInv'
  <2>1. /\ provider[p] \in Sso!ProviderRow /\ signOnChanges' = signOnChanges + 1
        /\ UNCHANGED <<user, membership, identity, state, ticket, exchanged>>
    BY <1>1, <1>2, SignOnTypes DEF Sso!DeleteBegin, Sso!Exists
  <2>2. signOnChanges' \in Nat
    BY <1>1, <2>1, SignOnTypes
  <2>3. CASE Sso!InUse(p)
    <3> PICK q : q = [provider[p] EXCEPT !.active = FALSE]
      OBVIOUS
    <3>1. q \in Sso!ProviderRow
      BY <2>1 DEF Sso!ProviderRow
    <3>2. provider' = [provider EXCEPT ![p] = q] /\ UNCHANGED signOn
      <4>1. provider' = [provider EXCEPT ![p].active = FALSE] /\ UNCHANGED signOn
        BY <1>2, <2>3 DEF Sso!DeleteBegin
      <4> QED
        BY <4>1
    <3>3. /\ provider' \in [Sso!Providers -> Sso!ProviderRow \cup {None}]
          /\ \A o \in Sso!Providers : provider[o] # None => provider'[o] # None
      BY <1>1, <3>1, <3>2, SignOnTypes
    <3>4. SignOnTyped'
      BY <1>1, <2>1, <2>2, <3>2, <3>3 DEF SignOnTyped, Sso!SignOnTypeOK
    <3>5. \A x \in States : state[x] # None => state[x].provider \in Sso!Providers
      BY <1>1, SignOnTypes
    <3>6. SignOnRows'
      BY <1>1, <2>1, <3>3, <3>5 DEF SignOnRows, Sso!StateGivesOneTicket, Sso!TicketOpensOnce
    <3> QED
      BY <2>1, <3>2, <3>4, <3>6, RowsChange
  <2>4. CASE ~Sso!InUse(p)
    <3> PICK s : s = [step |-> "deleting", provider |-> p, since |-> {}]
      OBVIOUS
    <3>1. s \in Sso!DeleteCall /\ s.step = "deleting" /\ s.provider = p
      BY DEF Sso!DeleteCall
    <3>2. signOn' = [signOn EXCEPT ![c] = s] /\ UNCHANGED provider
      BY <1>2, <2>4 DEF Sso!DeleteBegin
    <3>3. signOn'[c] = s
      BY <1>1, <3>2, SignOnTypes
    <3>4. \A u \in Users : <<p, u>> \notin identity
      BY <2>4 DEF Sso!InUse
    <3>5. SigningOn(c)'
      BY <2>1, <3>1, <3>3, <3>4 DEF SigningOn, Returned, Exchanging
    <3>6. \A d \in Calls \ {c} : Apart(c, d)' /\ Apart(d, c)'
      BY <3>1, <3>3 DEF Apart, Returned, Exchanging
    <3> QED
      BY <2>1, <2>2, <3>1, <3>2, <3>5, <3>6, OneCallStep
  <2> QED
    BY <2>3, <2>4
<1>3. CASE Sso!DeleteEnd(c)
  <2>1. PICK r \in Sso!DeleteCall : r = signOn[c]
    BY <1>1, <1>3, SignOnCalls DEF Sso!DeleteEnd, Sso!At
  <2> PICK p : p = r.provider
    OBVIOUS
  <2>2. p \in Sso!Providers
    BY <1>1, <2>1, SignOnTypes
  <2>3. /\ provider' = [provider EXCEPT ![p] = None]
        /\ identity' = {i \in identity : i[1] # p}
        /\ state' = [x \in States |-> IF state[x] # None /\ state[x].provider = p
                                      THEN [state[x] EXCEPT !.open = FALSE] ELSE state[x]]
        /\ ticket' = [t \in Tickets |-> IF ticket[t] # None /\ ticket[t].provider = p
                                        THEN [ticket[t] EXCEPT !.provider = None] ELSE ticket[t]]
        /\ signOn' = [signOn EXCEPT ![c] = None]
        /\ UNCHANGED <<user, membership, signOnChanges, exchanged>>
    BY <1>3, <2>1 DEF Sso!DeleteEnd, Sso!Return
  <2>4. ASSUME NEW x \in States
        PROVE  /\ state'[x] \in Sso!StateRow \cup {None}
               /\ state[x] # None => /\ state'[x] # None /\ state'[x].provider = state[x].provider
                                     /\ state'[x].open => state[x].open /\ state[x].provider # p
               /\ state[x] = None => state'[x] = None
    <3>1. CASE state[x] # None /\ state[x].provider = p
      <4> PICK s : s = [state[x] EXCEPT !.open = FALSE]
        OBVIOUS
      <4>1. state[x] \in Sso!StateRow
        BY <1>1, <3>1, SignOnTypes
      <4>2. s \in Sso!StateRow /\ ~s.open /\ s.provider = state[x].provider
        BY <4>1 DEF Sso!StateRow
      <4>3. state'[x] = s
        BY <2>3, <3>1
      <4> QED
        BY <1>1, <3>1, <4>2, <4>3, SignOnTypes
    <3>2. CASE ~(state[x] # None /\ state[x].provider = p)
      BY <1>1, <2>3, <3>2, SignOnTypes
    <3> QED
      BY <3>1, <3>2
  <2>5. ASSUME NEW t \in Tickets
        PROVE  /\ ticket'[t] \in Sso!TicketRow \cup {None}
               /\ ticket[t] # None => /\ ticket'[t] # None /\ ticket'[t].by = ticket[t].by
                                      /\ ticket'[t].shared = ticket[t].shared
                                      /\ ticket'[t].open = ticket[t].open
               /\ ticket[t] = None => ticket'[t] = None
    <3>1. CASE ticket[t] # None /\ ticket[t].provider = p
      <4> PICK s : s = [ticket[t] EXCEPT !.provider = None]
        OBVIOUS
      <4>1. ticket[t] \in Sso!TicketRow
        BY <1>1, <3>1, SignOnTypes
      <4>2. /\ s \in Sso!TicketRow /\ s.by = ticket[t].by /\ s.shared = ticket[t].shared
            /\ s.open = ticket[t].open
        BY <4>1 DEF Sso!TicketRow
      <4>3. ticket'[t] = s
        BY <2>3, <3>1
      <4> QED
        BY <1>1, <3>1, <4>2, <4>3, SignOnTypes
    <3>2. CASE ~(ticket[t] # None /\ ticket[t].provider = p)
      BY <1>1, <2>3, <3>2, SignOnTypes
    <3> QED
      BY <3>1, <3>2
  <2>6. /\ provider' \in [Sso!Providers -> Sso!ProviderRow \cup {None}]
        /\ \A o \in Sso!Providers \ {p} : provider'[o] = provider[o]
        /\ signOn' \in [Calls -> Sso!CallbackCall \cup Sso!ExchangeCall \cup Sso!DeleteCall \cup {None}]
        /\ signOn'[c] = None /\ \A d \in Calls \ {c} : signOn'[d] = signOn[d]
    BY <1>1, <2>2, <2>3, SignOnTypes
  <2>7. state' \in [States -> Sso!StateRow \cup {None}]
    <3>1. state' = [x \in States |-> state'[x]]
      BY <2>3
    <3> QED
      BY <2>4, <3>1
  <2>8. ticket' \in [Tickets -> Sso!TicketRow \cup {None}]
    <3>1. ticket' = [t \in Tickets |-> ticket'[t]]
      BY <2>3
    <3> QED
      BY <2>5, <3>1
  <2>9. SignOnTyped'
    <3>1. identity' \subseteq Sso!Providers \X Users
      BY <1>1, <2>3, SignOnTypes
    <3> QED
      BY <1>1, <2>3, <2>6, <2>7, <2>8, <3>1 DEF SignOnTyped, Sso!SignOnTypeOK
  <2>10. SignOnRows'
    <3>1. \A x \in States : state'[x] # None /\ state'[x].open => provider'[state'[x].provider] # None
      <4>1. \A x \in States : state[x] # None => state[x].provider \in Sso!Providers
        BY <1>1, SignOnTypes
      <4> QED
        BY <1>1, <2>4, <2>6, <4>1 DEF SignOnRows
    <3>2. \A t \in Tickets : ticket'[t] # None => state'[ticket'[t].by] # None /\ ~state'[ticket'[t].by].open
      <4>1. \A t \in Tickets : ticket[t] # None => ticket[t].by \in States
        BY <1>1, SignOnTypes
      <4> QED
        BY <1>1, <2>4, <2>5, <4>1 DEF SignOnRows
    <3>3. Sso!StateGivesOneTicket'
      BY <1>1, <2>5 DEF SignOnRows, Sso!StateGivesOneTicket
    <3>4. \A t \in Tickets : exchanged'[t] # 0 => ticket'[t] # None /\ ~ticket'[t].open
      BY <1>1, <2>3, <2>5 DEF SignOnRows
    <3>5. Sso!TicketOpensOnce'
      <4>1. \A t \in Tickets : exchanged[t] > 1 => ticket[t] # None
        BY <1>1, SignOnTypes DEF SignOnRows
      <4> QED
        BY <1>1, <2>3, <2>5, <4>1 DEF SignOnRows, Sso!TicketOpensOnce
    <3> QED
      BY <1>1, <2>3, <3>1, <3>2, <3>3, <3>4, <3>5 DEF SignOnRows
  <2>11. /\ \A d \in Calls \ {c} : signOn'[d] # None => SigningOn(d)'
         /\ \A d, e \in Calls \ {c} : Apart(d, e)'
    <3>1. \A d \in Calls \ {c} : signOn[d] # None /\ signOn[d].step = "deleting" =>
            \A u \in Users : <<signOn'[d].provider, u>> \in identity' => u \in signOn'[d].since
      BY <2>3, <2>6 DEF SignOnInv, SigningOn
    <3>2. Calls \ {c} \in SUBSET Calls
      OBVIOUS
    <3>3. \A x \in States : state[x] # None => state'[x] # None /\ (~state[x].open => ~state'[x].open)
      BY <2>4
    <3>4. \A t \in Tickets : ticket[t] # None => /\ ticket'[t] # None /\ ticket'[t].by = ticket[t].by
                                                 /\ ticket[t].shared => ticket'[t].shared
                                                 /\ ~ticket[t].open => ~ticket'[t].open
      BY <2>5
    <3>5. /\ \A t \in Tickets : ~(ticket[t] = None /\ ticket'[t] # None)
          /\ \A t \in Tickets : exchanged'[t] = exchanged[t]
          /\ \A u \in Users : (user[u] # None => user'[u] # None) /\ (membership[u] # None => membership'[u] # None)
      BY <2>3, <2>5
    <3> QED
      BY <2>6, <3>1, <3>2, <3>3, <3>4, <3>5, CallsKept
  <2>12. \A d \in Calls : Apart(c, d)' /\ Apart(d, c)'
    BY <2>6 DEF Apart
  <2> QED
    BY <2>6, <2>9, <2>10, <2>11, <2>12 DEF SignOnInv
<1>4. CASE Sso!SignOnDies(c)
  <2>1. /\ signOn' = [signOn EXCEPT ![c] = None]
        /\ UNCHANGED <<provider, user, membership, identity, state, ticket, exchanged, signOnChanges>>
    BY <1>4 DEF Sso!SignOnDies, Sso!Return
  <2> QED
    BY <2>1, CallEnds
<1> QED
  BY <1>2, <1>3, <1>4

\* SignOn: its steps keep its invariant.
LEMMA SignOnStep == SignOnInv /\ [Sso!SignOnNext]_signOnVars => SignOnInv'
<1> SUFFICES ASSUME SignOnInv, [Sso!SignOnNext]_signOnVars PROVE SignOnInv'
  OBVIOUS
<1>1. ASSUME NEW c \in Calls,
             \/ \E x \in States : Sso!ReadState(c, x)
             \/ Sso!ConsumeState(c) \/ Sso!HandleCallback(c) \/ Sso!HandleAcs(c) \/ Sso!ResolveIdentity(c)
             \/ Sso!Provision(c) \/ Sso!ReadMembership(c) \/ Sso!WriteMembership(c) \/ Sso!LinkIdentity(c)
             \/ Sso!CreateTicket(c)
      PROVE  SignOnInv'
  BY <1>1, CallbackStep
<1>2. ASSUME NEW c \in Calls,
             \/ \E t \in Tickets : Sso!ReadTicket(c, t)
             \/ Sso!TakeTicket(c) \/ Sso!OpenSession(c)
      PROVE  SignOnInv'
  BY <1>2, ExchangeStep
<1>3. ASSUME NEW c \in Calls,
             \/ \E p \in Sso!Providers : Sso!DeleteBegin(c, p)
             \/ Sso!DeleteEnd(c) \/ Sso!SignOnDies(c)
      PROVE  SignOnInv'
  BY <1>3, DeletionStep
<1>4. CASE UNCHANGED signOnVars
  BY <1>4 DEF signOnVars, SignOnInv, SignOnTyped, Sso!SignOnTypeOK, SignOnRows, SigningOn, Apart,
              Sso!StateGivesOneTicket, Sso!TicketOpensOnce
<1> QED
  BY <1>1, <1>2, <1>3, <1>4, OutsideStep DEF Sso!SignOnNext

\* SignOn: no login gives back a membership that is suspended.
LEMMA ReadmitStep ==
    ASSUME SignOnInv, [Sso!SignOnNext]_signOnVars, signOnChanges' = signOnChanges,
           NEW u \in Users, membership[u] # None, ~membership[u].active
    PROVE  ~membership'[u].active
<1>1. SignOnTyped /\ SignOnRows
  BY DEF SignOnInv
<1>2. membership[u] \in Sso!MembershipRow /\ user[u] # None
  BY <1>1, SignOnTypes DEF SignOnRows
<1>3. ASSUME NEW c \in Calls, Sso!ResolveIdentity(c) \/ Sso!Provision(c) PROVE membership'[u] = membership[u]
  <2>1. PICK r : r = signOn[c]
    OBVIOUS
  <2>2. membership' = membership \/ (membership' = [membership EXCEPT ![r.user] = Sso!Member] /\ r.user # u)
    BY <1>2, <1>3, <2>1 DEF Sso!ResolveIdentity, Sso!Provision, Sso!Admits
  <2> QED
    BY <1>1, <2>2, SignOnTypes
<1>4. ASSUME NEW c \in Calls, Sso!WriteMembership(c) PROVE ~membership'[u].active
  <2>1. PICK r : r = signOn[c]
    OBVIOUS
  <2>2. \/ membership' = membership
        \/ membership' = [membership EXCEPT ![r.user] = Sso!Member] /\ membership[r.user] = None
        \/ membership' = [membership EXCEPT ![r.user].usable = TRUE]
    BY <1>4, <2>1 DEF Sso!WriteMembership
  <2>3. CASE membership' = [membership EXCEPT ![r.user].usable = TRUE] /\ r.user = u
    <3> PICK m : m = [membership[u] EXCEPT !.usable = TRUE]
      OBVIOUS
    <3>1. m.active = membership[u].active
      BY <1>2 DEF Sso!MembershipRow
    <3>2. membership'[u] = m
      BY <1>1, <2>3, SignOnTypes
    <3> QED
      BY <3>1, <3>2
  <2>4. CASE ~(membership' = [membership EXCEPT ![r.user].usable = TRUE] /\ r.user = u)
    <3>1. membership'[u] = membership[u]
      BY <1>1, <2>2, <2>4, SignOnTypes
    <3> QED
      BY <3>1
  <2> QED
    BY <2>3, <2>4
<1>5. ASSUME NEW c \in Calls,
             \/ Sso!ConsumeState(c) \/ Sso!HandleCallback(c) \/ Sso!HandleAcs(c)
             \/ Sso!ReadMembership(c) \/ Sso!LinkIdentity(c) \/ Sso!CreateTicket(c)
             \/ Sso!TakeTicket(c) \/ Sso!OpenSession(c) \/ Sso!DeleteEnd(c) \/ Sso!SignOnDies(c)
             \/ \E x \in States : Sso!ReadState(c, x)
             \/ \E t \in Tickets : Sso!ReadTicket(c, t)
             \/ \E p \in Sso!Providers : Sso!DeleteBegin(c, p)
      PROVE  membership' = membership
  BY <1>5, Zenon DEF Sso!ConsumeState, Sso!HandleCallback, Sso!HandleAcs, Sso!Asserted, Sso!ReadMembership,
     Sso!LinkIdentity, Sso!CreateTicket, Sso!TakeTicket, Sso!OpenSession, Sso!DeleteEnd, Sso!SignOnDies,
     Sso!ReadState, Sso!ReadTicket, Sso!DeleteBegin
<1>6. ASSUME NEW p \in Sso!Providers, Sso!BuildAuthorizationUrl(p) \/ Sso!BuildLoginUrl(p) \/ Sso!SetProvider(p)
      PROVE  membership' = membership
  BY <1>6, Zenon DEF Sso!BuildAuthorizationUrl, Sso!BuildLoginUrl, Sso!CreateState, Sso!SetProvider
<1>7. ASSUME NEW v \in Users, Sso!ChangeUser(v) PROVE FALSE
  <2>1. signOnChanges' = signOnChanges + 1
    BY <1>7 DEF Sso!ChangeUser
  <2> QED
    BY <1>1, <2>1, SignOnTypes
<1>8. Sso!ExpireSignOn \/ UNCHANGED signOnVars => membership' = membership
  BY DEF Sso!ExpireSignOn, signOnVars
<1> QED
  BY <1>3, <1>4, <1>5, <1>6, <1>7, <1>8 DEF Sso!SignOnNext

\* SignOn: an identity only goes with a provider, whose deletion was told of it.
LEMMA IdentityStep ==
    ASSUME SignOnInv, [Sso!SignOnNext]_signOnVars, NEW i \in identity \ identity'
    PROVE  \E c \in Calls : Sso!At(c, "deleting") /\ signOn[c].provider = i[1] /\ i[2] \in signOn[c].since
<1>1. SignOnTyped
  BY DEF SignOnInv
<1>2. PICK p \in Sso!Providers, u \in Users : i = <<p, u>>
  BY <1>1, SignOnTypes
<1>3. ASSUME NEW c \in Calls, Sso!DeleteEnd(c)
      PROVE  Sso!At(c, "deleting") /\ signOn[c].provider = i[1] /\ i[2] \in signOn[c].since
  <2>1. Sso!At(c, "deleting") /\ identity' = {j \in identity : j[1] # signOn[c].provider}
    BY <1>3 DEF Sso!DeleteEnd
  <2>2. signOn[c].provider = i[1]
    BY <2>1
  <2>3. SigningOn(c)
    BY <2>1 DEF Sso!At, SignOnInv
  <2>4. i[1] = p /\ i[2] = u
    BY <1>2
  <2>5. u \in signOn[c].since
    BY <1>2, <2>1, <2>2, <2>3, <2>4 DEF SigningOn, Sso!At
  <2> QED
    BY <2>1, <2>2, <2>4, <2>5
<1>4. ASSUME NEW c \in Calls, Sso!ResolveIdentity(c) \/ Sso!Provision(c) \/ Sso!LinkIdentity(c)
      PROVE  identity \subseteq identity'
  BY <1>4 DEF Sso!ResolveIdentity, Sso!Provision, Sso!LinkIdentity, Sso!Link
<1>5. ASSUME NEW c \in Calls,
             \/ Sso!ConsumeState(c) \/ Sso!HandleCallback(c) \/ Sso!HandleAcs(c)
             \/ Sso!ReadMembership(c) \/ Sso!WriteMembership(c) \/ Sso!CreateTicket(c)
             \/ Sso!TakeTicket(c) \/ Sso!OpenSession(c) \/ Sso!SignOnDies(c)
             \/ \E x \in States : Sso!ReadState(c, x)
             \/ \E t \in Tickets : Sso!ReadTicket(c, t)
             \/ \E o \in Sso!Providers : Sso!DeleteBegin(c, o)
      PROVE  identity' = identity
  BY <1>5, Zenon DEF Sso!ConsumeState, Sso!HandleCallback, Sso!HandleAcs, Sso!Asserted, Sso!ReadMembership,
     Sso!WriteMembership, Sso!CreateTicket, Sso!TakeTicket, Sso!OpenSession, Sso!SignOnDies,
     Sso!ReadState, Sso!ReadTicket, Sso!DeleteBegin
<1>6. ASSUME NEW o \in Sso!Providers, Sso!BuildAuthorizationUrl(o) \/ Sso!BuildLoginUrl(o) \/ Sso!SetProvider(o)
      PROVE  identity' = identity
  BY <1>6, Zenon DEF Sso!BuildAuthorizationUrl, Sso!BuildLoginUrl, Sso!CreateState, Sso!SetProvider
<1>7. (\E v \in Users : Sso!ChangeUser(v)) \/ Sso!ExpireSignOn \/ UNCHANGED signOnVars => identity' = identity
  BY DEF Sso!ChangeUser, Sso!ExpireSignOn, signOnVars
<1> QED
  BY <1>3, <1>4, <1>5, <1>6, <1>7 DEF Sso!SignOnNext

-----------------------------------------------------------------------------
(* ProfileMedia, as Media.                                                 *)

\* A call that works on the picture of a user: what it was given is its own until
\* it writes the row, and what it is going to delete no row names.
Uploading(c) ==
    /\ upload[c].old \notin fresh
    /\ upload[c].old # None => \A v \in Users \ {upload[c].user} : avatar[v] # upload[c].old
    /\ Media!At(c, "saving") =>
         /\ upload[c].new \in stored \ fresh
         /\ \A v \in Users : avatar[v] # upload[c].new
    /\ Media!At(c, "cleaning") /\ upload[c].old # None => \A v \in Users : avatar[v] # upload[c].old

\* No name is given twice, and an object that is stored has somebody to delete it.
UploadsInv ==
    /\ \A u \in Users : /\ avatar[u] \notin fresh
                        /\ avatar[u] # None => \A v \in Users \ {u} : avatar[v] # avatar[u]
    /\ \A c \in Calls : upload[c] # None => Uploading(c)
    /\ \A c, d \in Calls : upload[c] # None /\ Media!At(d, "saving") =>
         /\ upload[d].new # upload[c].old
         /\ c # d /\ Media!At(c, "saving") => upload[c].new # upload[d].new
    /\ \A k \in stored \ leaked :
         \/ \E u \in Users : avatar[u] = k
         \/ \E c \in Calls : \/ Media!At(c, "saving") /\ upload[c].new = k
                             \/ Media!At(c, "cleaning") /\ upload[c].old = k
    /\ \A u \in Users : avatar[u] # None => avatar[u] \in stored \cup lost

\* What a backup has of the objects that its rows name.
BackupInv ==
    backup # None =>
        /\ stored \subseteq backup.listed \cup backup.saved
        /\ backup.saved \subseteq stored \cup backup.transient
        /\ backup.step # "listed" =>
             \A u \in Users : backup.rows[u] \in backup.listed \cup backup.saved \cup lost \cup {None}
        /\ backup.step \in {"made", "tested"} =>
             \A u \in Users : backup.rows[u] \in backup.listed \cup backup.copied \cup backup.transient
                                                 \cup lost \cup {None}
        /\ backup.step = "tested" => backup.copied = backup.listed

\* The inductive invariant of ProfileMedia.
MediaInv == Media!MediaTypeOK /\ UploadsInv /\ BackupInv

\* ProfileMedia: what the state and the calls are.
LEMMA MediaTypes ==
    ASSUME Media!MediaTypeOK
    PROVE  /\ avatar \in [Users -> Objects \cup {None}] /\ stored \subseteq Objects /\ fresh \subseteq Objects
           /\ upload \in [Calls -> Media!UpdateCall \cup Media!RemoveCall \cup {None}]
           /\ backup = None \/ backup \in Media!Backup
           /\ lost \subseteq Objects /\ leaked \subseteq Objects
           /\ None \notin Objects /\ None \notin Media!UpdateCall \cup Media!RemoveCall \cup Media!Backup
           /\ \A r \in Media!UpdateCall \cup Media!RemoveCall :
                /\ r.user \in Users /\ r.new \in Objects \cup {None} /\ r.old \in Objects \cup {None}
                /\ r.step \in {"reading", "saving", "removing", "cleaning"}
                /\ r.step \in {"reading", "saving"} => r \in Media!UpdateCall
           /\ \A b \in Media!Backup : /\ b.rows \in [Users -> Objects \cup {None}] /\ b.listed \subseteq Objects
                                      /\ b.copied \subseteq Objects /\ b.saved \subseteq Objects
                                      /\ b.transient \subseteq Objects
  BY AccessAssumption DEF Media!MediaAssumption, Media!MediaTypeOK, Media!Key, Media!UpdateCall, Media!RemoveCall, Media!Backup

\* ProfileMedia: its initial state.
LEMMA MediaStart == Media!MediaInit => MediaInv
<1> SUFFICES ASSUME Media!MediaInit PROVE MediaInv
  OBVIOUS
<1>1. /\ avatar = [u \in Users |-> None] /\ stored = {} /\ fresh = Objects /\ upload = [c \in Calls |-> None]
      /\ backup = None /\ lost = {} /\ leaked = {} /\ None \notin Objects
  BY AccessAssumption DEF Media!MediaInit, Media!MediaAssumption
<1>2. Media!MediaTypeOK
  BY <1>1 DEF Media!MediaTypeOK, Media!Key
<1>3. (\A u \in Users : avatar[u] = None) /\ \A c \in Calls : upload[c] = None
  BY <1>1
<1>4. UploadsInv /\ BackupInv
  BY <1>1, <1>3 DEF UploadsInv, BackupInv, Media!At
<1> QED
  BY <1>2, <1>4 DEF MediaInv

\* A backup under way, while objects come and go.
LEMMA BackupKept ==
    ASSUME Media!MediaTypeOK, BackupInv, lost \subseteq lost',
           backup = None => backup' = None,
           backup # None =>
             /\ backup' \in Media!Backup
             /\ backup'.step = backup.step /\ backup'.listed = backup.listed /\ backup'.rows = backup.rows
             /\ backup'.copied = backup.copied
             /\ backup.saved \subseteq backup'.saved /\ backup.transient \subseteq backup'.transient
             /\ stored' \subseteq stored \cup backup'.saved
             /\ backup'.saved \subseteq stored' \cup backup'.transient
    PROVE  BackupInv'
<1> SUFFICES ASSUME backup # None PROVE BackupInv'
  BY DEF BackupInv
<1>1. \A x : x \in backup.saved => x \in backup'.saved
  OBVIOUS
<1>2. \A x : x \in lost => x \in lost'
  OBVIOUS
<1>3. stored' \subseteq backup'.listed \cup backup'.saved
  BY <1>1 DEF BackupInv
<1>4. backup'.step # "listed" =>
        \A u \in Users : backup'.rows[u] \in backup'.listed \cup backup'.saved \cup lost' \cup {None}
  BY <1>1, <1>2 DEF BackupInv
<1>5. backup'.step \in {"made", "tested"} =>
        \A u \in Users : backup'.rows[u] \in backup'.listed \cup backup'.copied \cup backup'.transient
                                             \cup lost' \cup {None}
  BY <1>2 DEF BackupInv
<1> QED
  BY <1>3, <1>4, <1>5 DEF BackupInv

\* An object is stored.
LEMMA SaveStep ==
    ASSUME Media!MediaTypeOK, BackupInv, NEW k \in Objects, Media!Save(k), UNCHANGED lost
    PROVE  BackupInv' /\ (backup' = None \/ backup' \in Media!Backup)
<1>1. CASE backup = None
  BY <1>1, BackupKept DEF Media!Save
<1>2. CASE backup # None
  <2>1. backup \in Media!Backup
    BY <1>2, MediaTypes
  <2> PICK b : b = [backup EXCEPT !.saved = backup.saved \cup {k}]
    OBVIOUS
  <2>2. /\ b \in Media!Backup /\ b.step = backup.step /\ b.listed = backup.listed /\ b.rows = backup.rows
        /\ b.copied = backup.copied /\ b.saved = backup.saved \cup {k} /\ b.transient = backup.transient
    BY <2>1 DEF Media!Backup
  <2>3. backup' = b /\ stored' = stored \cup {k}
    BY <1>2, <2>1 DEF Media!Save, Media!Backup
  <2> HIDE DEF Media!Save
  <2>4. b.saved \subseteq stored' \cup b.transient
    BY <1>2, <2>2, <2>3 DEF BackupInv
  <2> QED
    BY <1>2, <2>2, <2>3, <2>4, BackupKept
<1> QED
  BY <1>1, <1>2

\* An object is deleted; a is the backup before, but for the note of a row added since.
LEMMA DeleteStep ==
    ASSUME Media!MediaTypeOK, BackupInv, NEW k, NEW a, Media!Delete(k, a), lost \subseteq lost',
           k \in Objects,
           backup = None => a = None,
           backup # None => /\ a \in Media!Backup /\ a.step = backup.step /\ a.listed = backup.listed
                            /\ a.rows = backup.rows /\ a.copied = backup.copied /\ a.saved = backup.saved
                            /\ a.transient = backup.transient
    PROVE  BackupInv' /\ (backup' = None \/ backup' \in Media!Backup)
<1>1. CASE backup = None
  BY <1>1, BackupKept DEF Media!Delete
<1>2. CASE backup # None
  <2>1. a # None /\ a \in Media!Backup
    BY <1>2, MediaTypes
  <2> PICK b : b = [a EXCEPT !.transient = a.transient \cup {k}]
    OBVIOUS
  <2>2. /\ b \in Media!Backup /\ b.step = a.step /\ b.listed = a.listed /\ b.rows = a.rows
        /\ b.copied = a.copied /\ b.saved = a.saved /\ b.transient = a.transient \cup {k}
    BY <2>1 DEF Media!Backup
  <2>3. stored' = stored \ {k} /\ (k \in a.saved => backup' = b) /\ (k \notin a.saved => backup' = a)
    BY <2>1 DEF Media!Delete, Media!Backup
  <2>4. backup'.saved \subseteq stored' \cup backup'.transient
    BY <1>2, <2>2, <2>3 DEF BackupInv
  <2>5. backup' \in Media!Backup /\ stored' \subseteq stored
    BY <2>1, <2>2, <2>3
  <2>6. /\ backup'.step = backup.step /\ backup'.listed = backup.listed /\ backup'.rows = backup.rows
        /\ backup'.copied = backup.copied /\ backup.saved \subseteq backup'.saved
        /\ backup.transient \subseteq backup'.transient
    BY <1>2, <2>2, <2>3
  <2> QED
    BY <1>2, <2>4, <2>5, <2>6, BackupKept
<1> QED
  BY <1>1, <1>2

\* A call begins, for the picture of a user.
LEMMA ReadStep ==
    ASSUME MediaInv, NEW c \in Calls, NEW u \in Users, upload[c] = None,
           NEW s \in Media!UpdateCall \cup Media!RemoveCall,
           s.user = u, s.old = avatar[u], s.step \in {"reading", "removing"},
           upload' = [upload EXCEPT ![c] = s],
           UNCHANGED <<avatar, stored, fresh, backup, lost, leaked>>
    PROVE  MediaInv'
<1> USE MediaTypes DEF MediaInv
<1>1. Media!MediaTypeOK' /\ BackupInv'
  BY DEF Media!MediaTypeOK, BackupInv
<1>2. upload'[c] = s /\ s # None /\ \A d \in Calls \ {c} : upload'[d] = upload[d]
  OBVIOUS
<1>3. \A d \in Calls : upload'[d] # None => Uploading(d)'
  BY <1>2 DEF UploadsInv, Uploading, Media!At
<1>4. \A d, e \in Calls : upload'[d] # None /\ Media!At(e, "saving")' =>
        /\ upload'[e].new # upload'[d].old
        /\ d # e /\ Media!At(d, "saving")' => upload'[d].new # upload'[e].new
  BY <1>2 DEF UploadsInv, Uploading, Media!At
<1>5. ASSUME NEW k \in stored \ leaked
      PROVE  \/ \E v \in Users : avatar[v] = k
             \/ \E d \in Calls : \/ Media!At(d, "saving")' /\ upload'[d].new = k
                                 \/ Media!At(d, "cleaning")' /\ upload'[d].old = k
  BY <1>2, <1>5 DEF UploadsInv, Media!At
<1> QED
  BY <1>1, <1>3, <1>4, <1>5 DEF UploadsInv

\* A call writes the row: what it names now is new, and what it named before is
\* either what the call is going to delete, or leaked.
LEMMA WriteStep ==
    ASSUME MediaInv, NEW c \in Calls, NEW r \in Media!UpdateCall \cup Media!RemoveCall, r = upload[c],
           r.step \in {"saving", "removing"}, NEW k \in Objects \cup {None},
           IF r.step = "saving" THEN k = r.new ELSE k = None,
           NEW s \in Media!UpdateCall \cup Media!RemoveCall,
           s.step = "cleaning", s.user = r.user, s.old = r.old,
           upload' = [upload EXCEPT ![c] = s],
           avatar' = [avatar EXCEPT ![r.user] = k],
           leaked' = leaked \cup ({avatar[r.user]} \ {None, r.old}),
           UNCHANGED <<stored, fresh, backup, lost>>
    PROVE  MediaInv'
<1> USE MediaTypes DEF MediaInv
<1>1. /\ upload'[c] = s /\ s # None /\ \A d \in Calls \ {c} : upload'[d] = upload[d]
      /\ r.user \in Users /\ avatar'[r.user] = k /\ \A v \in Users \ {r.user} : avatar'[v] = avatar[v]
  OBVIOUS
<1>2. Media!MediaTypeOK' /\ BackupInv'
  <2>1. leaked' \subseteq Objects /\ avatar' \in [Users -> Objects \cup {None}]
        /\ upload' \in [Calls -> Media!UpdateCall \cup Media!RemoveCall \cup {None}]
    OBVIOUS
  <2> QED
    BY <2>1 DEF Media!MediaTypeOK, Media!Key, BackupInv
<1>3. Uploading(c) /\ (r.step = "saving" => Media!At(c, "saving"))
  BY DEF UploadsInv, Media!At
<1>4. k # None => /\ k \in stored \ fresh /\ \A v \in Users : avatar[v] # k
                  /\ \A d \in Calls : upload[d] # None => upload[d].old # k
                  /\ \A d \in Calls \ {c} : Media!At(d, "saving") => upload[d].new # k
  BY <1>3 DEF Uploading, UploadsInv
<1>5. \A u \in Users : /\ avatar'[u] \notin fresh
                       /\ avatar'[u] # None => \A v \in Users \ {u} : avatar'[v] # avatar'[u]
  BY <1>1, <1>4 DEF UploadsInv
<1>6. \A d \in Calls \ {c} : upload[d] # None => Uploading(d)'
  BY <1>1, <1>4 DEF UploadsInv, Uploading, Media!At
<1>7. Uploading(c)'
  BY <1>1, <1>3, <1>4 DEF Uploading, Media!At
<1>8. \A d, e \in Calls : upload'[d] # None /\ Media!At(e, "saving")' =>
        /\ upload'[e].new # upload'[d].old
        /\ d # e /\ Media!At(d, "saving")' => upload'[d].new # upload'[e].new
  BY <1>1 DEF UploadsInv, Media!At
<1>9. ASSUME NEW x \in stored \ leaked'
      PROVE  \/ \E v \in Users : avatar'[v] = x
             \/ \E d \in Calls : \/ Media!At(d, "saving")' /\ upload'[d].new = x
                                 \/ Media!At(d, "cleaning")' /\ upload'[d].old = x
  <2>1. CASE \E v \in Users : avatar[v] = x
    BY <1>1, <1>9, <2>1 DEF Media!At
  <2>2. CASE \E d \in Calls : \/ Media!At(d, "saving") /\ upload[d].new = x
                              \/ Media!At(d, "cleaning") /\ upload[d].old = x
    BY <1>1, <1>9, <2>2 DEF Media!At
  <2> QED
    BY <1>9, <2>1, <2>2 DEF UploadsInv
<1>10. \A u \in Users : avatar'[u] # None => avatar'[u] \in stored \cup lost
  BY <1>1, <1>4 DEF UploadsInv
<1> QED
  BY <1>2, <1>5, <1>6, <1>7, <1>8, <1>9, <1>10 DEF UploadsInv

\* A call ends: it gives up what it has stored, and what it was to delete.
LEMMA EndStep ==
    ASSUME MediaInv, NEW c \in Calls, NEW r \in Media!UpdateCall \cup Media!RemoveCall, r = upload[c],
           upload' = [upload EXCEPT ![c] = None],
           stored' \subseteq stored, lost \subseteq lost', leaked \subseteq leaked', UNCHANGED fresh,
           avatar' \in [Users -> Objects \cup {None}], lost' \subseteq Objects, leaked' \subseteq Objects,
           \A x \in stored \ stored' : (r.step = "saving" /\ x = r.new) \/ (r.step = "cleaning" /\ x = r.old),
           r.step = "saving" => r.new \in leaked' \/ r.new \notin stored',
           r.step = "cleaning" /\ r.old # None => r.old \in leaked' \/ r.old \notin stored',
           \/ UNCHANGED avatar
           \/ /\ r.step = "saving" /\ avatar' = [avatar EXCEPT ![r.user] = r.new]
              /\ r.new \in lost' /\ (avatar[r.user] # None => avatar[r.user] \in leaked'),
           BackupInv', backup' = None \/ backup' \in Media!Backup
    PROVE  MediaInv'
<1> USE MediaTypes DEF MediaInv
<1>1. upload'[c] = None /\ \A d \in Calls \ {c} : upload'[d] = upload[d]
  OBVIOUS
<1>2. Media!MediaTypeOK'
  BY DEF Media!MediaTypeOK, Media!Key
<1>3. Uploading(c) /\ (r.step = "saving" => Media!At(c, "saving")) /\ (r.step = "cleaning" => Media!At(c, "cleaning"))
  BY DEF UploadsInv, Media!At
<1>4. r.step = "saving" => /\ r.new \in Objects \ fresh /\ \A v \in Users : avatar[v] # r.new
                           /\ \A d \in Calls : upload[d] # None => upload[d].old # r.new
                           /\ \A d \in Calls \ {c} : Media!At(d, "saving") => upload[d].new # r.new
  BY <1>3 DEF Uploading, UploadsInv
<1>5. \A k \in stored \ stored' : /\ \A v \in Users : avatar[v] # k
                                  /\ \A d \in Calls \ {c} : Media!At(d, "saving") => upload[d].new # k
  BY <1>3, <1>4 DEF Uploading, UploadsInv
<1>6. \A u \in Users : avatar'[u] # avatar[u] =>
        u = r.user /\ r.step = "saving" /\ avatar'[u] = r.new /\ r.new \in lost'
        /\ (avatar[u] # None => avatar[u] \in leaked')
  OBVIOUS
<1>7. \A u \in Users : /\ avatar'[u] \notin fresh
                       /\ avatar'[u] # None => \A v \in Users \ {u} : avatar'[v] # avatar'[u]
  BY <1>4, <1>6 DEF UploadsInv
<1>8. ASSUME NEW d \in Calls \ {c}, upload[d] # None PROVE Uploading(d)'
  <2>1. Uploading(d) /\ upload'[d] = upload[d]
    BY <1>1, <1>8 DEF UploadsInv
  <2>2. \A v \in Users : avatar'[v] # avatar[v] => avatar'[v] # upload[d].old
                                                   /\ (Media!At(d, "saving") => avatar'[v] # upload[d].new)
    BY <1>4, <1>6, <1>8
  <2>3. Media!At(d, "saving") => upload[d].new \in stored'
    BY <1>5, <2>1 DEF Uploading
  <2> QED
    BY <1>8, <2>1, <2>2, <2>3 DEF Uploading, Media!At
<1>9. \A d, e \in Calls : upload'[d] # None /\ Media!At(e, "saving")' =>
        /\ upload'[e].new # upload'[d].old
        /\ d # e /\ Media!At(d, "saving")' => upload'[d].new # upload'[e].new
  BY <1>1 DEF UploadsInv, Media!At
<1>10. ASSUME NEW x \in stored' \ leaked'
       PROVE  \/ \E v \in Users : avatar'[v] = x
              \/ \E d \in Calls : \/ Media!At(d, "saving")' /\ upload'[d].new = x
                                  \/ Media!At(d, "cleaning")' /\ upload'[d].old = x
  <2>1. CASE \E v \in Users : avatar[v] = x
    BY <1>6, <1>10, <2>1
  <2>2. CASE \E d \in Calls : \/ Media!At(d, "saving") /\ upload[d].new = x
                              \/ Media!At(d, "cleaning") /\ upload[d].old = x
    BY <1>1, <1>10, <2>2 DEF Media!At
  <2> QED
    BY <1>10, <2>1, <2>2 DEF UploadsInv
<1>11. ASSUME NEW u \in Users, avatar'[u] # None PROVE avatar'[u] \in stored' \cup lost'
  <2>1. CASE avatar'[u] # avatar[u]
    BY <1>6, <2>1
  <2>2. CASE avatar'[u] = avatar[u]
    BY <1>5, <1>11, <2>2 DEF UploadsInv
  <2> QED
    BY <2>1, <2>2
<1> QED
  BY <1>1, <1>2, <1>7, <1>8, <1>9, <1>10, <1>11 DEF UploadsInv

\* ProfileMedia: each of its actions.
LEMMA MediaStep == MediaInv /\ [Media!MediaNext]_mediaVars => MediaInv'
<1> SUFFICES ASSUME MediaInv, [Media!MediaNext]_mediaVars PROVE MediaInv'
  OBVIOUS
<1> USE MediaTypes
<1>1. Media!MediaTypeOK /\ UploadsInv /\ BackupInv
  BY DEF MediaInv
<1>2. ASSUME NEW c \in Calls, NEW u \in Users, Media!UpdateRead(c, u) \/ Media!RemoveRead(c, u) PROVE MediaInv'
  <2>1. PICK step \in {"reading", "removing"} :
          upload' = [upload EXCEPT ![c] = [step |-> step, user |-> u, new |-> None, old |-> avatar[u]]]
    BY <1>2 DEF Media!UpdateRead, Media!RemoveRead
  <2> PICK s : s = [step |-> step, user |-> u, new |-> None, old |-> avatar[u]]
    OBVIOUS
  <2>2. s.user = u /\ s.old = avatar[u] /\ s.step = step /\ avatar[u] \in Objects \cup {None}
    BY <1>1
  <2>3. s \in Media!UpdateCall \cup Media!RemoveCall
    BY <2>2 DEF Media!UpdateCall, Media!RemoveCall, Media!Key
  <2>4. upload' = [upload EXCEPT ![c] = s] /\ upload[c] = None /\ UNCHANGED <<avatar, stored, fresh, backup, lost, leaked>>
    BY <1>2, <2>1 DEF Media!UpdateRead, Media!RemoveRead
  <2> QED
    BY <2>2, <2>3, <2>4, ReadStep
<1>3. ASSUME NEW c \in Calls, NEW k \in Objects, Media!UpdateSave(c, k) PROVE MediaInv'
  <2>1. PICK r \in Media!UpdateCall \cup Media!RemoveCall : r = upload[c] /\ r.step = "reading" /\ Uploading(c)
    BY <1>1, <1>3 DEF Media!UpdateSave, Media!At, UploadsInv
  <2> PICK s : s = [r EXCEPT !.step = "saving", !.new = k]
    OBVIOUS
  <2>2. s \in Media!UpdateCall /\ s.step = "saving" /\ s.new = k /\ s.user = r.user /\ s.old = r.old
    BY <1>1, <2>1 DEF Media!UpdateCall, Media!Key
  <2>3. /\ upload' = [upload EXCEPT ![c] = s] /\ k \in fresh /\ fresh' = fresh \ {k} /\ stored' = stored \cup {k}
        /\ UNCHANGED <<avatar, lost, leaked>>
    BY <1>3, <2>1 DEF Media!UpdateSave, Media!Save
  <2>4. upload'[c] = s /\ s # None /\ \A d \in Calls \ {c} : upload'[d] = upload[d]
    BY <1>1, <2>2, <2>3
  <2>5. BackupInv' /\ (backup' = None \/ backup' \in Media!Backup)
    BY <1>1, <1>3, SaveStep DEF Media!UpdateSave
  <2>6. Media!MediaTypeOK'
    <3>1. /\ upload' \in [Calls -> Media!UpdateCall \cup Media!RemoveCall \cup {None}]
          /\ stored' \subseteq Objects /\ fresh' \subseteq Objects
      BY <1>1, <2>2, <2>3
    <3> QED
      BY <1>1, <2>3, <2>5, <3>1 DEF Media!MediaTypeOK
  <2>7. /\ \A v \in Users : avatar[v] # k
        /\ \A d \in Calls : upload[d] # None => upload[d].old # k /\ (Media!At(d, "saving") => upload[d].new # k)
    BY <1>1, <2>3 DEF UploadsInv, Uploading
  <2>8. Uploading(c)' /\ \A d \in Calls \ {c} : upload[d] # None => Uploading(d)'
    BY <1>1, <2>1, <2>2, <2>3, <2>4, <2>7 DEF UploadsInv, Uploading, Media!At
  <2>9. \A d, e \in Calls : upload'[d] # None /\ Media!At(e, "saving")' =>
          /\ upload'[e].new # upload'[d].old
          /\ d # e /\ Media!At(d, "saving")' => upload'[d].new # upload'[e].new
    <3>1. upload[c] # None /\ s.old = upload[c].old /\ k # s.old /\ ~Media!At(c, "saving")
      BY <1>1, <2>1, <2>2, <2>7 DEF Media!At
    <3>2. \A d \in Calls : upload'[d] # None => upload[d] # None /\ upload'[d].old = upload[d].old
      BY <2>4, <3>1
    <3>3. \A d \in Calls \ {c} : 
            Media!At(d, "saving")' => Media!At(d, "saving") /\ upload[d] # None /\ upload'[d].new = upload[d].new
      BY <2>4 DEF Media!At
    <3>4. upload'[c].new = k
      BY <2>2, <2>4
    <3> QED
      BY <1>1, <2>7, <3>2, <3>3, <3>4 DEF UploadsInv
  <2>10. ASSUME NEW x \in stored' \ leaked
         PROVE  \/ \E v \in Users : avatar[v] = x
                \/ \E d \in Calls : \/ Media!At(d, "saving")' /\ upload'[d].new = x
                                    \/ Media!At(d, "cleaning")' /\ upload'[d].old = x
    <3>1. CASE x = k
      BY <2>2, <2>4, <3>1 DEF Media!At
    <3>2. CASE x # k
      BY <1>1, <2>1, <2>3, <2>4, <2>10, <3>2 DEF UploadsInv, Media!At
    <3> QED
      BY <3>1, <3>2
  <2>11. \A u \in Users : avatar[u] \notin fresh' /\ (avatar[u] # None => avatar[u] \in stored' \cup lost)
    BY <1>1, <2>3 DEF UploadsInv
  <2>12. UploadsInv'
    BY <1>1, <2>3, <2>4, <2>8, <2>9, <2>10, <2>11 DEF UploadsInv
  <2> QED
    BY <2>5, <2>6, <2>12 DEF MediaInv
<1>4. ASSUME NEW c \in Calls, Media!UpdateWrite(c) \/ Media!RemoveWrite(c) PROVE MediaInv'
  <2>1. PICK r \in Media!UpdateCall \cup Media!RemoveCall :
          r = upload[c] /\ r.step = (IF Media!UpdateWrite(c) THEN "saving" ELSE "removing")
    BY <1>1, <1>4 DEF Media!UpdateWrite, Media!RemoveWrite, Media!At
  <2>2. CASE Media!UpdateWrite(c)
    <3> PICK s : s = [r EXCEPT !.step = "cleaning", !.new = None]
      OBVIOUS
    <3>1. s \in Media!UpdateCall /\ s.step = "cleaning" /\ s.user = r.user /\ s.old = r.old
      BY <1>1, <2>1, <2>2 DEF Media!UpdateCall, Media!Key
    <3>2. /\ upload' = [upload EXCEPT ![c] = s] /\ avatar' = [avatar EXCEPT ![r.user] = r.new]
          /\ leaked' = leaked \cup ({avatar[r.user]} \ {None, r.old})
          /\ UNCHANGED <<stored, fresh, backup, lost>>
      BY <2>1, <2>2 DEF Media!UpdateWrite
    <3>3. r.step = "saving" /\ r.new \in Objects \cup {None}
      BY <1>1, <2>1, <2>2
    <3> QED
      BY <2>1, <3>1, <3>2, <3>3, WriteStep
  <2>3. CASE ~Media!UpdateWrite(c)
    <3> PICK s : s = [r EXCEPT !.step = "cleaning"]
      OBVIOUS
    <3>1. s \in Media!RemoveCall /\ s.step = "cleaning" /\ s.user = r.user /\ s.old = r.old /\ r.step = "removing"
      BY <1>1, <2>1, <2>3 DEF Media!UpdateCall, Media!RemoveCall, Media!Key
    <3>2. upload' = [upload EXCEPT ![c].step = "cleaning"]
      BY <1>4, <2>3 DEF Media!RemoveWrite
    <3>3. upload' = [upload EXCEPT ![c] = s]
      BY <2>1, <3>2
    <3>4. /\ avatar' = [avatar EXCEPT ![r.user] = None]
          /\ leaked' = leaked \cup ({avatar[r.user]} \ {None, r.old})
          /\ UNCHANGED <<stored, fresh, backup, lost>>
      BY <1>4, <2>1, <2>3 DEF Media!RemoveWrite
    <3> QED
      BY <2>1, <3>1, <3>3, <3>4, WriteStep
  <2> QED
    BY <2>2, <2>3
<1>5. ASSUME NEW c \in Calls, Media!UpdateFails(c) PROVE MediaInv'
  <2>1. PICK r \in Media!UpdateCall \cup Media!RemoveCall : r = upload[c] /\ r.step = "saving" /\ Uploading(c)
    BY <1>1, <1>5 DEF Media!UpdateFails, Media!At, UploadsInv
  <2>2. r.new \in Objects /\ r.user \in Users
    BY <1>1, <2>1 DEF Uploading, Media!At
  <2>3. /\ upload' = [upload EXCEPT ![c] = None] /\ Media!Delete(r.new, backup) /\ UNCHANGED fresh
        /\ \/ UNCHANGED <<avatar, lost, leaked>>
           \/ /\ avatar' = [avatar EXCEPT ![r.user] = r.new] /\ lost' = lost \cup {r.new}
              /\ leaked' = leaked \cup ({avatar[r.user]} \ {None})
    BY <1>5, <2>1 DEF Media!UpdateFails, Media!Return
  <2>4. /\ lost \subseteq lost' /\ leaked \subseteq leaked' /\ lost' \subseteq Objects /\ leaked' \subseteq Objects
        /\ avatar' \in [Users -> Objects \cup {None}]
    BY <1>1, <2>2, <2>3
  <2>5. BackupInv' /\ (backup' = None \/ backup' \in Media!Backup)
    BY <1>1, <2>2, <2>3, <2>4, DeleteStep
  <2>6. stored' = stored \ {r.new}
    BY <2>3 DEF Media!Delete
  <2>7. /\ stored' \subseteq stored /\ (\A x \in stored \ stored' : r.step = "saving" /\ x = r.new) /\ r.new \notin stored'
        /\ r.step # "cleaning"
    BY <2>1, <2>6
  <2>8. /\ \A x \in stored \ stored' : (r.step = "saving" /\ x = r.new) \/ (r.step = "cleaning" /\ x = r.old)
        /\ r.step = "saving" => r.new \in leaked' \/ r.new \notin stored'
        /\ r.step = "cleaning" /\ r.old # None => r.old \in leaked' \/ r.old \notin stored'
    BY <2>1, <2>7
  <2>9. upload' = [upload EXCEPT ![c] = None] /\ UNCHANGED fresh /\ stored' \subseteq stored /\ r = upload[c]
    BY <2>1, <2>3, <2>7
  <2>10. \/ UNCHANGED avatar
         \/ /\ r.step = "saving" /\ avatar' = [avatar EXCEPT ![r.user] = r.new]
            /\ r.new \in lost' /\ (avatar[r.user] # None => avatar[r.user] \in leaked')
    BY <2>1, <2>3
  <2> HIDE MediaTypes
  <2> QED
    BY <2>4, <2>5, <2>8, <2>9, <2>10, EndStep
<1>6. ASSUME NEW c \in Calls, Media!DeleteOld(c) PROVE MediaInv'
  <2>1. PICK r \in Media!UpdateCall \cup Media!RemoveCall : r = upload[c] /\ r.step = "cleaning"
    BY <1>1, <1>6 DEF Media!DeleteOld, Media!At
  <2> PICK a : a = Media!Recorded(backup)
    OBVIOUS
  <2>2. /\ backup = None => a = None
        /\ backup # None => /\ a \in Media!Backup /\ a.step = backup.step /\ a.listed = backup.listed
                            /\ a.rows = backup.rows /\ a.copied = backup.copied /\ a.saved = backup.saved
                            /\ a.transient = backup.transient
    BY <1>1 DEF Media!Recorded, Media!Backup
  <2>3. /\ upload' = [upload EXCEPT ![c] = None] /\ UNCHANGED <<avatar, fresh, lost>>
        /\ \/ r.old # None /\ Media!Delete(r.old, a) /\ UNCHANGED leaked
           \/ leaked' = leaked \cup ({r.old} \ {None}) /\ backup' = a /\ UNCHANGED stored
    BY <1>6, <2>1 DEF Media!DeleteOld, Media!Return
  <2>4. CASE r.old # None /\ Media!Delete(r.old, a) /\ UNCHANGED leaked
    <3>1. BackupInv' /\ (backup' = None \/ backup' \in Media!Backup)
      BY <1>1, <2>1, <2>2, <2>3, <2>4, DeleteStep
    <3>2. stored' = stored \ {r.old}
      BY <2>4 DEF Media!Delete
    <3>3. /\ stored' \subseteq stored /\ (\A x \in stored \ stored' : r.step = "cleaning" /\ x = r.old) /\ r.old \notin stored'
          /\ r.step # "saving"
      BY <2>1, <3>2
    <3> QED
      BY <1>1, <2>1, <2>3, <2>4, <3>1, <3>3, EndStep
  <2>5. CASE leaked' = leaked \cup ({r.old} \ {None}) /\ backup' = a /\ UNCHANGED stored
    <3>1. BackupInv'
      BY <1>1, <2>2, <2>3, <2>5, BackupKept DEF BackupInv
    <3>2. backup' = None \/ backup' \in Media!Backup
      BY <2>2, <2>5
    <3>3. leaked' \subseteq Objects /\ leaked \subseteq leaked' /\ (r.old # None => r.old \in leaked') /\ r.step # "saving"
      BY <1>1, <2>1, <2>5
    <3> QED
      BY <1>1, <2>1, <2>3, <2>5, <3>1, <3>2, <3>3, EndStep
  <2> QED
    BY <2>3, <2>4, <2>5
<1>7. ASSUME NEW c \in Calls, Media!Die(c) PROVE MediaInv'
  <2>1. PICK r \in Media!UpdateCall \cup Media!RemoveCall : r = upload[c]
    BY <1>1, <1>7 DEF Media!Die
  <2>2. /\ upload' = [upload EXCEPT ![c] = None] /\ UNCHANGED <<avatar, stored, fresh, backup, lost>>
        /\ leaked' = leaked \cup ({r.new} \ {None})
                            \cup (IF r.step = "cleaning" THEN {r.old} \ {None} ELSE {})
    BY <1>7, <2>1 DEF Media!Die, Media!Return, Media!At
  <2>3. leaked \subseteq leaked' /\ leaked' \subseteq Objects /\ (r.step = "cleaning" /\ r.old # None => r.old \in leaked')
    BY <1>1, <2>1, <2>2
  <2>4. r.step = "saving" => r.new \in leaked'
    BY <1>1, <1>7, <2>1, <2>2 DEF UploadsInv, Uploading, Media!At, Media!Die
  <2>5. BackupInv'
    BY <1>1, <2>2 DEF BackupInv
  <2> QED
    BY <1>1, <2>1, <2>2, <2>3, <2>4, <2>5, EndStep
<1>8. ASSUME UNCHANGED <<avatar, stored, fresh, upload, lost, leaked>>,
             BackupInv', backup' = None \/ backup' \in Media!Backup
      PROVE  MediaInv'
  BY <1>1, <1>8 DEF MediaInv, Media!MediaTypeOK, UploadsInv, Uploading, Media!At
<1>9. CASE Media!ListObjects
  <2> PICK b : b = [step |-> "listed", listed |-> stored, rows |-> avatar, still |-> TRUE,
                    copied |-> {}, saved |-> {}, transient |-> {}]
    OBVIOUS
  <2>1. b.step = "listed" /\ b.listed = stored /\ b.saved = {}
    OBVIOUS
  <2>2. b \in Media!Backup
    BY <1>1 DEF Media!Backup, Media!Key
  <2>3. backup' = b
    BY <1>9 DEF Media!ListObjects
  <2>4. UNCHANGED <<avatar, stored, fresh, upload, lost, leaked>>
    BY <1>9 DEF Media!ListObjects
  <2>5. BackupInv'
    BY <2>1, <2>3, <2>4 DEF BackupInv
  <2> QED
    BY <1>8, <2>2, <2>3, <2>4, <2>5
<1>10. CASE Media!Dump
  <2>1. backup \in Media!Backup /\ backup.step = "listed"
    BY <1>1, <1>10 DEF Media!Dump
  <2> PICK b : b = [backup EXCEPT !.step = "dumped", !.rows = avatar]
    OBVIOUS
  <2>2. /\ b \in Media!Backup /\ b.step = "dumped" /\ b.rows = avatar /\ b.listed = backup.listed
        /\ b.saved = backup.saved /\ b.transient = backup.transient
    BY <1>1, <2>1 DEF Media!Backup, Media!Key
  <2>3. backup' = b /\ UNCHANGED <<avatar, stored, fresh, upload, lost, leaked>>
    BY <1>10 DEF Media!Dump
  <2>4. \A u \in Users : b.rows[u] \in backup.listed \cup backup.saved \cup lost \cup {None}
    BY <1>1, <2>1, <2>2 DEF BackupInv, UploadsInv
  <2>5. BackupInv'
    BY <1>1, <2>1, <2>2, <2>3, <2>4 DEF BackupInv
  <2> QED
    BY <1>8, <2>2, <2>3, <2>5
<1>11. CASE Media!CountRows
  <2>1. backup \in Media!Backup /\ backup.step = "dumped"
    BY <1>1, <1>11 DEF Media!CountRows
  <2> PICK b : b = [backup EXCEPT !.step = "counted"]
    OBVIOUS
  <2>2. /\ b \in Media!Backup /\ b.step = "counted" /\ b.rows = backup.rows /\ b.listed = backup.listed
        /\ b.saved = backup.saved /\ b.transient = backup.transient
    BY <2>1 DEF Media!Backup
  <2>3. backup' = b /\ UNCHANGED <<avatar, stored, fresh, upload, lost, leaked>>
    BY <1>11 DEF Media!CountRows
  <2>4. BackupInv'
    BY <1>1, <2>1, <2>2, <2>3 DEF BackupInv
  <2> QED
    BY <1>8, <2>2, <2>3, <2>4
<1>12. CASE Media!Mirror
  <2>1. backup \in Media!Backup /\ backup.step = "counted"
    BY <1>1, <1>12 DEF Media!Mirror
  <2> PICK b : b = [backup EXCEPT !.step = "made", !.copied = stored]
    OBVIOUS
  <2>2. /\ b \in Media!Backup /\ b.step = "made" /\ b.rows = backup.rows /\ b.listed = backup.listed
        /\ b.copied = stored /\ b.saved = backup.saved /\ b.transient = backup.transient
    BY <1>1, <2>1 DEF Media!Backup
  <2>3. (backup' = b \/ backup' = None) /\ UNCHANGED <<avatar, stored, fresh, upload, lost, leaked>>
    BY <1>12 DEF Media!Mirror
  <2>4. CASE backup' = b
    <3>1. \A u \in Users : b.rows[u] \in b.listed \cup b.copied \cup b.transient \cup lost \cup {None}
      BY <1>1, <2>1, <2>2 DEF BackupInv
    <3>2. BackupInv'
      BY <1>1, <2>1, <2>2, <2>3, <2>4, <3>1 DEF BackupInv
    <3> QED
      BY <1>8, <2>2, <2>3, <2>4, <3>2
  <2>5. CASE backup' = None
    BY <1>8, <2>3, <2>5 DEF BackupInv
  <2> QED
    BY <2>3, <2>4, <2>5
<1>13. CASE Media!RestoreTest
  <2>1. backup \in Media!Backup /\ backup.step = "made"
    BY <1>1, <1>13 DEF Media!RestoreTest
  <2> PICK b : b = [backup EXCEPT !.step = "tested"]
    OBVIOUS
  <2>2. /\ b \in Media!Backup /\ b.step = "tested" /\ b.rows = backup.rows /\ b.listed = backup.listed
        /\ b.copied = backup.copied /\ b.saved = backup.saved /\ b.transient = backup.transient
    BY <2>1 DEF Media!Backup
  <2>3. /\ (backup' = b /\ backup.copied = backup.listed) \/ backup' = None
        /\ UNCHANGED <<avatar, stored, fresh, upload, lost, leaked>>
    BY <1>13 DEF Media!RestoreTest, Media!Matches
  <2>4. CASE backup' = b /\ backup.copied = backup.listed
    <3>1. BackupInv'
      BY <1>1, <2>1, <2>2, <2>3, <2>4 DEF BackupInv
    <3> QED
      BY <1>8, <2>2, <2>3, <2>4, <3>1
  <2>5. CASE backup' = None
    BY <1>8, <2>3, <2>5 DEF BackupInv
  <2> QED
    BY <2>3, <2>4, <2>5
<1>14. CASE UNCHANGED mediaVars
  BY <1>1, <1>8, <1>14 DEF mediaVars, BackupInv
<1> QED
  BY <1>2, <1>3, <1>4, <1>5, <1>6, <1>7, <1>9, <1>10, <1>11, <1>12, <1>13, <1>14 DEF Media!MediaNext

\* ProfileMedia: what the inductive invariant says of it.
LEMMA MediaHolds ==
    MediaInv => Media!NamedIsStored /\ Media!OnlyLeaks /\ Media!RestoredIsComplete
<1> SUFFICES ASSUME MediaInv PROVE Media!NamedIsStored /\ Media!OnlyLeaks /\ Media!RestoredIsComplete
  OBVIOUS
<1> USE MediaTypes DEF MediaInv
<1>1. Media!NamedIsStored
  BY DEF UploadsInv, Media!NamedIsStored, Media!Referenced
<1>2. Media!OnlyLeaks
  BY DEF UploadsInv, Media!OnlyLeaks, Media!Referenced, Media!UnderWay, Media!At
<1>3. Media!RestoredIsComplete
  BY DEF BackupInv, Media!RestoredIsComplete
<1> QED
  BY <1>1, <1>2, <1>3

-----------------------------------------------------------------------------
(* The five together: a step is one of the module in focus.                *)

AccessInv == LoginInv /\ ContextInv /\ PasskeyInv /\ SignOnInv /\ MediaInv

\* Every step is a step of each module, or leaves it alone.
LEMMA FocusMoves ==
    ASSUME [MCNext]_allVars
    PROVE  /\ [Login!LoginNext]_loginVars /\ [Context!ContextNext]_contextVars /\ [Passkey!PasskeyNext]_passkeyVars
           /\ [Sso!SignOnNext]_signOnVars /\ [Media!MediaNext]_mediaVars
  BY Zenon DEF MCNext, allVars

\* The invariants of the five hold in every state, whichever is in focus.
LEMMA AccessHolds == MCSpec => []AccessInv
<1>1. MCInit => AccessInv
  BY LoginStart, ContextStart, PasskeyStart, SignOnStart, MediaStart, Zenon DEF MCInit, AccessInv
<1>2. AccessInv /\ [MCNext]_allVars => AccessInv'
  BY FocusMoves, LoginStep, ContextStep, PasskeyStep, SignOnStep, MediaStep, Zenon DEF AccessInv
<1> QED
  BY <1>1, <1>2, PTL DEF MCSpec

\* PasswordLogin and LoginContext: wrong passwords are counted one by one, but for
\* the races named there, and a refresh keeps a session in its context.
THEOREM LoginsStayKept == MCSpec => []LoginsAreKept
<1>1. LoginInv /\ ContextInv => LoginsAreKept
  BY DEF LoginInv, ContextInv, SuccessorsStay, Context!RefreshStays, LoginsAreKept
<1> QED
  BY <1>1, AccessHolds, PTL DEF AccessInv

\* Passkeys and SignOn: a challenge is answered once, a state gives one ticket and
\* a ticket opens one session, unless the calls that use it overlap in the
\* ways named there.
THEOREM OpeningsAreSingle == MCSpec => []EachOpensOnce
<1>1. PasskeyInv => Passkey!PasskeyTypeOK /\ Passkey!ChallengeOpensOnce
  <2>1. ASSUME PasskeyInv, NEW x \in Challenges, verified[x] > 1 PROVE x \in overlapped
    BY <2>1 DEF PasskeyInv
  <2> QED
    BY <2>1 DEF PasskeyInv, Passkey!ChallengeOpensOnce
<1>2. SignOnInv => Sso!SignOnTypeOK /\ Sso!StateGivesOneTicket /\ Sso!TicketOpensOnce
  BY DEF SignOnInv, SignOnTyped, SignOnRows
<1>3. AccessInv => EachOpensOnce
  BY <1>1, <1>2 DEF AccessInv, EachOpensOnce
<1> QED
  BY <1>3, AccessHolds, PTL

\* ProfileMedia: the object a row names is there, what is left over is known, and
\* a backup that passes its restore test is complete, outside the races and
\* failures named there.
THEOREM MediaStaysKept == MCSpec => []MediaIsKept
<1>1. MediaInv => MediaIsKept
  BY MediaHolds DEF MediaInv, MediaIsKept
<1> QED
  BY <1>1, AccessHolds, PTL DEF AccessInv

\* PasswordLogin, LoginContext and Passkeys: an account is let out of its lock only
\* by what may do so, a session opens in a context the user held while its
\* rows were read, unless two of them changed around their reads, and the
\* counter of a passkey only rises, unless one of two logins had read it
\* before the other wrote it.
THEOREM LoginsStayGuarded == MCSpec => LoginsAreGuarded
<1>1. AccessInv /\ [MCNext]_allVars
        => [lock.locked /\ ~lock'.locked =>
              \/ tries'.lapsed \/ loginChanges' # loginChanges
              \/ \E c \in Calls : login[c] # None /\ login[c].stale /\ login'[c] # login[c]]_(Login!loginVars)
  BY FocusMoves, LockStep DEF AccessInv
<1>2. AccessInv /\ [MCNext]_allVars
        => [\A t \in Tokens : session[t] = None /\ session'[t] # None =>
              \E c \in Entries : entry[c] # None /\ entry'[c] = None /\
                LET x == session'[t].context
                    seen == entry[c].seen
                IN  /\ entry[c].mixed \/ \E a \in seen : Context!Holds(a, x)
                    /\ \E a \in seen : a.active
                    /\ IF x = Platform THEN \E a \in seen : a.admin
                       ELSE /\ \E o \in seen : x \in o.organizations
                            /\ \E m, r \in seen : x \in m.member /\ m.role[x] \in r.roles
           ]_(Context!contextVars)
  BY FocusMoves, EnterStep DEF AccessInv, Enters, Together, contextVars, Context!contextVars
<1>3. AccessInv /\ [MCNext]_allVars
        => [\A k \in Keys : Passkey!Exists(k) /\ passkey'[k] # passkey[k] =>
              \/ passkey'[k] = Passkey!Deleted
              \/ passkey'[k] > passkey[k]
              \/ \E c \in Calls : Passkey!At(c, "verifying") /\ ceremony[c].key = k /\ ceremony[c].stale
           ]_(Passkey!passkeyVars)
  BY FocusMoves, CounterStep DEF AccessInv
<1>4. MCSpec => Login!LockHolds
  BY <1>1, AccessHolds, PTL DEF MCSpec, Login!LockHolds, Login!loginVars
<1>5. MCSpec => Context!EntersHeldContext
  BY <1>2, AccessHolds, PTL DEF MCSpec, Context!EntersHeldContext, Context!contextVars
<1>6. MCSpec => Passkey!CounterRises
  BY <1>3, AccessHolds, PTL DEF MCSpec, Passkey!CounterRises, Passkey!passkeyVars
<1> QED
  BY <1>4, <1>5, <1>6, PTL DEF LoginsAreGuarded

\* SignOn: a sign-on never gives back a membership that was taken away, and a
\* provider is deleted with no identity but one linked meanwhile.
THEOREM SignOnStaysWithin == MCSpec => SignOnRespectsAccess
<1>1. AccessInv /\ [MCNext]_allVars
        => [signOnChanges' = signOnChanges =>
              \A u \in Users : membership[u] # None /\ ~membership[u].active => ~membership'[u].active
           ]_(Sso!signOnVars)
  BY FocusMoves, ReadmitStep DEF AccessInv
<1>2. AccessInv /\ [MCNext]_allVars
        => [\A i \in identity \ identity' :
              \E c \in Calls : Sso!At(c, "deleting") /\ signOn[c].provider = i[1] /\ i[2] \in signOn[c].since
           ]_(Sso!signOnVars)
  BY FocusMoves, IdentityStep DEF AccessInv
<1>3. MCSpec => Sso!SignOnNeverReadmits
  BY <1>1, AccessHolds, PTL DEF MCSpec, Sso!SignOnNeverReadmits, Sso!signOnVars
<1>4. MCSpec => Sso!DeletionKeepsIdentities
  BY <1>2, AccessHolds, PTL DEF MCSpec, Sso!DeletionKeepsIdentities, Sso!signOnVars
<1> QED
  BY <1>3, <1>4, PTL DEF SignOnRespectsAccess
=============================================================================
