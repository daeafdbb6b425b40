------------------------------ MODULE Passkeys ------------------------------
(***************************************************************************)
(* PasskeysService for one user: challenges in the memory of the process,  *)
(* registration of passkeys, and login with one.                           *)
(*                                                                         *)
(* A verification reads the challenge, waits for the database and for the  *)
(* comparison of the response, and deletes the challenge only when it has  *)
(* written: other calls run in between.  Which context a login enters, and *)
(* the policy of its organization, are those of LoginContext: admitted.    *)
(* verifyAuthenticationResponse is external; of it the rule is modelled    *)
(* that a counter which is kept at all must rise.                          *)
(***************************************************************************)
EXTENDS Integers

CONSTANTS
    Keys,        \* credentials of the user's authenticators
    Challenges,  \* challenges of a login or of a registration
    Calls,       \* calls under way at the same time
    None,
    MaxUses      \* BOUND: signatures an authenticator gives

VARIABLES
    passkey,       \* user_passkeys: the counter, None before and Deleted after
    uses,          \* the counters of the authenticators
    authentication,\* challenges of logins in the cache
    registration,  \* the user's challenge of a registration in the cache
    answer,        \* what an authenticator has signed for a challenge
    admitted,      \* would resolveLoginContext and allowPasskeyLogin let a login in?
    call,          \* verifications under way
    opened,        \* history: logins and registrations per challenge
    overlapped     \* history: challenges verified by two calls at a time

passkeyVars == <<passkey, uses, authentication, registration, answer, admitted, call, opened, overlapped>>

Deleted == -1

\* An authenticator that does not count always answers 0.
Answer == [key : Keys, count : 0 .. MaxUses]

\* stale is history: has another login written the counter that was read?
Call == [step : {"verifying", "updated", "registering", "registered"},
         challenge : Challenges, key : Keys,
         counter : 0 .. MaxUses,  \* the counter read
         stale : BOOLEAN]

\* What the constants are; assumed where this module is instantiated.
PasskeysAssumption ==
    /\ MaxUses \in Nat
    /\ None \notin Challenges \cup Keys \cup Answer \cup Call /\ None \notin -1 .. MaxUses

At(c, step) == call[c] # None /\ call[c].step = step
Exists(k) == passkey[k] \in 0 .. MaxUses
Return(c) == call' = [call EXCEPT ![c] = None]

PasskeyInit ==
    /\ passkey \in [Keys -> {None, 0}]
    /\ uses = [k \in Keys |-> 0]
    /\ authentication = {} /\ registration = None
    /\ answer = [x \in Challenges |-> None]
    /\ admitted = TRUE
    /\ call = [c \in Calls |-> None]
    /\ opened = [x \in Challenges |-> 0]
    /\ overlapped = {}

\* Ids of challenges are random: one that was issued is never issued again.
Unissued == {x \in Challenges :
    /\ x \notin authentication /\ x # registration /\ x \notin overlapped
    /\ answer[x] = None /\ opened[x] = 0
    /\ \A c \in Calls : call[c] # None => call[c].challenge # x}

\* A call reads the challenge x and begins to verify.
Begin(c, x, k, step, counter) ==
    /\ call' = [call EXCEPT ![c] = [step |-> step, challenge |-> x, key |-> k,
                                    counter |-> counter, stale |-> FALSE]]
    /\ overlapped' = IF \E d \in Calls : call[d] # None /\ call[d].challenge = x
                     THEN overlapped \cup {x} ELSE overlapped

-----------------------------------------------------------------------------
(* The authenticator.                                                      *)

\* It signs a challenge; one that counts counts up.
Sign(x, k) ==
    /\ x \in authentication \cup {registration} /\ answer[x] = None
    /\ \/ /\ uses[k] < MaxUses
          /\ uses' = [uses EXCEPT ![k] = @ + 1]
       \/ uses[k] = 0 /\ UNCHANGED uses
    /\ answer' = [answer EXCEPT ![x] = [key |-> k, count |-> uses'[k]]]
    /\ UNCHANGED <<passkey, authentication, registration, admitted, call, opened, overlapped>>

-----------------------------------------------------------------------------
(* Registration.                                                           *)

\* startRegistration: the user's former challenge is overwritten.
StartRegistration ==
    /\ \E x \in Unissued : registration' = x
    /\ UNCHANGED <<passkey, uses, authentication, answer, admitted, call, opened, overlapped>>

VerifyRegistration(c) ==
    /\ call[c] = None
    /\ registration # None /\ answer[registration] # None
    /\ Begin(c, registration, answer[registration].key, "registering", answer[registration].count)
    /\ UNCHANGED <<passkey, uses, authentication, registration, answer, admitted, opened>>

\* An existing credential is refused, by the read or by the unique index.
\* An authenticator makes a new credential for each registration.
CreatePasskey(c) ==
    /\ At(c, "registering")
    /\ IF passkey[call[c].key] = None
       THEN /\ passkey' = [passkey EXCEPT ![call[c].key] = call[c].counter]
            /\ opened' = [opened EXCEPT ![call[c].challenge] = @ + 1]
            /\ call' = [call EXCEPT ![c].step = "registered"]
       ELSE Return(c) /\ UNCHANGED <<passkey, opened>>
    /\ UNCHANGED <<uses, authentication, registration, answer, admitted, overlapped>>

\* The challenge is deleted by the user's key, whichever it is by now.
EndRegistration(c) ==
    /\ At(c, "registered")
    /\ registration' = None
    /\ Return(c)
    /\ UNCHANGED <<passkey, uses, authentication, answer, admitted, opened, overlapped>>

\* deleteMine, adminDelete
Delete(k) ==
    /\ Exists(k)
    /\ passkey' = [passkey EXCEPT ![k] = Deleted]
    /\ UNCHANGED <<uses, authentication, registration, answer, admitted, call, opened, overlapped>>

-----------------------------------------------------------------------------
(* Login.                                                                  *)

StartAuthentication ==
    /\ \E x \in Unissued : authentication' = authentication \cup {x}
    /\ UNCHANGED <<passkey, uses, registration, answer, admitted, call, opened, overlapped>>

\* verifyAuthentication up to the comparison: a missing passkey, an inactive
\* user and a policy against passkeys are refused.
VerifyAuthentication(c, x) ==
    /\ call[c] = None
    /\ x \in authentication /\ answer[x] # None
    /\ Exists(answer[x].key) /\ admitted
    /\ Begin(c, x, answer[x].key, "verifying", passkey[answer[x].key])
    /\ UNCHANGED <<passkey, uses, authentication, registration, answer, admitted, opened>>

\* The rule of verifyAuthenticationResponse on the counter.
Rises(count, counter) == count > counter \/ (count = 0 /\ counter = 0)

\* A response that is refused leaves the challenge; an update by the id of a
\* passkey that was deleted meanwhile fails.
UpdatePasskey(c) ==
    /\ At(c, "verifying")
    /\ LET k == call[c].key
           count == answer[call[c].challenge].count
       IN IF Rises(count, call[c].counter) /\ Exists(k)
          THEN /\ passkey' = [passkey EXCEPT ![k] = count]
               /\ call' = [d \in Calls |->
                    IF d = c THEN [call[d] EXCEPT !.step = "updated"]
                    ELSE IF At(d, "verifying") /\ call[d].key = k
                         THEN [call[d] EXCEPT !.stale = TRUE]
                         ELSE call[d]]
          ELSE Return(c) /\ UNCHANGED passkey
    /\ UNCHANGED <<uses, authentication, registration, answer, admitted, opened, overlapped>>

\* The challenge is deleted, and the access token given.
Grant(c) ==
    /\ At(c, "updated")
    /\ authentication' = authentication \ {call[c].challenge}
    /\ opened' = [opened EXCEPT ![call[c].challenge] = @ + 1]
    /\ Return(c)
    /\ UNCHANGED <<passkey, uses, registration, answer, admitted, overlapped>>

-----------------------------------------------------------------------------
(* The environment.                                                        *)

\* stdTTL: five minutes.
ExpireChallenge ==
    /\ \/ \E x \in authentication : authentication' = authentication \ {x} /\ UNCHANGED registration
       \/ registration # None /\ registration' = None /\ UNCHANGED authentication
    /\ UNCHANGED <<passkey, uses, answer, admitted, call, opened, overlapped>>

\* The process starts again with an empty cache.
Restart ==
    /\ authentication' = {} /\ registration' = None
    /\ call' = [c \in Calls |-> None]
    /\ UNCHANGED <<passkey, uses, answer, admitted, opened, overlapped>>

\* The user, the memberships or the policy change.
Admit ==
    /\ admitted' = ~admitted
    /\ UNCHANGED <<passkey, uses, authentication, registration, answer, call, opened, overlapped>>

PasskeyNext ==
    \/ \E c \in Calls :
         \/ VerifyRegistration(c) \/ CreatePasskey(c) \/ EndRegistration(c)
         \/ UpdatePasskey(c) \/ Grant(c)
         \/ \E x \in Challenges : VerifyAuthentication(c, x)
    \/ \E x \in Challenges, k \in Keys : Sign(x, k)
    \/ \E k \in Keys : Delete(k)
    \/ StartRegistration \/ StartAuthentication
    \/ ExpireChallenge \/ Restart \/ Admit

PasskeySpec == PasskeyInit /\ [][PasskeyNext]_passkeyVars

-----------------------------------------------------------------------------
(* Properties.                                                             *)

\* Types of the state of PasskeysService.
PasskeyTypeOK ==
    /\ \A k \in Keys : passkey[k] \in {None, Deleted} \/ Exists(k)
    /\ uses \in [Keys -> 0 .. MaxUses]
    /\ authentication \subseteq Challenges /\ registration \in Challenges \cup {None}
    /\ answer \in [Challenges -> Answer \cup {None}]
    /\ call \in [Calls -> Call \cup {None}]
    /\ overlapped \subseteq Challenges

\* One signature opens one login, and one registration adds one passkey,
\* unless two verifications of its challenge run at the same time: both read
\* the challenge before either deletes it.
ChallengeOpensOnce ==
    \A x \in Challenges : opened[x] > 1 => x \in overlapped

\* The counter of a passkey only falls when a login had read it before another
\* one wrote it; otherwise a login whose counter does not rise is refused.
CounterRises ==
    [][\A k \in Keys : Exists(k) /\ passkey'[k] # passkey[k] =>
         \/ passkey'[k] = Deleted
         \/ passkey'[k] > passkey[k]
         \/ \E c \in Calls : At(c, "verifying") /\ call[c].key = k /\ call[c].stale]_passkeyVars
=============================================================================
