----------------------------- MODULE MCAccess -------------------------------
(***************************************************************************)
(* Small instances of the modules about how a user gets in, with a         *)
(* password, a passkey and by single sign-on, and of the pictures a user   *)
(* keeps.  They touch different rows (how the refresh sessions they open   *)
(* end is in Sessions), so one behaviour follows one of them, its focus,   *)
(* and the others stand still.                                             *)
(***************************************************************************)
EXTENDS TLC

CONSTANTS Calls, None, LockAfter, MaxFailures, MaxChanges,
          Orgs, Roles, Platform, Tokens, Entries, MaxMoves,
          Keys, Challenges, MaxUses, Oidc, Saml, Users, States, Tickets,
          Objects

VARIABLES
    focus,
    active, lock, login, tries, loginChanges,
    account, allowed, session, entry, moves,
    passkey, uses, authentication, registration, answer, admitted, ceremony,
    verified, overlapped,
    provider, user, membership, identity, state, ticket, signOn, signOnChanges,
    exchanged,
    avatar, stored, fresh, upload, backup, lost, leaked

loginVars == <<active, lock, login, tries, loginChanges>>
contextVars == <<account, allowed, session, entry, moves>>
passkeyVars == <<passkey, uses, authentication, registration, answer, admitted,
                 ceremony, verified, overlapped>>
signOnVars == <<provider, user, membership, identity, state, ticket, signOn,
                signOnChanges, exchanged>>
mediaVars == <<avatar, stored, fresh, upload, backup, lost, leaked>>
allVars == <<focus, loginVars, contextVars, passkeyVars, signOnVars, mediaVars>>

Login == INSTANCE PasswordLogin WITH call <- login, changes <- loginChanges
Context == INSTANCE LoginContext WITH Calls <- Entries, MaxChanges <- MaxMoves, call <- entry, changes <- moves
Passkey == INSTANCE Passkeys WITH call <- ceremony, opened <- verified
Sso == INSTANCE SignOn WITH call <- signOn, changes <- signOnChanges, opened <- exchanged
Media == INSTANCE ProfileMedia WITH call <- upload

ASSUME AccessAssumption ==
    /\ Login!PasswordLoginAssumption /\ Context!ContextAssumption /\ Passkey!PasskeysAssumption
    /\ Sso!SignOnAssumption /\ Media!MediaAssumption

\* What is not in focus starts in one of its initial states only.
MCInit ==
    /\ focus \in {"login", "contexts", "passkeys", "sign-on", "media"}
    /\ Login!LoginInit
    /\ Context!ContextInit
    /\ focus # "contexts" => ~account.admin /\ account.roles = {}
    /\ Passkey!PasskeyInit /\ (focus # "passkeys" => \A k \in Keys : passkey[k] = None)
    /\ Sso!SignOnInit
    /\ focus # "sign-on" => /\ \A p \in Oidc \cup Saml : provider[p].autoProvision
                            /\ \A u \in Users : user[u] = None
    /\ Media!MediaInit

MCNext ==
    /\ UNCHANGED focus
    /\ \/ /\ focus = "login" /\ Login!LoginNext
          /\ UNCHANGED <<contextVars, passkeyVars, signOnVars, mediaVars>>
       \/ /\ focus = "contexts" /\ Context!ContextNext
          /\ UNCHANGED <<loginVars, passkeyVars, signOnVars, mediaVars>>
       \/ /\ focus = "passkeys" /\ Passkey!PasskeyNext
          /\ UNCHANGED <<loginVars, contextVars, signOnVars, mediaVars>>
       \/ /\ focus = "sign-on" /\ Sso!SignOnNext
          /\ UNCHANGED <<loginVars, contextVars, passkeyVars, mediaVars>>
       \/ /\ focus = "media" /\ Media!MediaNext
          /\ UNCHANGED <<loginVars, contextVars, passkeyVars, signOnVars>>

MCSpec == MCInit /\ [][MCNext]_allVars

MCSymmetry == Permutations(Calls) \cup Permutations(Orgs) \cup Permutations(Roles)

\* PasswordLogin and LoginContext: wrong passwords are counted one by one, but for
\* the races named there, and a refresh keeps a session in its context.
LoginsAreKept ==
    /\ focus = "login" => Login!LoginTypeOK /\ Login!FailuresAreCounted
    /\ focus = "contexts" => Context!ContextTypeOK /\ Context!RefreshStays

\* Passkeys and SignOn: a challenge is answered once, a state gives one ticket and
\* a ticket opens one session, unless the calls that use it overlap in the
\* ways named there.
EachOpensOnce ==
    /\ focus = "passkeys" => Passkey!PasskeyTypeOK /\ Passkey!ChallengeOpensOnce
    /\ focus = "sign-on" => Sso!SignOnTypeOK /\ Sso!StateGivesOneTicket /\ Sso!TicketOpensOnce

\* ProfileMedia: the object a row names is there, what is left over is known,
\* and a backup that passes its restore test is complete, outside the races
\* and failures named there.
MediaIsKept ==
    focus = "media" => /\ Media!MediaTypeOK /\ Media!NamedIsStored
                       /\ Media!OnlyLeaks /\ Media!RestoredIsComplete

\* PasswordLogin, LoginContext and Passkeys: an account is let out of its lock only
\* by what may do so, a session opens in a context the user held while its
\* rows were read, unless two of them changed around their reads, and the
\* counter of a passkey only rises, unless one of two logins had read it
\* before the other wrote it.
LoginsAreGuarded == Login!LockHolds /\ Context!EntersHeldContext /\ Passkey!CounterRises

\* SignOn: a sign-on never gives back a membership that was taken away, and
\* a provider is deleted with no identity but one linked meanwhile.
SignOnRespectsAccess == Sso!SignOnNeverReadmits /\ Sso!DeletionKeepsIdentities
=============================================================================
