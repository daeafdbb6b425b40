------------------------------ MODULE Sessions ------------------------------
(***************************************************************************)
(* The refresh sessions of one user (RefreshTokenService), and the calls   *)
(* that open and end them: login and single sign-on exchange, refresh and  *)
(* tenant switch, logout of one, of the others, of all, change and reset   *)
(* of the password.                                                        *)
(*                                                                         *)
(* Every await of a call is a place where other calls run, and where the   *)
(* process may stop.  An UPDATE of all sessions of a user takes two        *)
(* actions: PostgreSQL updates the rows its snapshot shows, and a row that *)
(* a concurrent transaction inserts meanwhile is not among them.           *)
(*                                                                         *)
(* Tokens are the sessions they belong to.  The reasons LOGOUT,            *)
(* LOGOUT_OTHER_SESSIONS, SESSION_REVOKED, REUSE_DETECTED and those of a   *)
(* new password are not told apart by the code: REVOKED.  The tenant a     *)
(* token carries and the failed-login counter are left out; a user who is  *)
(* inactive is refused, as if the call had not been made or had stopped.   *)
(***************************************************************************)
EXTENDS Integers, FiniteSets

CONSTANTS
    Sessions,     \* refresh_sessions ids
    Calls,        \* calls of the API under way at the same time
    None,
    MaxPasswords  \* BOUND: changes of the password

ASSUME SessionsAssumption == MaxPasswords \in Nat /\ None \notin Sessions

VARIABLES
    session,   \* refresh_sessions
    password,  \* users.passwordHash: the number of its changes
    call,      \* calls under way
    abandoned  \* history: a change of the password stopped before it revoked

vars == <<session, password, call, abandoned>>

Passwords == 0 .. MaxPasswords
Reasons == {"ROTATED", "EXPIRED", "REVOKED"}
PasswordSteps == {"changing", "changed", "ending", "resetting"}

\* end: "" while revokedAt is null.  login, password and late are history: the
\* first session of the chain, the password its login was given, and whether
\* the session was opened across the revocation that follows a new password.
SessionRow == [end : Reasons \cup {""}, expired : BOOLEAN, login : Sessions,
               password : Passwords, late : BOOLEAN]

\* late: a revocation that follows a new password finished during the call.
Call == [step : {"login", "checked", "rotating", "revoking"} \cup PasswordSteps,
         session : Sessions \cup {None},  \* whose token a refresh has presented
         password : Passwords,            \* the password a login has compared
         seen : SUBSET Sessions,          \* the snapshot of an UPDATE
         late : BOOLEAN]

\* None stands for the row or the call that is not there.
ASSUME NoneIsNoRow == None \notin SessionRow \cup Call

Exists(s) == session[s] # None
Live(s) == Exists(s) /\ session[s].end = "" /\ ~session[s].expired
At(c, step) == call[c] # None /\ call[c].step = step
Idle(c) == call[c] = None

\* Type correctness; the session at the head of a chain stays on record, and
\* so do those a call works on.
TypeOK ==
    /\ session \in [Sessions -> SessionRow \cup {None}]
    /\ password \in Passwords
    /\ call \in [Calls -> Call \cup {None}]
    /\ abandoned \in BOOLEAN
    /\ \A s \in Sessions : Exists(s) => Exists(session[s].login)
    /\ \A c \in Calls : ~Idle(c) => \A s \in Sessions : s = call[c].session \/ s \in call[c].seen => Exists(s)

Init ==
    /\ session = [s \in Sessions |-> None]
    /\ password = 0
    /\ call = [c \in Calls |-> None]
    /\ abandoned = FALSE

NewCall(step) == [step |-> step, session |-> None, password |-> 0, seen |-> {},
                  late |-> FALSE]

Opened(login, pw, late) ==
    [end |-> "", expired |-> FALSE, login |-> login, password |-> pw, late |-> late]

\* Is a password's revocation at work next to c?
Revoking(c) == \E d \in Calls \ {c} : At(d, "ending") \/ At(d, "resetting")

\* The calls once c returns from the revocation of a new password.
AllLate(c) == [d \in Calls |-> IF d = c \/ Idle(d) THEN None ELSE [call[d] EXCEPT !.late = TRUE]]

-----------------------------------------------------------------------------
(* Opening.                                                                *)

\* login() reads the user and compares the password it is given; the exchange
\* of a single sign-on ticket compares nothing.
LoginBegin(c) ==
    /\ Idle(c)
    /\ call' = [call EXCEPT ![c] = [NewCall("login") EXCEPT !.password = password]]
    /\ UNCHANGED <<session, password, abandoned>>

\* createSession, several awaits later.
LoginEnd(c) ==
    /\ At(c, "login")
    /\ \E s \in Sessions :
         /\ ~Exists(s)
         /\ session' = [session EXCEPT ![s] = Opened(s, call[c].password, call[c].late \/ Revoking(c))]
    /\ call' = [call EXCEPT ![c] = None]
    /\ UNCHANGED <<password, abandoned>>

-----------------------------------------------------------------------------
(* Refresh and tenant switch.                                              *)

\* The snapshot of an UPDATE that ends the sessions in S.
Revoke(c, S, step) ==
    call' = [call EXCEPT ![c] = [NewCall(step) EXCEPT !.seen = {s \in S : Live(s)}]]

\* getActiveSession: a rotated token ends every session, any other ended one
\* is only refused.
Present(c, s) ==
    /\ Idle(c) /\ Exists(s)
    /\ \/ session[s].end = "ROTATED" /\ Revoke(c, Sessions, "revoking")
       \/ Live(s) /\ call' = [call EXCEPT ![c] = [NewCall("checked") EXCEPT !.session = s]]
    /\ UNCHANGED <<session, password, abandoned>>

\* rotateRefreshToken reads the session again: ended for any reason is a reuse.
RotateRead(c) ==
    /\ At(c, "checked")
    /\ LET s == call[c].session
       IN \/ /\ session[s].end # ""
             /\ Revoke(c, Sessions, "revoking")
             /\ UNCHANGED session
          \/ /\ session[s].end = "" /\ session[s].expired
             /\ session' = [session EXCEPT ![s].end = "EXPIRED"]
             /\ call' = [call EXCEPT ![c] = None]
          \/ /\ Live(s)
             /\ call' = [call EXCEPT ![c].step = "rotating"]
             /\ UNCHANGED session
    /\ UNCHANGED <<password, abandoned>>

\* MUTANT of MayRotate: the update of the old session goes by its id only.
MayRotate_ById(s) == {TRUE}

\* Is the conditional update of the old session going to find it?  Its `now`
\* lies between the read and the write.
MayRotate(s) ==
    IF session[s].end # "" THEN {FALSE} ELSE IF session[s].expired THEN BOOLEAN ELSE {TRUE}

RotateWrite(c) ==
    /\ At(c, "rotating")
    /\ LET s == call[c].session
       IN \/ /\ TRUE \in MayRotate(s)
             /\ \E t \in Sessions :
                  /\ ~Exists(t)
                  /\ session' = [session EXCEPT
                       ![s].end = "ROTATED",
                       ![t] = Opened(session[s].login, session[s].password,
                                     session[s].late \/ call[c].late \/ Revoking(c))]
          \/ FALSE \in MayRotate(s) /\ UNCHANGED session
    /\ call' = [call EXCEPT ![c] = None]
    /\ UNCHANGED <<password, abandoned>>

-----------------------------------------------------------------------------
(* Ending.                                                                 *)

\* MUTANT of Logout: revokedAt is not looked at.
Logout_AnyEnd(s) ==
    /\ Exists(s)
    /\ session' = [session EXCEPT ![s].end = "REVOKED"]
    /\ UNCHANGED <<password, call, abandoned>>

\* logout: revokeByToken.
Logout(s) ==
    /\ Exists(s) /\ session[s].end = ""
    /\ session' = [session EXCEPT ![s].end = "REVOKED"]
    /\ UNCHANGED <<password, call, abandoned>>

\* revokeUserSession, from the list of sessions: also of one that has ended
\* since, which keeps its reason.
RevokeUserSession(s) ==
    /\ Exists(s)
    /\ session' = [session EXCEPT ![s].end = IF @ = "" THEN "REVOKED" ELSE @]
    /\ UNCHANGED <<password, call, abandoned>>

RevokeAllExcept(c, kept) ==
    /\ Idle(c)
    /\ Revoke(c, Sessions \ kept, "revoking")
    /\ UNCHANGED <<session, password, abandoned>>

LogoutAll(c) == RevokeAllExcept(c, {})

\* logoutOtherSessions keeps the session of its token; without one, none.
LogoutOtherSessions(c, s) == RevokeAllExcept(c, {s})

Ended(c) ==
    [s \in Sessions |->
       IF s \in call[c].seen /\ session[s].end = ""
       THEN [session[s] EXCEPT !.end = "REVOKED"] ELSE session[s]]

\* The UPDATE commits.
RevokeEnd(c) ==
    /\ At(c, "revoking") \/ At(c, "ending")
    /\ session' = Ended(c)
    /\ call' = IF At(c, "ending") THEN AllLate(c) ELSE [call EXCEPT ![c] = None]
    /\ UNCHANGED <<password, abandoned>>

-----------------------------------------------------------------------------
(* A new password.                                                         *)

\* changePassword reads the user and compares the current password ...
ChangeBegin(c) ==
    /\ Idle(c)
    /\ call' = [call EXCEPT ![c] = NewCall("changing")]
    /\ UNCHANGED <<session, password, abandoned>>

\* MUTANT of ChangeWrite: the sessions are left to expire.
ChangeWrite_Only(c) ==
    /\ At(c, "changing") /\ password < MaxPasswords
    /\ password' = password + 1
    /\ call' = [call EXCEPT ![c] = None]
    /\ UNCHANGED <<session, abandoned>>

\* ... writes the new one, unless an uncommitted reset holds the row ...
ChangeWrite(c) ==
    /\ At(c, "changing") /\ password < MaxPasswords
    /\ ~\E d \in Calls : At(d, "resetting")
    /\ password' = password + 1
    /\ call' = [call EXCEPT ![c].step = "changed"]
    /\ UNCHANGED <<session, abandoned>>

\* ... and then revokes, in a statement of its own.
ChangeRevoke(c) ==
    /\ At(c, "changed")
    /\ Revoke(c, Sessions, "ending")
    /\ UNCHANGED <<session, password, abandoned>>

\* resetPassword, by an administrator: both updates in one transaction, and
\* expired sessions too.
ResetBegin(c) ==
    /\ Idle(c)
    /\ ~\E d \in Calls : At(d, "resetting")
    /\ call' = [call EXCEPT ![c] = [NewCall("resetting") EXCEPT
                  !.seen = {s \in Sessions : Exists(s) /\ session[s].end = ""}]]
    /\ UNCHANGED <<session, password, abandoned>>

ResetCommit(c) ==
    /\ At(c, "resetting") /\ password < MaxPasswords
    /\ session' = Ended(c)
    /\ password' = password + 1
    /\ call' = AllLate(c)
    /\ UNCHANGED abandoned

-----------------------------------------------------------------------------
(* The environment.                                                        *)

\* The process stops, or a statement fails.
Die(c) ==
    /\ ~Idle(c)
    /\ call' = [call EXCEPT ![c] = None]
    /\ abandoned' = (abandoned \/ At(c, "changed") \/ At(c, "ending"))
    /\ UNCHANGED <<session, password>>

\* expiresAt passes.
Expire(s) ==
    /\ Live(s)
    /\ session' = [session EXCEPT ![s].expired = TRUE]
    /\ UNCHANGED <<password, call, abandoned>>

Next ==
    \/ \E c \in Calls :
         \/ LoginBegin(c) \/ LoginEnd(c)
         \/ RotateRead(c) \/ RotateWrite(c)
         \/ RevokeEnd(c)
         \/ ChangeBegin(c) \/ ChangeWrite(c) \/ ChangeRevoke(c)
         \/ ResetBegin(c) \/ ResetCommit(c)
         \/ Die(c)
         \/ LogoutAll(c)
         \/ \E s \in Sessions : Present(c, s) \/ LogoutOtherSessions(c, s)
    \/ \E s \in Sessions : Logout(s) \/ RevokeUserSession(s) \/ Expire(s)

Spec == Init /\ [][Next]_vars

-----------------------------------------------------------------------------
(* Properties.                                                             *)

\* However many tabs refresh with one token, a login has one live session: a
\* token is rotated at most once.
OneLivePerLogin ==
    \A s, t \in Sessions : Live(s) /\ Live(t) /\ session[s].login = session[t].login => s = t

\* How a session ended is never rewritten, whatever revokes it again: a later
\* refresh with its token is told apart by the reason ROTATED.
EndedIsFinal ==
    [][\A s \in Sessions : Exists(s) /\ session[s].end # "" =>
         Exists(s)' /\ session'[s].end = session[s].end]_vars

\* A session opened with a former password is live only while the change that
\* replaced it is still to revoke, after such a change stopped half way, or if
\* the session was opened by a call that ran across the revocation.
FormerPasswordEnds ==
    \A s \in Sessions : Live(s) /\ session[s].password < password =>
        \/ session[s].late
        \/ abandoned
        \/ \E c \in Calls : At(c, "changed") \/ At(c, "ending")
=============================================================================
