--------------------------- MODULE SessionsProofs ---------------------------
(***************************************************************************)
(* Theorems about the refresh sessions of one user, for any numbers of     *)
(* sessions, of calls under way and of passwords.                          *)
(***************************************************************************)
EXTENDS Sessions, TLAPS

\* The calls that refresh have the session whose token they were given.
RefreshesKnow == \A c \in Calls : At(c, "checked") \/ At(c, "rotating") => call[c].session \in Sessions

Open(s) == Exists(s) /\ session[s].end = ""

\* OneLivePerLogin speaks of live sessions; a rotation under way may still
\* succeed with one that expires meanwhile, so the induction needs all open ones.
OneOpenPerLogin ==
    \A s, t \in Sessions : Open(s) /\ Open(t) /\ session[s].login = session[t].login => s = t

ChainInv == TypeOK /\ RefreshesKnow /\ OneOpenPerLogin

-----------------------------------------------------------------------------
(* Types.                                                                  *)

\* The steps of calls.
Steps == {"login", "checked", "rotating", "revoking"} \cup PasswordSteps

\* A new call is a call.
LEMMA NewCallType ==
    ASSUME NEW step \in Steps
    PROVE  /\ NewCall(step) \in Call /\ DOMAIN NewCall(step) = {"step", "session", "password", "seen", "late"}
           /\ NewCall(step).step = step /\ NewCall(step).session = None
           /\ NewCall(step).password = 0 /\ NewCall(step).seen = {}
<1>1. 0 \in Passwords
  BY SessionsAssumption DEF Passwords
<1> QED
  BY <1>1 DEF NewCall, Call, Steps

\* So it is with its session ...
LEMMA SessionCall ==
    ASSUME NEW step \in Steps, NEW s \in Sessions
    PROVE  LET k == [NewCall(step) EXCEPT !.session = s]
           IN  k \in Call /\ k.step = step /\ k.session = s /\ k.seen = {}
<1> DEFINE n == NewCall(step)
<1>1. n \in Call /\ n.step = step /\ n.seen = {}
  BY NewCallType
<1> HIDE DEF n
<1> QED
  BY <1>1 DEF Call, n

\* ... with the password it compares ...
LEMMA PasswordCall ==
    ASSUME NEW step \in Steps, NEW pw \in Passwords
    PROVE  LET k == [NewCall(step) EXCEPT !.password = pw]
           IN  k \in Call /\ k.step = step /\ k.session = None /\ k.seen = {} /\ k.password = pw
<1> DEFINE n == NewCall(step)
<1>1. n \in Call /\ n.step = step /\ n.session = None /\ n.seen = {}
  BY NewCallType
<1> HIDE DEF n
<1> QED
  BY <1>1 DEF Call, n

\* ... or with its snapshot.
LEMMA SeenCall ==
    ASSUME NEW step \in Steps, NEW seen \in SUBSET Sessions
    PROVE  LET k == [NewCall(step) EXCEPT !.seen = seen]
           IN  k \in Call /\ k.step = step /\ k.session = None /\ k.seen = seen
<1> DEFINE n == NewCall(step)
<1>1. n \in Call /\ n.step = step /\ n.session = None
  BY NewCallType
<1> HIDE DEF n
<1> QED
  BY <1>1 DEF Call, n

\* A call that changes its step, or becomes late, is a call.
LEMMA CallType ==
    ASSUME NEW k \in Call, NEW step \in {"rotating", "changed"}
    PROVE  [k EXCEPT !.step = step] \in Call /\ [k EXCEPT !.late = TRUE] \in Call
  BY DEF Call, PasswordSteps

\* A row that ends, or expires, is a row that keeps the rest.
LEMMA EndType ==
    ASSUME NEW r \in SessionRow, NEW end \in Reasons, NEW q, q = [r EXCEPT !.end = end]
    PROVE  /\ q \in SessionRow /\ q # None /\ q.end = end /\ q.login = r.login
           /\ q.password = r.password /\ q.late = r.late
<1>1. q \in SessionRow
  BY DEF SessionRow, Reasons
<1> QED
  BY <1>1, NoneIsNoRow DEF SessionRow

\* Expiry is the same.
LEMMA ExpireType ==
    ASSUME NEW r \in SessionRow, NEW q, q = [r EXCEPT !.expired = TRUE]
    PROVE  /\ q \in SessionRow /\ q # None /\ q.end = r.end /\ q.login = r.login
           /\ q.password = r.password /\ q.late = r.late /\ q.expired
<1>1. q \in SessionRow
  BY DEF SessionRow, Reasons
<1> QED
  BY <1>1, NoneIsNoRow DEF SessionRow

\* A new row is a row.
LEMMA OpenedType ==
    ASSUME NEW s \in Sessions, NEW pw \in Passwords, NEW late \in BOOLEAN
    PROVE  Opened(s, pw, late) \in SessionRow
  BY DEF Opened, SessionRow, Reasons

\* What every step does to the rows: none is removed, and the session at the
\* head of a chain is on record.
RowsKept ==
    /\ session' \in [Sessions -> SessionRow \cup {None}]
    /\ \A s \in Sessions : Exists(s) => session'[s] # None
    /\ \A s \in Sessions : session'[s] # None => session'[session'[s].login] # None

\* What every step does to a call: it goes on with what it had, or works on
\* sessions that are on record.
GoesOn(c, k) == ~Idle(c) /\ k.step = call[c].step /\ k.session = call[c].session /\ k.seen = call[c].seen
WorksOn(k) ==
    /\ \A s \in Sessions : s = k.session \/ s \in k.seen => Exists(s)
    /\ k.step \in {"checked", "rotating"} => k.session \in Sessions

CallsKept ==
    /\ call' \in [Calls -> Call \cup {None}]
    /\ \A c \in Calls : call'[c] # None => GoesOn(c, call'[c]) \/ WorksOn(call'[c])

Kept == RowsKept /\ CallsKept /\ password' \in Passwords /\ abandoned' \in BOOLEAN

\* Such a step keeps the types.
LEMMA KeptIsTyped ==
    ASSUME TypeOK, RefreshesKnow, Kept
    PROVE  TypeOK' /\ RefreshesKnow'
<1>1. TypeOK'
  BY DEF TypeOK, Kept, RowsKept, CallsKept, GoesOn, WorksOn, Exists, Idle
<1>2. RefreshesKnow'
  BY DEF RefreshesKnow, Kept, CallsKept, GoesOn, WorksOn, At, Idle
<1> QED
  BY <1>1, <1>2

\* Rows that stay.
LEMMA SameRows == ASSUME TypeOK, UNCHANGED session PROVE RowsKept
  BY DEF TypeOK, RowsKept, Exists

\* One row changes or is opened.
LEMMA OneRow ==
    ASSUME TypeOK, NEW s \in Sessions, NEW r \in SessionRow, r.login = s \/ Exists(r.login),
           session' = [session EXCEPT ![s] = r]
    PROVE  RowsKept
<1>1. r # None /\ r.login \in Sessions
  BY NoneIsNoRow DEF SessionRow
<1> QED
  BY <1>1 DEF TypeOK, RowsKept, Exists, SessionRow

\* One row changes and another is opened (rotateRefreshToken).
LEMMA TwoRows ==
    ASSUME TypeOK, NEW s \in Sessions, NEW t \in Sessions, Exists(s),
           session'[s] \in SessionRow, session'[s].login = session[s].login,
           session'[t] \in SessionRow, session'[t].login = session[s].login,
           \A u \in Sessions \ {s, t} : session'[u] = session[u],
           session' \in [Sessions -> SessionRow \cup {None}]
    PROVE  RowsKept
<1>1. session'[s] # None /\ session'[t] # None
  BY NoneIsNoRow
<1>2. session[s].login \in Sessions /\ Exists(session[s].login)
  BY DEF TypeOK, Exists, SessionRow
<1>3. session' \in [Sessions -> SessionRow \cup {None}]
  OBVIOUS
<1>4. \A u \in Sessions \ {s, t} : session'[u] = session[u]
  OBVIOUS
<1>5. \A u \in Sessions : Exists(u) => session'[u] # None
  BY <1>1, <1>4 DEF Exists
<1>6. ASSUME NEW u \in Sessions, session'[u] # None PROVE session'[session'[u].login] # None
  <2>1. CASE u \in {s, t}
    BY <1>2, <1>4, <1>5, <2>1
  <2>2. CASE u \notin {s, t}
    <3>1. session'[u] = session[u] /\ Exists(u)
      BY <1>4, <1>6, <2>2 DEF Exists
    <3>2. session[u].login \in Sessions /\ Exists(session[u].login)
      BY <3>1 DEF TypeOK, Exists, SessionRow
    <3> QED
      BY <1>5, <3>1, <3>2
  <2> QED
    BY <2>1, <2>2
<1> QED
  BY <1>3, <1>5, <1>6 DEF RowsKept

\* The rows of an UPDATE.
LEMMA EndedRows ==
    ASSUME TypeOK, NEW c \in Calls, call[c] # None, session' = Ended(c)
    PROVE  /\ RowsKept
           /\ \A s \in Sessions :
                \/ session'[s] = session[s] /\ ~(s \in call[c].seen /\ Open(s))
                \/ /\ s \in call[c].seen /\ Open(s)
                   /\ session'[s] = [session[s] EXCEPT !.end = "REVOKED"]
<1>1. ASSUME NEW s \in Sessions, s \in call[c].seen
      PROVE  Exists(s) /\ session[s] \in SessionRow
  BY <1>1 DEF TypeOK, Exists, Idle
<1>2. ASSUME NEW s \in Sessions
      PROVE  \/ session'[s] = session[s] /\ ~(s \in call[c].seen /\ Open(s))
             \/ /\ s \in call[c].seen /\ Open(s)
                /\ session'[s] = [session[s] EXCEPT !.end = "REVOKED"]
  BY <1>1, <1>2 DEF Ended, Open
<1>3. ASSUME NEW s \in Sessions
      PROVE  /\ session'[s] \in SessionRow \cup {None}
             /\ Exists(s) <=> session'[s] # None
             /\ Exists(s) => session'[s].login = session[s].login
  <2>1. CASE session'[s] = session[s]
    BY <2>1 DEF TypeOK, Exists
  <2>2. CASE Open(s) /\ s \in call[c].seen /\ session'[s] = [session[s] EXCEPT !.end = "REVOKED"]
    <3>1. session'[s] \in SessionRow
      BY <1>1, <2>2, EndType DEF Reasons
    <3>2. session'[s].login = session[s].login
      BY <1>1, <2>2 DEF SessionRow
    <3> QED
      BY <1>1, <2>2, <3>1, <3>2, NoneIsNoRow
  <2> QED
    BY <1>2, <2>1, <2>2
<1>4. session' \in [Sessions -> SessionRow \cup {None}]
  BY <1>3 DEF Ended
<1>5. RowsKept
  <2> SUFFICES ASSUME NEW s \in Sessions, Exists(s) PROVE session'[session'[s].login] # None
    BY <1>3, <1>4 DEF RowsKept
  <2>1. session[s].login \in Sessions /\ Exists(session[s].login)
    BY DEF TypeOK, SessionRow, Exists
  <2> QED
    BY <1>3, <2>1
<1> QED
  BY <1>2, <1>5

\* The calls after one begins, goes on to something new, or ends.
LEMMA OneCall ==
    ASSUME TypeOK, NEW c \in Calls, NEW k \in Call, WorksOn(k), call' = [call EXCEPT ![c] = k]
    PROVE  CallsKept
  BY DEF TypeOK, CallsKept, GoesOn, Idle

\* A call that ends ...
LEMMA CallEnds ==
    ASSUME TypeOK, NEW c \in Calls, call' = [call EXCEPT ![c] = None]
    PROVE  CallsKept
  BY DEF TypeOK, CallsKept, GoesOn, Idle

\* ... or is not touched.
LEMMA SameCalls == ASSUME TypeOK, UNCHANGED call PROVE CallsKept
  BY DEF TypeOK, CallsKept, GoesOn, Idle

\* The calls after the revocation of a new password.
LEMMA LateCalls ==
    ASSUME TypeOK, NEW c \in Calls, call' = AllLate(c)
    PROVE  /\ CallsKept
           /\ \A d \in Calls : call'[d] # None =>
                /\ d # c /\ GoesOn(d, call'[d]) /\ call'[d].late
                /\ call'[d].password = call[d].password
<1>1. ASSUME NEW d \in Calls, d # c, ~Idle(d)
      PROVE  /\ call[d] \in Call /\ call'[d] = [call[d] EXCEPT !.late = TRUE]
             /\ call'[d] \in Call
  BY <1>1, CallType DEF AllLate, TypeOK, Idle
<1>2. ASSUME NEW d \in Calls, d = c \/ Idle(d) PROVE call'[d] = None
  BY <1>2 DEF AllLate
<1>3. ASSUME NEW d \in Calls, call'[d] # None
      PROVE  d # c /\ GoesOn(d, call'[d]) /\ call'[d].late /\ call'[d].password = call[d].password
  BY <1>1, <1>2, <1>3 DEF GoesOn, Call
<1>4. call' \in [Calls -> Call \cup {None}]
  BY <1>1, <1>2 DEF AllLate
<1> QED
  BY <1>3, <1>4 DEF CallsKept

\* A call that ends sessions: its snapshot is of sessions on record.
LEMMA RevokeKept ==
    ASSUME TypeOK, NEW c \in Calls, NEW S \in SUBSET Sessions,
           NEW step \in {"revoking", "ending"}, Revoke(c, S, step)
    PROVE  CallsKept
<1> DEFINE seen == {s \in S : Live(s)}
           k == [NewCall(step) EXCEPT !.seen = seen]
<1>1. k \in Call /\ k.session = None /\ k.seen = seen /\ k.step = step
  BY SeenCall DEF Steps, PasswordSteps
<1>3. WorksOn(k)
  BY <1>1, SessionsAssumption DEF WorksOn, Live
<1>4. call' = [call EXCEPT ![c] = k]
  BY DEF Revoke
<1> HIDE DEF k
<1> QED
  BY <1>1, <1>3, <1>4, OneCall

\* Every step keeps the rows and the calls typed.
LEMMA TypeStep ==
    ASSUME TypeOK, RefreshesKnow, [Next]_vars
    PROVE  TypeOK' /\ RefreshesKnow'
<1> USE SessionsAssumption DEF Kept
<1>1. SUFFICES Kept
  BY KeptIsTyped
<1>2. /\ password \in Passwords /\ 0 \in Passwords /\ abandoned \in BOOLEAN
      /\ password < MaxPasswords => password + 1 \in Passwords
  BY DEF TypeOK, Passwords
<1>3. \A s \in Sessions : Exists(s) => session[s] \in SessionRow /\ session[s].login \in Sessions
                                      /\ Exists(session[s].login)
  BY DEF TypeOK, Exists, SessionRow
<1>4. \A c \in Calls : ~Idle(c) => /\ call[c] \in Call
                                  /\ \A s \in Sessions : s = call[c].session \/ s \in call[c].seen => Exists(s)
  BY DEF TypeOK, Idle
<1>5. ASSUME NEW c \in Calls, call' = [call EXCEPT ![c] = [NewCall("login") EXCEPT !.password = password]]
      PROVE  CallsKept
  <2> DEFINE k == [NewCall("login") EXCEPT !.password = password]
  <2>1. k \in Call /\ k.session = None /\ k.seen = {} /\ k.step = "login"
    BY <1>2, PasswordCall DEF Steps, PasswordSteps
  <2> HIDE DEF k
  <2> QED
    BY <1>5, <2>1, OneCall DEF k, WorksOn
<1>6. CASE UNCHANGED vars
  BY <1>2, <1>6, SameRows, SameCalls DEF vars
<1>7. ASSUME NEW c \in Calls, LoginBegin(c) PROVE Kept
  BY <1>2, <1>5, <1>7, SameRows DEF LoginBegin
<1>8. ASSUME NEW c \in Calls, LoginEnd(c) PROVE Kept
  <2>1. PICK s \in Sessions :
          session' = [session EXCEPT ![s] = Opened(s, call[c].password, call[c].late \/ Revoking(c))]
    BY <1>8 DEF LoginEnd
  <2> DEFINE r == Opened(s, call[c].password, call[c].late \/ Revoking(c))
  <2>2. r \in SessionRow /\ r.login = s
    BY <1>4, <1>8, OpenedType DEF LoginEnd, At, Idle, Call, Opened, Revoking
  <2>3. RowsKept
    <3> HIDE DEF r
    <3> QED BY <2>1, <2>2, OneRow DEF r
  <2> QED
    BY <1>2, <1>8, <2>3, CallEnds DEF LoginEnd
<1>9. ASSUME NEW c \in Calls, NEW s \in Sessions, Present(c, s) PROVE Kept
  <2>1. CASE Revoke(c, Sessions, "revoking")
    BY <1>2, <1>9, <2>1, RevokeKept, SameRows DEF Present
  <2>2. CASE call' = [call EXCEPT ![c] = [NewCall("checked") EXCEPT !.session = s]]
    <3> DEFINE k == [NewCall("checked") EXCEPT !.session = s]
    <3>1. k \in Call /\ k.session = s /\ k.seen = {}
      BY SessionCall DEF Steps
    <3>2. WorksOn(k)
      BY <1>9, <3>1 DEF WorksOn, Present
    <3> HIDE DEF k
    <3>3. CallsKept
      BY <2>2, <3>1, <3>2, OneCall DEF k
    <3> QED
      BY <1>2, <1>9, <3>3, SameRows DEF Present
  <2> QED
    BY <1>9, <2>1, <2>2 DEF Present
<1>10. ASSUME NEW c \in Calls, RotateRead(c) PROVE Kept
  <2> DEFINE s == call[c].session
  <2>1. s \in Sessions /\ Exists(s) /\ call[c] \in Call
    BY <1>4, <1>10 DEF RotateRead, RefreshesKnow, At, Idle
  <2>2. CASE Revoke(c, Sessions, "revoking") /\ UNCHANGED session
    BY <1>2, <1>10, <2>2, RevokeKept, SameRows DEF RotateRead
  <2>3. CASE session' = [session EXCEPT ![s].end = "EXPIRED"] /\ call' = [call EXCEPT ![c] = None]
    <3> DEFINE r == [session[s] EXCEPT !.end = "EXPIRED"]
    <3>1. r \in SessionRow /\ r.login = session[s].login
      BY <1>3, <2>1, EndType DEF Reasons
    <3>2. session' = [session EXCEPT ![s] = r]
      BY <2>3
    <3> HIDE DEF r
    <3>3. RowsKept
      BY <1>3, <2>1, <3>1, <3>2, OneRow
    <3> QED
      BY <1>2, <1>10, <2>3, <3>3, CallEnds DEF RotateRead
  <2>4. CASE call' = [call EXCEPT ![c].step = "rotating"] /\ UNCHANGED session
    <3> DEFINE k == [call[c] EXCEPT !.step = "rotating"]
    <3>1. k \in Call /\ k.session = s /\ k.seen = call[c].seen
      BY <2>1, CallType DEF Call
    <3>2. WorksOn(k)
      BY <1>4, <1>10, <2>1, <3>1 DEF WorksOn, RotateRead, At, Idle
    <3>3. call' = [call EXCEPT ![c] = k]
      BY <2>4
    <3> HIDE DEF k
    <3>4. CallsKept
      BY <3>1, <3>2, <3>3, OneCall
    <3> QED
      BY <1>2, <1>10, <2>4, <3>4, SameRows DEF RotateRead
  <2> QED
    BY <1>10, <2>2, <2>3, <2>4 DEF RotateRead
<1>11. ASSUME NEW c \in Calls, RotateWrite(c) PROVE Kept
  <2>0. PICK s \in Sessions : s = call[c].session
    BY <1>11 DEF RotateWrite, RefreshesKnow
  <2>1. s \in Sessions /\ Exists(s) /\ session[s] \in SessionRow /\ call[c] \in Call
    BY <1>3, <1>4, <1>11, <2>0 DEF RotateWrite, At, Idle
  <2>2. ASSUME NEW t \in Sessions, ~Exists(t),
               session' = [session EXCEPT
                  ![s].end = "ROTATED",
                  ![t] = Opened(session[s].login, session[s].password,
                                session[s].late \/ call[c].late \/ Revoking(c))]
        PROVE  RowsKept
    <3> DEFINE q == [session[s] EXCEPT !.end = "ROTATED"]
               r == Opened(session[s].login, session[s].password,
                           session[s].late \/ call[c].late \/ Revoking(c))
    <3>1. q \in SessionRow /\ q.login = session[s].login
      BY <2>1, EndType DEF Reasons, SessionRow
    <3>2. r \in SessionRow /\ r.login = session[s].login
      BY <2>1, OpenedType DEF Opened, SessionRow, Call
    <3>3. session' = [session EXCEPT ![s] = q, ![t] = r] /\ s # t
      BY <2>1, <2>2
    <3> HIDE DEF q, r
    <3>4. session' \in [Sessions -> SessionRow \cup {None}]
      BY <3>1, <3>2, <3>3 DEF TypeOK
    <3>5. /\ session'[s] = q /\ session'[t] = r
          /\ \A u \in Sessions \ {s, t} : session'[u] = session[u]
      BY <3>3 DEF TypeOK
    <3> QED
      BY <2>1, <3>1, <3>2, <3>4, <3>5, TwoRows
  <2>3. RowsKept
    BY <1>11, <2>0, <2>2, SameRows DEF RotateWrite
  <2> QED
    BY <1>2, <1>11, <2>3, CallEnds DEF RotateWrite
<1>12. ASSUME NEW s \in Sessions, Exists(s),
              \/ session' = session
              \/ session' = [session EXCEPT ![s].end = "REVOKED"]
              \/ session' = [session EXCEPT ![s].expired = TRUE],
              UNCHANGED <<password, call, abandoned>>
       PROVE  Kept
  <2>1. ASSUME NEW r \in SessionRow, r.login = session[s].login, session' = [session EXCEPT ![s] = r]
        PROVE  RowsKept
    BY <1>3, <1>12, <2>1, OneRow
  <2>2. /\ [session[s] EXCEPT !.end = "REVOKED"] \in SessionRow
        /\ [session[s] EXCEPT !.expired = TRUE] \in SessionRow
        /\ [session[s] EXCEPT !.end = "REVOKED"].login = session[s].login
        /\ [session[s] EXCEPT !.expired = TRUE].login = session[s].login
    BY <1>3, <1>12, EndType, ExpireType DEF Reasons
  <2>3. RowsKept
    BY <1>12, <2>1, <2>2, SameRows
  <2> QED
    BY <1>2, <1>12, <2>3, SameCalls
<1>13. ASSUME NEW s \in Sessions, Logout(s) PROVE Kept
  BY <1>12, <1>13 DEF Logout
<1>14. ASSUME NEW s \in Sessions, RevokeUserSession(s) PROVE Kept
  <2>1. CASE session[s].end = ""
    BY <1>12, <1>14, <2>1 DEF RevokeUserSession
  <2>2. CASE session[s].end # ""
    <3>1. [session[s] EXCEPT !.end = session[s].end] = session[s]
      BY <1>3, <1>14 DEF RevokeUserSession, SessionRow
    <3>2. session' = session
      BY <1>14, <2>2, <3>1 DEF RevokeUserSession, TypeOK
    <3> QED
      BY <1>12, <1>14, <3>2 DEF RevokeUserSession
  <2> QED
    BY <2>1, <2>2
<1>15. ASSUME NEW s \in Sessions, Expire(s) PROVE Kept
  BY <1>12, <1>15 DEF Expire, Live
<1>16. ASSUME NEW c \in Calls, LogoutAll(c) PROVE Kept
  BY <1>2, <1>16, RevokeKept, SameRows DEF LogoutAll, RevokeAllExcept
<1>17. ASSUME NEW c \in Calls, NEW s \in Sessions, LogoutOtherSessions(c, s) PROVE Kept
  BY <1>2, <1>17, RevokeKept, SameRows DEF LogoutOtherSessions, RevokeAllExcept
<1>18. ASSUME NEW c \in Calls, RevokeEnd(c) PROVE Kept
  <2>1. call[c] # None /\ RowsKept
    BY <1>18, EndedRows DEF RevokeEnd, At
  <2>2. CallsKept
    BY <1>18, LateCalls, CallEnds DEF RevokeEnd
  <2> QED
    BY <1>2, <1>18, <2>1, <2>2 DEF RevokeEnd
<1>19. ASSUME NEW c \in Calls, ChangeBegin(c) PROVE Kept
  <2> DEFINE k == NewCall("changing")
  <2>1. k \in Call /\ k.session = None /\ k.seen = {} /\ k.step = "changing"
    BY NewCallType DEF Steps, PasswordSteps
  <2>2. call' = [call EXCEPT ![c] = k]
    BY <1>19 DEF ChangeBegin
  <2> HIDE DEF k
  <2>3. CallsKept
    BY <2>1, <2>2, OneCall DEF WorksOn
  <2> QED
    BY <1>2, <1>19, <2>3, SameRows DEF ChangeBegin
<1>20. ASSUME NEW c \in Calls, ChangeWrite(c) PROVE Kept
  <2> DEFINE k == [call[c] EXCEPT !.step = "changed"]
  <2>1. call[c] \in Call /\ \A s \in Sessions : s = call[c].session \/ s \in call[c].seen => Exists(s)
    BY <1>4, <1>20 DEF ChangeWrite, At, Idle
  <2>2. k \in Call /\ k.session = call[c].session /\ k.seen = call[c].seen /\ k.step = "changed"
    BY <2>1, CallType DEF Call
  <2>3. WorksOn(k)
    BY <2>1, <2>2 DEF WorksOn
  <2>4. call' = [call EXCEPT ![c] = k]
    BY <1>20 DEF ChangeWrite
  <2> HIDE DEF k
  <2>5. CallsKept
    BY <2>2, <2>3, <2>4, OneCall
  <2> QED
    BY <1>2, <1>20, <2>5, SameRows DEF ChangeWrite
<1>21. ASSUME NEW c \in Calls, ChangeRevoke(c) PROVE Kept
  BY <1>2, <1>21, RevokeKept, SameRows DEF ChangeRevoke
<1>22. ASSUME NEW c \in Calls, ResetBegin(c) PROVE Kept
  <2> DEFINE seen == {s \in Sessions : Exists(s) /\ session[s].end = ""}
             k == [NewCall("resetting") EXCEPT !.seen = seen]
  <2>1. k \in Call /\ k.session = None /\ k.seen = seen /\ k.step = "resetting"
    <3>1. seen \in SUBSET Sessions
      OBVIOUS
    <3> HIDE DEF seen
    <3> QED
      BY <3>1, SeenCall DEF Steps, PasswordSteps
  <2>2. WorksOn(k)
    BY <2>1 DEF WorksOn
  <2>3. call' = [call EXCEPT ![c] = k]
    BY <1>22 DEF ResetBegin
  <2> HIDE DEF k
  <2>4. CallsKept
    BY <2>1, <2>2, <2>3, OneCall
  <2> QED
    BY <1>2, <1>22, <2>4, SameRows DEF ResetBegin
<1>23. ASSUME NEW c \in Calls, ResetCommit(c) PROVE Kept
  BY <1>2, <1>23, EndedRows, LateCalls DEF ResetCommit, At
<1>24. ASSUME NEW c \in Calls, Die(c) PROVE Kept
  BY <1>2, <1>24, CallEnds, SameRows DEF Die
<1> QED
  BY <1>6, <1>7, <1>8, <1>9, <1>10, <1>11, <1>13, <1>14, <1>15, <1>16, <1>17, <1>18, <1>19, <1>20,
     <1>21, <1>22, <1>23, <1>24 DEF Next

-----------------------------------------------------------------------------
(* Chains of sessions.                                                     *)

\* What a step does to a row that is there: it ends at most once, and keeps what
\* it was opened with.
Stays(s) ==
    Exists(s) =>
      /\ session'[s] # None
      /\ session'[s].login = session[s].login
      /\ session'[s].password = session[s].password
      /\ session'[s].late = session[s].late
      /\ session'[s].end = session[s].end \/ session[s].end = ""
      /\ session[s].expired => session'[s].expired

New(t) == ~Exists(t) /\ session'[t] # None

\* A row is opened by a login, or in place of one that was open and now ends.
\* No step opens two.
Succeeds(t) ==
    \/ session'[t].login = t
    \/ \E s \in Sessions : /\ Open(s) /\ session'[t].login = session[s].login
                           /\ session'[s].end # ""

ChainStep ==
    /\ \A s \in Sessions : Stays(s)
    /\ \A t \in Sessions : New(t) => Succeeds(t)
    /\ \A t, u \in Sessions : New(t) /\ New(u) => t = u

\* Rows that stay keep the chains ...
LEMMA SameChain == ASSUME UNCHANGED session PROVE ChainStep
  BY DEF ChainStep, Stays, New, Exists

\* ... and so do rows that an UPDATE ends.
LEMMA EndedChain ==
    ASSUME TypeOK, NEW c \in Calls, call[c] # None, session' = Ended(c)
    PROVE  ChainStep
<1>1. \A s \in Sessions : Exists(s) => session[s] \in SessionRow
  BY DEF TypeOK, Exists
<1>2. ASSUME NEW s \in Sessions PROVE Stays(s) /\ ~New(s)
  <2>1. CASE session'[s] = session[s]
    BY <2>1 DEF Stays, New, Exists
  <2>2. CASE Open(s) /\ session'[s] = [session[s] EXCEPT !.end = "REVOKED"]
    <3>1. session[s] \in SessionRow /\ "REVOKED" \in Reasons
      BY <1>1, <2>2 DEF Open, Reasons
    <3>2. /\ session'[s].login = session[s].login /\ session'[s].password = session[s].password
          /\ session'[s].late = session[s].late
          /\ session[s].expired => session'[s].expired
      BY <2>2, <3>1 DEF SessionRow
    <3>3. session'[s] # None
      BY <2>2, <3>1, NoneIsNoRow DEF SessionRow, Reasons
    <3> QED
      BY <2>2, <3>2, <3>3 DEF Stays, New, Open
  <2> QED
    BY <2>1, <2>2, EndedRows
<1> QED
  BY <1>2 DEF ChainStep

\* One row ends, or expires.
LEMMA OneChain ==
    ASSUME TypeOK, NEW s \in Sessions, Exists(s),
           \/ session' = [session EXCEPT ![s].expired = TRUE]
           \/ session[s].end = "" /\ \E end \in Reasons : session' = [session EXCEPT ![s].end = end]
    PROVE  ChainStep
<1>1. session[s] \in SessionRow
  BY DEF TypeOK, Exists
<1>2. Stays(s)
  <2>1. CASE session' = [session EXCEPT ![s].expired = TRUE]
    <3>1. session'[s] = [session[s] EXCEPT !.expired = TRUE]
      BY <2>1 DEF TypeOK
    <3> QED
      BY <1>1, <3>1, ExpireType DEF Stays
  <2>2. ASSUME session[s].end = "", NEW end \in Reasons, session' = [session EXCEPT ![s].end = end]
        PROVE  Stays(s)
    <3>1. session'[s] = [session[s] EXCEPT !.end = end]
      BY <2>2 DEF TypeOK
    <3>2. /\ session'[s] # None /\ session'[s].login = session[s].login
          /\ session'[s].password = session[s].password /\ session'[s].late = session[s].late
      BY <1>1, <3>1, NoneIsNoRow DEF SessionRow, Reasons
    <3>3. session[s].expired => session'[s].expired
      BY <1>1, <3>1 DEF SessionRow
    <3> QED
      BY <2>2, <3>2, <3>3 DEF Stays
  <2> QED
    BY <2>1, <2>2
<1>3. \A u \in Sessions \ {s} : session'[u] = session[u]
  BY DEF TypeOK
<1> QED
  BY <1>2, <1>3 DEF ChainStep, Stays, New, Exists

\* Every step keeps the chains.
LEMMA ChainKept ==
    ASSUME TypeOK, RefreshesKnow, [Next]_vars
    PROVE  ChainStep
<1>1. CASE UNCHANGED session
  BY <1>1, SameChain
<1>2. ASSUME NEW c \in Calls, LoginEnd(c) PROVE ChainStep
  <2>1. PICK s \in Sessions : ~Exists(s) /\
          session' = [session EXCEPT ![s] = Opened(s, call[c].password, call[c].late \/ Revoking(c))]
    BY <1>2 DEF LoginEnd
  <2>2. session'[s].login = s /\ \A u \in Sessions \ {s} : session'[u] = session[u]
    BY <2>1 DEF TypeOK, Opened
  <2> QED
    BY <2>1, <2>2 DEF ChainStep, Stays, New, Succeeds, Exists
<1>3. ASSUME NEW c \in Calls, RotateRead(c) PROVE ChainStep
  <2>1. PICK s \in Sessions : s = call[c].session
    BY <1>3 DEF RotateRead, RefreshesKnow
  <2>2. Exists(s)
    BY <1>3, <2>1 DEF RotateRead, TypeOK, At, Idle
  <2> QED
    BY <1>1, <1>3, <2>1, <2>2, OneChain DEF RotateRead, Reasons
<1>4. ASSUME NEW c \in Calls, RotateWrite(c) PROVE ChainStep
  <2>1. PICK s \in Sessions : s = call[c].session
    BY <1>4 DEF RotateWrite, RefreshesKnow
  <2>2. Exists(s) /\ session[s] \in SessionRow
    BY <1>4, <2>1 DEF RotateWrite, TypeOK, At, Idle, Exists
  <2>3. CASE UNCHANGED session
    BY <2>3, SameChain
  <2>4. ASSUME NEW t \in Sessions, ~Exists(t), TRUE \in MayRotate(s),
               session' = [session EXCEPT
                  ![s].end = "ROTATED",
                  ![t] = Opened(session[s].login, session[s].password,
                                session[s].late \/ call[c].late \/ Revoking(c))]
        PROVE  ChainStep
    <3>1. session[s].end = ""
      BY <2>4 DEF MayRotate
    <3>2. /\ s # t /\ session'[s] = [session[s] EXCEPT !.end = "ROTATED"]
          /\ session'[t].login = session[s].login
          /\ \A u \in Sessions \ {s, t} : session'[u] = session[u]
      BY <2>2, <2>4 DEF TypeOK, Opened
    <3>3. "ROTATED" \in Reasons
      BY DEF Reasons
    <3>4. Stays(s) /\ session'[s].end # ""
      <4>1. /\ session'[s].login = session[s].login /\ session'[s].password = session[s].password
            /\ session'[s].late = session[s].late /\ session'[s].end = "ROTATED"
            /\ session[s].expired => session'[s].expired
        BY <2>2, <3>2 DEF SessionRow
      <4>2. session'[s] # None
        BY <2>2, <3>2, <3>3, NoneIsNoRow DEF SessionRow, Reasons
      <4> QED
        BY <3>1, <4>1, <4>2 DEF Stays
    <3>5. Succeeds(t)
      BY <2>2, <3>1, <3>2, <3>4 DEF Succeeds, Open
    <3>6. \A u \in Sessions \ {s, t} : Stays(u) /\ ~New(u)
      BY <3>2 DEF Stays, New, Exists
    <3>7. Stays(t) /\ ~New(s)
      BY <2>2, <2>4 DEF Stays, New
    <3> QED
      BY <3>4, <3>5, <3>6, <3>7 DEF ChainStep
  <2> QED
    BY <1>4, <2>1, <2>3, <2>4 DEF RotateWrite
<1>5. ASSUME NEW s \in Sessions, Logout(s) PROVE ChainStep
  BY <1>5, OneChain DEF Logout, Reasons
<1>6. ASSUME NEW s \in Sessions, RevokeUserSession(s) PROVE ChainStep
  <2>1. CASE session[s].end = ""
    BY <1>6, <2>1, OneChain DEF RevokeUserSession, Reasons
  <2>2. CASE session[s].end # ""
    <3>1. session[s] \in SessionRow
      BY <1>6 DEF RevokeUserSession, TypeOK, Exists
    <3>2. [session[s] EXCEPT !.end = session[s].end] = session[s]
      BY <3>1 DEF SessionRow
    <3>3. session' = session
      BY <1>6, <2>2, <3>2 DEF RevokeUserSession, TypeOK
    <3> QED
      BY <3>3, SameChain
  <2> QED
    BY <2>1, <2>2
<1>7. ASSUME NEW s \in Sessions, Expire(s) PROVE ChainStep
  BY <1>7, OneChain DEF Expire, Live
<1>8. ASSUME NEW c \in Calls, RevokeEnd(c) \/ ResetCommit(c) PROVE ChainStep
  BY <1>8, EndedChain DEF RevokeEnd, ResetCommit, At
<1> QED
  BY <1>1, <1>2, <1>3, <1>4, <1>5, <1>6, <1>7, <1>8
     DEF Next, vars, LoginBegin, Present, LogoutAll, LogoutOtherSessions, RevokeAllExcept,
         ChangeBegin, ChangeWrite, ChangeRevoke, ResetBegin, Die

\* The invariant of the chains is inductive ...
LEMMA ChainInvKept ==
    ASSUME ChainInv, [Next]_vars
    PROVE  ChainInv'
<1>1. TypeOK' /\ RefreshesKnow'
  BY TypeStep DEF ChainInv
<1>2. ChainStep
  BY ChainKept DEF ChainInv
<1>3. ASSUME NEW s \in Sessions, Open(s)', ~New(s) PROVE Open(s) /\ session'[s].login = session[s].login
  BY <1>2, <1>3 DEF ChainStep, Stays, New, Open, Exists
<1>4. ASSUME NEW t \in Sessions, NEW u \in Sessions, Open(t)', Open(u)', New(t), ~New(u)
      PROVE  session'[t].login # session'[u].login
  <2>1. Open(u) /\ session'[u].login = session[u].login
    BY <1>3, <1>4
  <2>2. CASE session'[t].login = t
    <3>1. Exists(session[u].login)
      BY <2>1 DEF ChainInv, TypeOK, Open
    <3> QED
      BY <1>4, <2>1, <2>2, <3>1 DEF New
  <2>3. ASSUME NEW s \in Sessions, Open(s), session'[t].login = session[s].login, session'[s].end # ""
        PROVE  session'[t].login # session'[u].login
    BY <1>4, <2>1, <2>3 DEF ChainInv, OneOpenPerLogin, Open
  <2> QED
    BY <1>2, <1>4, <2>2, <2>3 DEF ChainStep, Succeeds
<1>5. OneOpenPerLogin'
  <2> SUFFICES ASSUME NEW s \in Sessions, NEW t \in Sessions, Open(s)', Open(t)',
                      session'[s].login = session'[t].login
               PROVE  s = t
    BY DEF OneOpenPerLogin
  <2>1. CASE New(s) /\ New(t)
    BY <1>2, <2>1 DEF ChainStep
  <2>2. CASE ~New(s) /\ ~New(t)
    <3>1. Open(s) /\ Open(t) /\ session[s].login = session[t].login
      BY <1>3, <2>2
    <3> QED
      BY <3>1 DEF ChainInv, OneOpenPerLogin
  <2>3. CASE New(s) /\ ~New(t)
    BY <1>4, <2>3
  <2>4. CASE New(t) /\ ~New(s)
    BY <1>4, <2>4
  <2> QED
    BY <2>1, <2>2, <2>3, <2>4
<1> QED
  BY <1>1, <1>5 DEF ChainInv

\* ... and holds at first.
LEMMA InitChain == Init => ChainInv
<1> SUFFICES ASSUME Init PROVE ChainInv
  OBVIOUS
<1>1. TypeOK
  <2>1. 0 \in Passwords
    BY SessionsAssumption DEF Passwords
  <2>2. \A s \in Sessions : ~Exists(s)
    BY DEF Init, Exists
  <2>3. \A c \in Calls : Idle(c)
    BY DEF Init, Idle
  <2>4. session \in [Sessions -> SessionRow \cup {None}] /\ call \in [Calls -> Call \cup {None}]
    BY DEF Init
  <2> QED
    BY <2>1, <2>2, <2>3, <2>4 DEF Init, TypeOK
<1> QED
  BY <1>1 DEF Init, ChainInv, RefreshesKnow, OneOpenPerLogin, Open, At, Exists

\* Types, with the heads of chains on record (Sessions).
THEOREM TypeCorrect == Spec => []TypeOK
<1>1. ChainInv => TypeOK
  BY DEF ChainInv
<1> QED
  BY <1>1, InitChain, ChainInvKept, PTL DEF Spec

\* However many calls refresh with one token, a login has one live session
\* (RefreshTokenService.rotateRefreshToken).
THEOREM OneLive == Spec => []OneLivePerLogin
<1>1. ChainInv => OneLivePerLogin
  BY DEF ChainInv, OneOpenPerLogin, OneLivePerLogin, Live, Open
<1> QED
  BY <1>1, InitChain, ChainInvKept, PTL DEF Spec

\* How a session ended is never rewritten (revokedReason).
THEOREM EndsOnce == Spec => EndedIsFinal
<1>1. ASSUME ChainInv, [Next]_vars
      PROVE  [\A s \in Sessions : Exists(s) /\ session[s].end # "" =>
                Exists(s)' /\ session'[s].end = session[s].end]_vars
  BY <1>1, ChainKept DEF ChainInv, ChainStep, Stays, Exists
<1> QED
  BY <1>1, InitChain, ChainInvKept, PTL DEF Spec, EndedIsFinal

-----------------------------------------------------------------------------
(* Sessions of former passwords.                                           *)

\* A change of the password is between its writes, or stopped there.
Unfinished == abandoned \/ \E d \in Calls : At(d, "changed") \/ At(d, "ending")

\* A revocation that follows a new password sees every live session but those
\* that are opened while it runs, which are marked late.
NoneEscapes ==
    \A d \in Calls, s \in Sessions : (At(d, "ending") \/ At(d, "resetting")) /\ Live(s) =>
        s \in call[d].seen \/ session[s].late

\* A login that compared a former password opens a late session, and so does a
\* rotation that has read a session of one.
OldLoginsAreLate ==
    \A c \in Calls : At(c, "login") /\ call[c].password < password => call[c].late \/ Unfinished

OldRotationsAreLate ==
    \A c \in Calls, s \in Sessions :
        At(c, "rotating") /\ s = call[c].session /\ Open(s) /\ session[s].password < password =>
            session[s].late \/ call[c].late \/ Unfinished

\* FormerPasswordEnds follows a session only as far as it is on record; what the
\* calls under way will open makes it inductive.
FormerInv == ChainInv /\ FormerPasswordEnds /\ NoneEscapes /\ OldLoginsAreLate /\ OldRotationsAreLate

\* The rows after a step that opens none: what is live was, with the same
\* password, and is no less late.
LEMMA LiveBefore ==
    ASSUME ChainStep, NEW s \in Sessions, ~New(s)
    PROVE  /\ Live(s)' => Live(s)
           /\ Open(s)' => Open(s)
           /\ Exists(s) => /\ session'[s].password = session[s].password
                           /\ session'[s].late = session[s].late
<1>1. Exists(s)' => Exists(s)
  BY DEF New, Exists
<1>2. Exists(s) => /\ session'[s].end = session[s].end \/ session[s].end = ""
                   /\ session[s].expired => session'[s].expired
                   /\ session'[s].password = session[s].password
                   /\ session'[s].late = session[s].late
  BY DEF ChainStep, Stays
<1> QED
  BY <1>1, <1>2 DEF Live, Open, Exists

\* What a call that a step begins, or takes on, has to answer for.
Answers(k) ==
    /\ k.step \in {"ending", "resetting"} => \A s \in Sessions : Live(s) => s \in k.seen
    /\ k.step = "login" => k.password = password
    /\ k.step = "rotating" => Live(k.session)

FormerParts == FormerPasswordEnds /\ NoneEscapes /\ OldLoginsAreLate /\ OldRotationsAreLate

\* A step that opens no row and leaves the password.
LEMMA NoneOpened ==
    ASSUME FormerInv, ChainStep, \A s \in Sessions : ~New(s), password' = password,
           Unfinished => Unfinished',
           \A d \in Calls : call'[d] # None => (~Idle(d) /\ call'[d] = call[d]) \/ Answers(call'[d])
    PROVE  FormerParts'
<1>1. FormerPasswordEnds'
  BY LiveBefore DEF FormerInv, FormerPasswordEnds, Unfinished, Live
<1>2. NoneEscapes'
  BY LiveBefore DEF FormerInv, NoneEscapes, At, Idle, Answers, Live
<1>3. OldLoginsAreLate'
  <2> SUFFICES ASSUME NEW c \in Calls, At(c, "login")', call'[c].password < password, ~Unfinished
               PROVE  call'[c].late
    BY DEF OldLoginsAreLate
  <2>1. password \in Int
    BY SessionsAssumption DEF FormerInv, ChainInv, TypeOK, Passwords
  <2>2. call'[c] = call[c] /\ At(c, "login")
    BY <2>1 DEF At, Idle, Answers
  <2> QED
    BY <2>2 DEF FormerInv, OldLoginsAreLate
<1>4. OldRotationsAreLate'
  <2> SUFFICES ASSUME NEW c \in Calls, NEW s \in Sessions, At(c, "rotating")', s = call'[c].session,
                      Open(s)', session'[s].password < password, ~Unfinished
               PROVE  session'[s].late \/ call'[c].late
    BY DEF OldRotationsAreLate
  <2>1. /\ Open(s) /\ session'[s].password = session[s].password
        /\ session'[s].late = session[s].late
    BY LiveBefore DEF Open
  <2>2. CASE ~Idle(c) /\ call'[c] = call[c]
    BY <2>1, <2>2 DEF FormerInv, OldRotationsAreLate, At, Idle
  <2>3. CASE Answers(call'[c])
    BY <2>1, <2>3 DEF FormerInv, FormerPasswordEnds, Answers, At, Unfinished
  <2> QED
    BY <2>2, <2>3 DEF At
<1> QED
  BY <1>1, <1>2, <1>3, <1>4 DEF FormerParts

\* A step of c that opens t: late next to a revocation, and late if it is opened
\* with a former password.
LEMMA OneOpened ==
    ASSUME FormerInv, ChainStep, NEW c \in Calls, At(c, "login") \/ At(c, "rotating"),
           call' = [call EXCEPT ![c] = None], UNCHANGED <<password, abandoned>>,
           NEW t \in Sessions, New(t),
           Revoking(c) => session'[t].late,
           session'[t].password < password => session'[t].late \/ Unfinished
    PROVE  FormerParts'
<1>1. \A s \in Sessions \ {t} : ~New(s)
  BY DEF ChainStep
<1>2. \A d \in Calls : call'[d] # None => ~Idle(d) /\ call'[d] = call[d] /\ d # c
  BY DEF FormerInv, ChainInv, TypeOK, Idle
<1>3. Unfinished' <=> Unfinished
  BY <1>2 DEF Unfinished, At, FormerInv, ChainInv, TypeOK
<1>4. FormerPasswordEnds'
  <2> SUFFICES ASSUME NEW s \in Sessions, Live(s)', session'[s].password < password, ~Unfinished
               PROVE  session'[s].late
    BY <1>3 DEF FormerPasswordEnds, Unfinished
  <2>1. CASE s = t
    BY <2>1
  <2>2. CASE s # t
    BY <1>1, <2>2, LiveBefore DEF FormerInv, FormerPasswordEnds, Unfinished, Live
  <2> QED
    BY <2>1, <2>2
<1>5. NoneEscapes'
  <2> SUFFICES ASSUME NEW d \in Calls, NEW s \in Sessions, Live(s)',
                      At(d, "ending")' \/ At(d, "resetting")'
               PROVE  s \in call'[d].seen \/ session'[s].late
    BY DEF NoneEscapes
  <2>1. (At(d, "ending") \/ At(d, "resetting")) /\ call'[d] = call[d] /\ d # c
    BY <1>2 DEF At
  <2>2. CASE s = t
    BY <2>1, <2>2 DEF Revoking
  <2>3. CASE s # t
    BY <1>1, <2>1, <2>3, LiveBefore DEF FormerInv, NoneEscapes, Live
  <2> QED
    BY <2>2, <2>3
<1>6. OldLoginsAreLate'
  BY <1>2, <1>3 DEF FormerInv, OldLoginsAreLate, At
<1>7. OldRotationsAreLate'
  <2> SUFFICES ASSUME NEW d \in Calls, NEW s \in Sessions, At(d, "rotating")', s = call'[d].session,
                      Open(s)', session'[s].password < password, ~Unfinished
               PROVE  session'[s].late \/ call'[d].late
    BY <1>3 DEF OldRotationsAreLate
  <2>1. At(d, "rotating") /\ call'[d] = call[d] /\ s = call[d].session
    BY <1>2 DEF At
  <2>2. Exists(s)
    BY <2>1 DEF FormerInv, ChainInv, TypeOK, At, Idle
  <2>3. s # t
    BY <2>2 DEF New
  <2> QED
    BY <1>1, <2>1, <2>2, <2>3, LiveBefore DEF FormerInv, OldRotationsAreLate
<1> QED
  BY <1>4, <1>5, <1>6, <1>7 DEF FormerParts

\* The end of a revocation that follows a new password: all that is live, and
\* every other call, is late.
LEMMA AllRevoked ==
    ASSUME FormerInv, NEW c \in Calls, At(c, "ending") \/ At(c, "resetting"),
           session' = Ended(c), call' = AllLate(c)
    PROVE  FormerParts'
<1>1. ASSUME NEW s \in Sessions, Live(s)' PROVE session'[s].late
  <2>1. session'[s] = session[s] /\ ~(s \in call[c].seen /\ Open(s))
    BY <1>1, EndedRows DEF FormerInv, ChainInv, TypeOK, At, Live, Open, Exists, SessionRow, Reasons
  <2> QED
    BY <1>1, <2>1 DEF FormerInv, NoneEscapes, Live, Open, Exists
<1>2. ASSUME NEW d \in Calls, call'[d] # None PROVE call'[d].late
  BY <1>2, LateCalls DEF FormerInv, ChainInv
<1> QED
  BY <1>1, <1>2 DEF FormerParts, FormerPasswordEnds, NoneEscapes, OldLoginsAreLate,
                    OldRotationsAreLate, At

\* The invariant of the former passwords is inductive.
LEMMA FormerKept ==
    ASSUME FormerInv, [Next]_vars
    PROVE  FormerInv'
<1>1. ChainInv' /\ ChainStep
  BY ChainInvKept, ChainKept DEF FormerInv, ChainInv
<1>2. SUFFICES FormerParts'
  BY <1>1 DEF FormerInv, FormerParts
<1> USE <1>1
<1>3. TypeOK /\ RefreshesKnow /\ call \in [Calls -> Call \cup {None}]
  BY DEF FormerInv, ChainInv, TypeOK
<1>4. UNCHANGED session => \A s \in Sessions : ~New(s)
  BY DEF New, Exists
<1>5. ASSUME NEW c \in Calls, NEW S \in SUBSET Sessions, Revoke(c, S, "revoking")
      PROVE  \A d \in Calls : call'[d] # None => (~Idle(d) /\ call'[d] = call[d]) \/ Answers(call'[d])
  <2>1. NewCall("revoking").step = "revoking" /\ "step" \in DOMAIN NewCall("revoking")
    BY NewCallType DEF Steps
  <2>2. call'[c].step = "revoking"
    BY <1>3, <1>5, <2>1 DEF Revoke
  <2>3. \A d \in Calls \ {c} : call'[d] = call[d]
    BY <1>3, <1>5 DEF Revoke
  <2> QED
    BY <2>2, <2>3 DEF Answers, Idle
<1>6. ASSUME NEW c \in Calls, NEW k, k = None \/ Answers(k), call' = [call EXCEPT ![c] = k]
      PROVE  \A d \in Calls : call'[d] # None => (~Idle(d) /\ call'[d] = call[d]) \/ Answers(call'[d])
  BY <1>3, <1>6 DEF Idle
\* A call that is not one of a new password does not matter to Unfinished.
<1>7. ASSUME NEW c \in Calls, ~At(c, "changed"), ~At(c, "ending"), abandoned' = abandoned,
             \A d \in Calls \ {c} : call'[d] = call[d]
      PROVE  Unfinished => Unfinished'
  BY <1>7 DEF Unfinished, At
<1>8. CASE UNCHANGED vars
  BY <1>4, <1>8, NoneOpened DEF vars, Unfinished, At, Idle
<1>9. ASSUME NEW c \in Calls, LoginBegin(c) PROVE FormerParts'
  <2> DEFINE k == [NewCall("login") EXCEPT !.password = password]
  <2>1. k.step = "login" /\ k.password = password
    BY <1>3, PasswordCall DEF Steps, TypeOK
  <2>2. Answers(k)
    BY <2>1 DEF Answers
  <2>3. call' = [call EXCEPT ![c] = k]
    BY <1>9 DEF LoginBegin
  <2> HIDE DEF k
  <2>4. \A d \in Calls : call'[d] # None => (~Idle(d) /\ call'[d] = call[d]) \/ Answers(call'[d])
    BY <1>6, <2>2, <2>3
  <2>5. Unfinished => Unfinished'
    BY <1>3, <1>7, <1>9, <2>3 DEF LoginBegin, At, Idle
  <2> QED
    BY <1>4, <1>9, <2>4, <2>5, NoneOpened DEF LoginBegin
\* Steps that leave the calls, or only end one that is not of a new password.
<1>10. ASSUME UNCHANGED <<password, abandoned>>, \A s \in Sessions : ~New(s),
              \/ UNCHANGED call
              \/ \E c \in Calls : ~At(c, "changed") /\ ~At(c, "ending") /\ call' = [call EXCEPT ![c] = None]
       PROVE  FormerParts'
  <2>1. \A d \in Calls : call'[d] # None => ~Idle(d) /\ call'[d] = call[d]
    BY <1>3, <1>10 DEF Idle
  <2>2. Unfinished => Unfinished'
    BY <1>3, <1>7, <1>10 DEF Unfinished, At
  <2> QED
    BY <1>10, <2>1, <2>2, NoneOpened
\* Steps that begin to end sessions, with no new password.
<1>11. ASSUME NEW c \in Calls, NEW S \in SUBSET Sessions, Revoke(c, S, "revoking"),
              Idle(c) \/ At(c, "checked"), UNCHANGED <<session, password, abandoned>>
       PROVE  FormerParts'
  <2>1. Unfinished => Unfinished'
    BY <1>3, <1>7, <1>11 DEF Revoke, At, Idle
  <2> QED
    BY <1>4, <1>5, <1>11, <2>1, NoneOpened
<1>12. ASSUME NEW c \in Calls, LoginEnd(c) PROVE FormerParts'
  <2>1. PICK t \in Sessions : ~Exists(t) /\
          session' = [session EXCEPT ![t] = Opened(t, call[c].password, call[c].late \/ Revoking(c))]
    BY <1>12 DEF LoginEnd
  <2>2. /\ session'[t] = Opened(t, call[c].password, call[c].late \/ Revoking(c))
        /\ session'[t].password = call[c].password
        /\ session'[t].late = (call[c].late \/ Revoking(c))
    BY <1>3, <2>1 DEF TypeOK, Opened
  <2>3. call[c].password \in Passwords /\ call[c].late \in BOOLEAN
    BY <1>3, <1>12 DEF LoginEnd, At, Call
  <2>4. New(t)
    BY <2>1, <2>2, <2>3, OpenedType, NoneIsNoRow DEF New, Revoking
  <2>5. session'[t].password < password => session'[t].late \/ Unfinished
    BY <1>12, <2>2 DEF FormerInv, OldLoginsAreLate, LoginEnd
  <2> QED
    BY <1>12, <2>2, <2>4, <2>5, OneOpened DEF LoginEnd
<1>13. ASSUME NEW c \in Calls, NEW s \in Sessions, Present(c, s) PROVE FormerParts'
  <2>1. CASE Revoke(c, Sessions, "revoking")
    BY <1>11, <1>13, <2>1 DEF Present
  <2>2. CASE call' = [call EXCEPT ![c] = [NewCall("checked") EXCEPT !.session = s]]
    <3> DEFINE k == [NewCall("checked") EXCEPT !.session = s]
    <3>0. k.step = "checked"
      BY SessionCall DEF Steps
    <3> HIDE DEF k
    <3>1. Answers(k)
      BY <3>0 DEF Answers
    <3>2. Unfinished => Unfinished'
      BY <1>3, <1>7, <1>13, <2>2 DEF Present, At, Idle
    <3> QED
      BY <1>4, <1>6, <1>13, <2>2, <3>1, <3>2, NoneOpened DEF Present, k
  <2> QED
    BY <1>13, <2>1, <2>2 DEF Present
<1>14. ASSUME NEW c \in Calls, RotateRead(c) PROVE FormerParts'
  <2>1. PICK s \in Sessions : s = call[c].session
    BY <1>3, <1>14 DEF RotateRead, RefreshesKnow
  <2>2. CASE Revoke(c, Sessions, "revoking") /\ UNCHANGED session
    BY <1>11, <1>14, <2>2 DEF RotateRead
  <2>3. CASE session' = [session EXCEPT ![s].end = "EXPIRED"] /\ call' = [call EXCEPT ![c] = None]
    <3>1. Exists(s)
      BY <1>3, <1>14, <2>1 DEF RotateRead, TypeOK, At, Idle
    <3>2. \A u \in Sessions : ~New(u)
      BY <1>3, <2>3, <3>1 DEF New, Exists, TypeOK
    <3> QED
      BY <1>10, <1>14, <2>3, <3>2 DEF RotateRead, At
  <2>4. CASE Live(s) /\ call' = [call EXCEPT ![c].step = "rotating"] /\ UNCHANGED session
    <3> DEFINE k == [call[c] EXCEPT !.step = "rotating"]
    <3>1. call[c] \in Call
      BY <1>3, <1>14 DEF RotateRead, At
    <3>2. k.step = "rotating" /\ k.session = s
      BY <2>1, <3>1 DEF Call
    <3>3. call' = [call EXCEPT ![c] = k]
      BY <2>4
    <3> HIDE DEF k
    <3>4. Answers(k)
      BY <2>4, <3>2 DEF Answers
    <3>5. Unfinished => Unfinished'
      BY <1>3, <1>7, <1>14, <3>3 DEF RotateRead, At
    <3> QED
      BY <1>4, <1>6, <1>14, <2>4, <3>3, <3>4, <3>5, NoneOpened DEF RotateRead
  <2> QED
    BY <1>14, <2>1, <2>2, <2>3, <2>4 DEF RotateRead
<1>15. ASSUME NEW c \in Calls, RotateWrite(c) PROVE FormerParts'
  <2>1. PICK s \in Sessions : s = call[c].session
    BY <1>3, <1>15 DEF RotateWrite, RefreshesKnow
  <2>2. Exists(s) /\ session[s] \in SessionRow /\ call[c].late \in BOOLEAN
    BY <1>3, <1>15, <2>1 DEF RotateWrite, TypeOK, At, Idle, Exists, Call
  <2>3. CASE UNCHANGED session
    BY <1>4, <1>10, <1>15, <2>3 DEF RotateWrite, At
  <2>4. ASSUME NEW t \in Sessions, ~Exists(t), TRUE \in MayRotate(s),
               session' = [session EXCEPT
                  ![s].end = "ROTATED",
                  ![t] = Opened(session[s].login, session[s].password,
                                session[s].late \/ call[c].late \/ Revoking(c))]
        PROVE  FormerParts'
    <3> DEFINE r == Opened(session[s].login, session[s].password,
                           session[s].late \/ call[c].late \/ Revoking(c))
    <3>1. /\ r.password = session[s].password
          /\ r.late = (session[s].late \/ call[c].late \/ Revoking(c))
      BY DEF Opened
    <3>2. r \in SessionRow
      BY <2>2, OpenedType DEF SessionRow, Revoking
    <3>3. session'[t] = r
      BY <1>3, <2>2, <2>4 DEF TypeOK
    <3> HIDE DEF r
    <3>4. New(t)
      BY <2>4, <3>2, <3>3, NoneIsNoRow DEF New
    <3>5. session[s].end = ""
      BY <2>4 DEF MayRotate
    <3>6. session'[t].password < password => session'[t].late \/ Unfinished
      BY <1>15, <2>1, <2>2, <3>1, <3>3, <3>5 DEF FormerInv, OldRotationsAreLate, RotateWrite, Open
    <3>7. Revoking(c) => session'[t].late
      BY <3>1, <3>3
    <3> QED
      BY <1>15, <3>4, <3>6, <3>7, OneOpened DEF RotateWrite
  <2> QED
    BY <1>15, <2>1, <2>3, <2>4 DEF RotateWrite
<1>16. ASSUME NEW s \in Sessions, Logout(s) \/ RevokeUserSession(s) \/ Expire(s) PROVE FormerParts'
  <2>1. Exists(s) /\ UNCHANGED <<password, call, abandoned>>
    BY <1>16 DEF Logout, RevokeUserSession, Expire, Live
  <2>2. \A u \in Sessions \ {s} : session'[u] = session[u]
    BY <1>3, <1>16 DEF Logout, RevokeUserSession, Expire, TypeOK
  <2> QED
    BY <1>10, <2>1, <2>2 DEF New, Exists
<1>17. ASSUME NEW c \in Calls, LogoutAll(c) PROVE FormerParts'
  BY <1>11, <1>17 DEF LogoutAll, RevokeAllExcept
<1>18. ASSUME NEW c \in Calls, NEW s \in Sessions, LogoutOtherSessions(c, s) PROVE FormerParts'
  BY <1>11, <1>18 DEF LogoutOtherSessions, RevokeAllExcept
<1>19. ASSUME NEW c \in Calls, RevokeEnd(c) PROVE FormerParts'
  <2>1. CASE At(c, "ending")
    BY <1>19, <2>1, AllRevoked DEF RevokeEnd
  <2>2. CASE ~At(c, "ending")
    <3>1. At(c, "revoking")
      BY <1>19, <2>2 DEF RevokeEnd
    <3>2. \A s \in Sessions : ~New(s)
      BY <1>3, <1>19, <3>1, EndedRows DEF RevokeEnd, New, Open, Exists, At
    <3> QED
      BY <1>10, <1>19, <2>2, <3>1, <3>2 DEF RevokeEnd, At
  <2> QED
    BY <2>1, <2>2
<1>20. ASSUME NEW c \in Calls, ChangeBegin(c) PROVE FormerParts'
  <2> DEFINE k == NewCall("changing")
  <2>1. Answers(k)
    BY NewCallType DEF Steps, PasswordSteps, Answers
  <2> HIDE DEF k
  <2>2. Unfinished => Unfinished'
    BY <1>3, <1>7, <1>20 DEF ChangeBegin, At, Idle
  <2> QED
    BY <1>4, <1>6, <1>20, <2>1, <2>2, NoneOpened DEF ChangeBegin, k
\* Until the change revokes, every session is excused.
<1>21. ASSUME NEW c \in Calls, ChangeWrite(c) PROVE FormerParts'
  <2>1. call[c] \in Call /\ call'[c] = [call[c] EXCEPT !.step = "changed"]
    BY <1>3, <1>21 DEF ChangeWrite, At
  <2>a. call'[c] # None /\ call'[c].step = "changed"
    <3>1. call'[c].step = "changed"
      BY <2>1 DEF Call
    <3>2. call'[c] \in Call
      BY <2>1, CallType
    <3> QED
      BY <3>1, <3>2, NoneIsNoRow
  <2>2. /\ At(c, "changed")' /\ ~At(c, "ending")' /\ ~At(c, "resetting")'
        /\ \A d \in Calls \ {c} : call'[d] = call[d]
    BY <1>3, <1>21, <2>a DEF ChangeWrite, At
  <2>3. NoneEscapes'
    BY <1>21, <2>2 DEF FormerInv, NoneEscapes, ChangeWrite, At, Live, Exists
  <2> QED
    BY <2>2, <2>3 DEF FormerParts, FormerPasswordEnds, OldLoginsAreLate, OldRotationsAreLate, Unfinished
<1>22. ASSUME NEW c \in Calls, ChangeRevoke(c) PROVE FormerParts'
  <2> DEFINE seen == {s \in Sessions : Live(s)}
             k == [NewCall("ending") EXCEPT !.seen = seen]
  <2>1. k \in Call /\ k.step = "ending" /\ k.seen = seen
    <3>1. seen \in SUBSET Sessions
      OBVIOUS
    <3> HIDE DEF seen
    <3> QED
      BY <3>1, SeenCall DEF Steps, PasswordSteps
  <2>2. Answers(k)
    BY <2>1 DEF Answers
  <2>3. call' = [call EXCEPT ![c] = k]
    BY <1>22 DEF ChangeRevoke, Revoke
  <2> HIDE DEF k
  <2>4. At(c, "ending")'
    BY <1>3, <2>1, <2>3, NoneIsNoRow DEF At
  <2>5. Unfinished'
    BY <2>4 DEF Unfinished
  <2> QED
    BY <1>4, <1>6, <1>22, <2>2, <2>3, <2>5, NoneOpened DEF ChangeRevoke
<1>23. ASSUME NEW c \in Calls, ResetBegin(c) PROVE FormerParts'
  <2> DEFINE seen == {s \in Sessions : Exists(s) /\ session[s].end = ""}
             k == [NewCall("resetting") EXCEPT !.seen = seen]
  <2>1. k.step = "resetting" /\ k.seen = seen
    <3>1. seen \in SUBSET Sessions
      OBVIOUS
    <3> HIDE DEF seen
    <3> QED
      BY <3>1, SeenCall DEF Steps, PasswordSteps
  <2>2. Answers(k)
    BY <2>1 DEF Answers, Live
  <2>3. call' = [call EXCEPT ![c] = k]
    BY <1>23 DEF ResetBegin
  <2> HIDE DEF k
  <2>4. Unfinished => Unfinished'
    BY <1>3, <1>7, <1>23, <2>3 DEF ResetBegin, At, Idle
  <2> QED
    BY <1>4, <1>6, <1>23, <2>2, <2>3, <2>4, NoneOpened DEF ResetBegin
<1>24. ASSUME NEW c \in Calls, ResetCommit(c) PROVE FormerParts'
  BY <1>24, AllRevoked DEF ResetCommit
<1>25. ASSUME NEW c \in Calls, Die(c) PROVE FormerParts'
  <2>1. \A d \in Calls : call'[d] # None => ~Idle(d) /\ call'[d] = call[d]
    BY <1>3, <1>25 DEF Die, Idle
  <2>2. Unfinished => Unfinished'
    BY <1>3, <1>25 DEF Die, Unfinished, At
  <2> QED
    BY <1>4, <1>25, <2>1, <2>2, NoneOpened DEF Die
<1> QED
  BY <1>8, <1>9, <1>12, <1>13, <1>14, <1>15, <1>16, <1>17, <1>18, <1>19, <1>20, <1>21, <1>22,
     <1>23, <1>24, <1>25 DEF Next

\* A session of a former password is live only while the change is under way,
\* after one that stopped half way, or if its call ran across the revocation
\* (AccountSecurityService.changePassword, UsersService.resetPassword).
THEOREM FormerEnds == Spec => []FormerPasswordEnds
<1>1. Init => FormerInv
  BY InitChain DEF Init, FormerInv, FormerPasswordEnds, NoneEscapes, OldLoginsAreLate,
                   OldRotationsAreLate, At, Live, Exists
<1>2. FormerInv => FormerPasswordEnds
  BY DEF FormerInv
<1> QED
  BY <1>1, <1>2, FormerKept, PTL DEF Spec
=============================================================================
