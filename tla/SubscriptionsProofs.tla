------------------------ MODULE SubscriptionsProofs ------------------------
(***************************************************************************)
(* Theorems about subscriptions and the cached entitlement, for any        *)
(* organizations, plans, subscriptions and terms, and any numbers of       *)
(* administrators and of calls of resolve(); and about EffectiveQuota, for *)
(* any limits, plans and terms, and any number of changes and resolutions. *)
(***************************************************************************)
EXTENDS MCEntitlements, FiniteSetTheorems, TLAPS

\* A subscription that a request has read stays on record.
RequestsKnow ==
    \A a \in Admins : Asks(a, "transition") \/ Asks(a, "update") => Exists(request[a].sub)

\* A call of resolve() has the row of the subscription it has read.
ReadersKnow ==
    \A r \in Readers : reader[r] # None =>
        CASE reader[r].next = "subscription" -> reader[r].sub = None
          [] reader[r].next = "plan" -> reader[r].sub \in Subs /\ reader[r].row \in SubRow
          [] OTHER -> reader[r].sub \in Subs => reader[r].row \in SubRow

\* The partial unique index, row by row.
UniqueCurrent ==
    \A o \in Orgs : \A s, t \in CurrentOf(o) : s = t

RowsInv == TypeOK /\ RequestsKnow /\ ReadersKnow /\ UniqueCurrent

-----------------------------------------------------------------------------
(* Types and rows.                                                         *)

\* Bump keeps the types of what it writes.
LEMMA BumpTypes ==
    ASSUME TypeOK, NEW O \in SUBSET Orgs, NEW late \in SUBSET Orgs, Bump(O, late)
    PROVE  /\ version' \in [Orgs -> Versions]
           /\ cache' \in [Orgs -> Entry \cup {None}]
           /\ missed' \subseteq Orgs
  BY SubscriptionsAssumption DEF TypeOK, Bump, Versions

\* What an organization is answered, and until when the answer holds, is an
\* entry.
LEMMA EntryType ==
    ASSUME NEW s \in Subs \cup {None}, NEW row, s # None => row \in SubRow,
           NEW granted \in BOOLEAN, NEW ov \in Override, NEW history \in BOOLEAN,
           NEW t \in 0 .. MaxTime
    PROVE  [answer |-> Effective(s, row, granted, ov, history, t),
            validUntil |-> ValidUntil(s, row, t)] \in Entry
<1>1. CASE s = None
  <2>1. Effective(s, row, granted, ov, history, t) \in Answer
    BY <1>1 DEF Effective, Answer, Denied, Override
  <2>2. ValidUntil(s, row, t) \in 1 .. Never
    BY <1>1, SubscriptionsAssumption DEF ValidUntil, Never
  <2> QED
    BY <2>1, <2>2 DEF Entry
<1>2. CASE s # None
  <2>1. row.term \in Term
    BY <1>2 DEF SubRow
  <2>2. row.term.start \in 0 .. MaxTime /\ row.term.end \in 1 .. Never /\ row.term.grace \in 0 .. MaxTime
    BY <2>1 DEF Term
  <2>3. Effective(s, row, granted, ov, history, t) \in Answer
    BY <1>2 DEF Effective, Answer, Denied, Override
  <2>4. ValidUntil(s, row, t) \in 1 .. Never
    BY <1>2, <2>2, SubscriptionsAssumption DEF ValidUntil, Never
  <2> QED
    BY <2>3, <2>4 DEF Entry
<1> QED
  BY <1>1, <1>2

\* What a step does to the rows: none goes or moves to another organization,
\* and one that becomes current is the only one.
RowsStep ==
    /\ sub' \in [Subs -> SubRow \cup {None}]
    /\ \A s \in Subs : Exists(s) => Exists(s)' /\ sub'[s].org = sub[s].org
    /\ \A s \in Subs, o \in Orgs : s \in CurrentOf(o)' =>
         s \in CurrentOf(o) \/ (\A t \in CurrentOf(o)' : t = s)

\* Rows that nobody writes.
LEMMA SameRows == ASSUME TypeOK, sub' = sub PROVE RowsStep
  BY DEF TypeOK, RowsStep, CurrentOf, History, Exists

\* A row that is written, as the only one that is current.
LEMMA OneRowWritten ==
    ASSUME TypeOK, NEW s \in Subs, NEW row \in SubRow, sub' = [sub EXCEPT ![s] = row],
           Exists(s) => row.org = sub[s].org,
           row.status \in Current => CurrentOf(row.org) \subseteq {s}
    PROVE  RowsStep
<1>1. sub' \in [Subs -> SubRow \cup {None}]
  BY DEF TypeOK
<1>2. ASSUME NEW t \in Subs, Exists(t) PROVE Exists(t)' /\ sub'[t].org = sub[t].org
  BY <1>2, NoneIsNoRow DEF TypeOK, Exists
<1>3. ASSUME NEW t \in Subs, NEW o \in Orgs, t \in CurrentOf(o)', t \notin CurrentOf(o)
      PROVE  \A u \in CurrentOf(o)' : u = t
  <2>1. t = s /\ row.org = o /\ row.status \in Current
    BY <1>3 DEF TypeOK, CurrentOf, History, Exists
  <2>2. \A u \in CurrentOf(o)' : u = s \/ u \in CurrentOf(o)
    BY DEF TypeOK, CurrentOf, History, Exists
  <2> QED
    BY <2>1, <2>2
<1> QED
  BY <1>1, <1>2, <1>3 DEF RowsStep

\* The row a transition writes ...
LEMMA TransitionRows ==
    ASSUME RowsInv, NEW a \in Admins, NEW to \in Status, TransitionWrite(a, to)
    PROVE  /\ RowsStep
           /\ \E O \in SUBSET Orgs : /\ Bump(O, {})
                                     /\ \A s \in Subs : sub'[s] = sub[s] \/ (Exists(s) /\ sub[s].org \in O)
<1> PICK s \in Subs : s = request[a].sub
  BY DEF TransitionWrite, Asks, RowsInv, TypeOK, Request
<1>1. sub[s] \in SubRow
  BY DEF TransitionWrite, RowsInv, RequestsKnow, TypeOK, Exists
<1> DEFINE may == to \in Transitions[request[a].from] /\ ~(to \in Current /\ Taken(s, sub[s].org))
           row == [sub[s] EXCEPT !.status = to]
<1>2. /\ sub' = IF may THEN [sub EXCEPT ![s].status = to] ELSE sub
      /\ Bump(IF may THEN {sub[s].org} ELSE {}, {})
  BY DEF TransitionWrite
<1>3. CASE may
  <2>1. sub' = [sub EXCEPT ![s] = row] /\ row \in SubRow /\ row.org = sub[s].org /\ row.status = to
    BY <1>1, <1>2, <1>3 DEF SubRow, RowsInv, TypeOK
  <2>2. to \in Current => CurrentOf(sub[s].org) \subseteq {s}
    BY <1>3 DEF Taken
  <2> HIDE DEF row, may
  <2>3. RowsStep
    BY <2>1, <2>2, OneRowWritten DEF RowsInv
  <2>4. \A t \in Subs : sub'[t] = sub[t] \/ (Exists(t) /\ sub[t].org \in {sub[s].org})
    BY <1>1, <2>1, NoneIsNoRow DEF RowsInv, TypeOK, Exists
  <2>5. {sub[s].org} \in SUBSET Orgs
    BY <1>1 DEF SubRow
  <2> QED
    BY <1>2, <1>3, <2>3, <2>4, <2>5
<1>4. CASE ~may
  BY <1>2, <1>4, SameRows DEF RowsInv
<1> QED
  BY <1>3, <1>4

\* ... and an update of its dates.
LEMMA UpdateRows ==
    ASSUME RowsInv, NEW a \in Admins, NEW given \in Terms, NEW named \in SUBSET {"start", "end", "grace"},
           NEW p \in Plans \cup {None}, UpdateWrite(a, given, named, p)
    PROVE  /\ RowsStep
           /\ \E O \in SUBSET Orgs : /\ Bump(O, {})
                                     /\ \A s \in Subs : sub'[s] = sub[s] \/ (Exists(s) /\ sub[s].org \in O)
<1> PICK s \in Subs : s = request[a].sub
  BY DEF UpdateWrite, Asks, RowsInv, TypeOK, Request
<1>1. sub[s] \in SubRow
  BY DEF UpdateWrite, RowsInv, RequestsKnow, TypeOK, Exists
<1> DEFINE read == request[a].term
           t == [start |-> IF "start" \in named THEN given.start ELSE read.start,
                 end |-> IF "end" \in named THEN given.end ELSE read.end,
                 grace |-> IF "grace" \in named THEN given.grace ELSE read.grace]
           may == IsSound(t) /\ (p = None \/ plan[p].active)
           row == [sub[s] EXCEPT !.term = t, !.plan = IF p = None THEN @ ELSE p]
<1>2. /\ sub' = IF may THEN [sub EXCEPT ![s].term = t, ![s].plan = IF p = None THEN @ ELSE p] ELSE sub
      /\ Bump(IF may THEN {sub[s].org} ELSE {}, {})
  BY DEF UpdateWrite
<1>3. t \in Term
  <2>1. read \in Term /\ given \in Term
    BY SubscriptionsAssumption DEF UpdateWrite, Asks, RowsInv, TypeOK, Request
  <2> HIDE DEF read
  <2> QED
    BY <2>1 DEF Term
<1> HIDE DEF t
<1>4. CASE may
  <2>1. row \in SubRow /\ row.org = sub[s].org /\ row.status = sub[s].status
    BY <1>1, <1>3, <1>4 DEF SubRow
  <2>2. sub' = [sub EXCEPT ![s] = row]
    BY <1>1, <1>2, <1>4 DEF RowsInv, TypeOK, SubRow
  <2>3. sub[s].status \in Current => CurrentOf(sub[s].org) \subseteq {s}
    BY <1>1, NoneIsNoRow DEF RowsInv, UniqueCurrent, CurrentOf, History, Exists, SubRow
  <2> HIDE DEF row, may
  <2>4. RowsStep
    BY <2>1, <2>2, <2>3, OneRowWritten DEF RowsInv
  <2>5. \A u \in Subs : sub'[u] = sub[u] \/ (Exists(u) /\ sub[u].org \in {sub[s].org})
    BY <1>1, <2>2, NoneIsNoRow DEF RowsInv, TypeOK, Exists
  <2>6. {sub[s].org} \in SUBSET Orgs
    BY <1>1 DEF SubRow
  <2> QED
    BY <1>2, <1>4, <2>4, <2>5, <2>6
<1>5. CASE ~may
  BY <1>2, <1>5, SameRows DEF RowsInv
<1> QED
  BY <1>4, <1>5

\* A new subscription.
LEMMA CreateRows ==
    ASSUME RowsInv, NEW s \in Subs, NEW o \in Orgs, NEW p \in Plans, CreateSubscription(s, o, p)
    PROVE  /\ RowsStep
           /\ \A t \in Subs : sub'[t] = sub[t] \/ (t = s /\ ~Exists(s) /\ sub'[s].org = o)
<1> PICK t \in Terms, st \in {"PENDING", "ACTIVE"} :
      sub' = [sub EXCEPT ![s] = [org |-> o, plan |-> p, status |-> st, term |-> t]]
  BY DEF CreateSubscription
<1> DEFINE row == [org |-> o, plan |-> p, status |-> st, term |-> t]
<1>1. row \in SubRow /\ row.org = o
  BY SubscriptionsAssumption DEF SubRow, Status
<1>2. ~Exists(s) /\ CurrentOf(row.org) \subseteq {s} /\ sub' = [sub EXCEPT ![s] = row]
  BY DEF CreateSubscription, Taken
<1> HIDE DEF row
<1> QED
  BY <1>1, <1>2, OneRowWritten DEF RowsInv, TypeOK

-----------------------------------------------------------------------------
(* What an answer depends on.                                              *)

\* What a call of resolve() has collected is what the rows of o say.
Describes(o, s, row, granted) ==
    \/ s = None /\ CurrentOf(o) = {}
    \/ s \in CurrentOf(o) /\ row = sub[s] /\ granted = Granted(row.plan)

\* An organization whose version a step leaves, and that it does not miss,
\* keeps all that its answer depends on; another one loses its entry.
Kept(o) ==
    /\ CurrentOf(o)' = CurrentOf(o) /\ (History(o) # {})' = (History(o) # {})
    /\ override'[o] = override[o]
    /\ \A s \in CurrentOf(o) : sub'[s] = sub[s]

AnswersStep ==
    \A o \in Orgs :
      \/ version'[o] > version[o] /\ cache'[o] = None
      \/ /\ version'[o] = version[o] /\ cache'[o] \in {cache[o], None} /\ Kept(o)
         /\ o \notin missed' =>
              /\ o \notin missed
              /\ \A s \in CurrentOf(o) : Granted(sub[s].plan)' = Granted(sub[s].plan)

\* Nothing moves but the clock and what is under way.
LEMMA SameAnswers ==
    ASSUME TypeOK, UNCHANGED <<plan, sub, override, version, missed>>,
           \A o \in Orgs : cache'[o] \in {cache[o], None}
    PROVE  AnswersStep
  BY DEF AnswersStep, Kept, CurrentOf, History, Exists, Granted

\* Rows of other organizations are written, or none.
LEMMA OtherAnswers ==
    ASSUME RowsInv, RowsStep, NEW O \in SUBSET Orgs, Bump(O, {}), UNCHANGED plan,
           \A o \in Orgs \ O : override'[o] = override[o],
           \A s \in Subs : \/ sub'[s] = sub[s]
                           \/ Exists(s) /\ sub[s].org \in O
                           \/ ~Exists(s) /\ sub'[s].org \in O
    PROVE  AnswersStep
<1> SUFFICES ASSUME NEW o \in Orgs
             PROVE  \/ version'[o] > version[o] /\ cache'[o] = None
                    \/ /\ version'[o] = version[o] /\ cache'[o] \in {cache[o], None} /\ Kept(o)
                       /\ o \notin missed' =>
                            /\ o \notin missed
                            /\ \A s \in CurrentOf(o) : Granted(sub[s].plan)' = Granted(sub[s].plan)
  BY DEF AnswersStep
<1>1. CASE o \in O
  <2>1. version'[o] = version[o] + 1 /\ cache'[o] = None /\ version[o] \in Int
    BY <1>1 DEF Bump, RowsInv, TypeOK, Versions
  <2> QED
    BY <2>1
<1>2. CASE o \notin O
  <2>1. version'[o] = version[o] /\ cache'[o] = cache[o] /\ (o \notin missed' => o \notin missed)
    BY <1>2 DEF Bump
  <2>2. \A s \in Subs : s \in History(o) \/ s \in History(o)' => sub'[s] = sub[s]
    BY <1>2 DEF History, Exists, RowsStep
  <2>3. History(o)' = History(o) /\ CurrentOf(o)' = CurrentOf(o)
    BY <2>2 DEF History, CurrentOf, Exists
  <2>4. \A s \in CurrentOf(o) : sub'[s] = sub[s] /\ Granted(sub[s].plan)' = Granted(sub[s].plan)
    BY <2>2 DEF CurrentOf, History, Granted
  <2> QED
    BY <1>2, <2>1, <2>3, <2>4 DEF Kept
<1> QED
  BY <1>1, <1>2

\* A plan changes: an organization that has it is selected, or missed.
LEMMA PlanAnswers ==
    ASSUME RowsInv, NEW a \in Admins, NEW row \in PlanRow, PlanCommit(a, row)
    PROVE  AnswersStep /\ RowsStep
<1> PICK p \in Plans : p = request[a].plan
  BY DEF PlanCommit, Asks, RowsInv, TypeOK, Request
<1>1. plan' = [plan EXCEPT ![p] = row] /\ UNCHANGED <<sub, override>> /\ Bump(request[a].selected, Subscribers(p))
  BY DEF PlanCommit, Answered
<1>2. ASSUME NEW o \in Orgs
      PROVE  \/ version'[o] > version[o] /\ cache'[o] = None
             \/ /\ version'[o] = version[o] /\ cache'[o] \in {cache[o], None} /\ Kept(o)
                /\ o \notin missed' =>
                     /\ o \notin missed
                     /\ \A s \in CurrentOf(o) : Granted(sub[s].plan)' = Granted(sub[s].plan)
  <2>1. Kept(o)
    BY <1>1 DEF Kept, CurrentOf, History, Exists
  <2>2. CASE o \in request[a].selected
    <3>1. version'[o] = version[o] + 1 /\ cache'[o] = None /\ version[o] \in Int
      BY <1>1, <2>2 DEF Bump, RowsInv, TypeOK, Versions
    <3> QED
      BY <3>1
  <2>3. CASE o \notin request[a].selected
    <3>1. version'[o] = version[o] /\ cache'[o] = cache[o]
      BY <1>1, <2>3 DEF Bump
    <3>2. ASSUME o \notin missed' PROVE o \notin missed /\ \A s \in CurrentOf(o) : sub[s].plan # p
      BY <1>1, <2>3, <3>2 DEF Bump, Subscribers
    <3>3. ASSUME NEW s \in CurrentOf(o), sub[s].plan # p PROVE Granted(sub[s].plan)' = Granted(sub[s].plan)
      <4>1. sub[s].plan \in Plans
        BY DEF RowsInv, TypeOK, CurrentOf, History, Exists, SubRow
      <4> QED
        BY <1>1, <3>3, <4>1 DEF Granted, RowsInv, TypeOK
    <3> QED
      BY <2>1, <3>1, <3>2, <3>3
  <2> QED
    BY <2>2, <2>3
<1>3. AnswersStep
  BY <1>2 DEF AnswersStep
<1>4. RowsStep
  BY <1>1, SameRows DEF RowsInv
<1> QED
  BY <1>3, <1>4

-----------------------------------------------------------------------------
(* Rows, requests and readers.                                             *)

\* One current subscription, before and after.
LEMMA UniqueAfter == ASSUME RowsInv, RowsStep PROVE UniqueCurrent'
<1> SUFFICES ASSUME NEW o \in Orgs, NEW s \in CurrentOf(o)', NEW t \in CurrentOf(o)' PROVE s = t
  BY DEF UniqueCurrent
<1>1. s \in Subs /\ t \in Subs
  BY DEF CurrentOf, History
<1> QED
  BY <1>1 DEF RowsInv, RowsStep, UniqueCurrent

\* A request reads a subscription, or selects the subscribers of a plan.
LEMMA AskStep ==
    ASSUME RowsInv, NEW a \in Admins, NEW asked \in Request, Ask(a, asked),
           asked.op # "plan" => Exists(asked.sub)
    PROVE  RowsInv' /\ AnswersStep
<1>1. request' = [request EXCEPT ![a] = asked] /\ UNCHANGED <<plan, sub, override, version, cache, now, reader, missed>>
  BY DEF Ask
<1>2. TypeOK'
  BY <1>1 DEF RowsInv, TypeOK
<1>3. RequestsKnow'
  BY <1>1 DEF RowsInv, TypeOK, RequestsKnow, Asks, Exists
<1>4. ReadersKnow'
  BY <1>1 DEF RowsInv, ReadersKnow
<1>5. UniqueCurrent'
  BY <1>1, SameRows, UniqueAfter DEF RowsInv
<1>6. AnswersStep
  BY <1>1, SameAnswers DEF RowsInv
<1> QED
  BY <1>2, <1>3, <1>4, <1>5, <1>6 DEF RowsInv

\* A request writes, with the versions of the organizations it concerns.
LEMMA WriteStep ==
    ASSUME RowsInv, RowsStep, NEW O \in SUBSET Orgs, NEW late \in SUBSET Orgs, Bump(O, late),
           plan' \in [Plans -> PlanRow], override' \in [Orgs -> Override],
           request' \in [Admins -> Request \cup {None}],
           \A a \in Admins : request'[a] \in {request[a], None},
           UNCHANGED <<now, reader>>
    PROVE  RowsInv'
<1>1. TypeOK'
  BY BumpTypes DEF RowsInv, TypeOK, RowsStep
<1>2. RequestsKnow'
  <2> SUFFICES ASSUME NEW a \in Admins, Asks(a, "transition")' \/ Asks(a, "update")'
               PROVE  Exists(request[a].sub)' /\ request'[a] = request[a]
    BY DEF RequestsKnow, Exists
  <2>1. request'[a] = request[a] /\ (Asks(a, "transition") \/ Asks(a, "update"))
    BY DEF Asks
  <2>2. request[a].sub \in Subs /\ Exists(request[a].sub)
    BY <2>1 DEF RowsInv, TypeOK, RequestsKnow, Asks, Request
  <2> QED
    BY <2>1, <2>2 DEF RowsStep
<1>3. ReadersKnow'
  BY DEF RowsInv, ReadersKnow
<1> QED
  BY <1>1, <1>2, <1>3, UniqueAfter DEF RowsInv

\* So a request that is answered leaves none behind.
LEMMA AnsweredRequests ==
    ASSUME TypeOK, NEW a \in Admins, Answered(a)
    PROVE  /\ request' \in [Admins -> Request \cup {None}]
           /\ \A b \in Admins : request'[b] \in {request[b], None}
           /\ UNCHANGED <<now, reader, override>>
  BY DEF TypeOK, Answered

\* The steps of administrators keep the rows in order, and every answer that
\* they change gets a new version or is missed.
LEMMA AdminStep ==
    ASSUME RowsInv,
           \/ \E s \in Subs, o \in Orgs, p \in Plans : CreateSubscription(s, o, p)
           \/ \E a \in Admins, s \in Subs : TransitionRead(a, s)
           \/ \E a \in Admins, to \in Status : TransitionWrite(a, to)
           \/ \E a \in Admins, s \in Subs : UpdateRead(a, s)
           \/ \E a \in Admins, given \in Terms, named \in SUBSET {"start", "end", "grace"},
                p \in Plans \cup {None} : UpdateWrite(a, given, named, p)
           \/ \E a \in Admins, p \in Plans : PlanSelect(a, p)
           \/ \E a \in Admins, row \in PlanRow : PlanCommit(a, row)
           \/ \E o \in Orgs, state \in Override : SetOverride(o, state)
    PROVE  RowsInv' /\ AnswersStep /\ UNCHANGED <<now, reader>>
<1>1. ASSUME NEW s \in Subs, NEW o \in Orgs, NEW p \in Plans, CreateSubscription(s, o, p)
      PROVE  RowsInv' /\ AnswersStep /\ UNCHANGED <<now, reader>>
  <2>1. RowsStep /\ \A t \in Subs : sub'[t] = sub[t] \/ (~Exists(t) /\ sub'[t].org \in {o})
    BY <1>1, CreateRows
  <2>2. Bump({o}, {}) /\ UNCHANGED <<plan, override, now, request, reader>>
    BY <1>1 DEF CreateSubscription
  <2>3. RowsInv'
    BY <2>1, <2>2, WriteStep DEF RowsInv, TypeOK
  <2>4. AnswersStep
    BY <2>1, <2>2, OtherAnswers
  <2> QED
    BY <2>2, <2>3, <2>4
<1>2. ASSUME NEW a \in Admins, NEW s \in Subs, TransitionRead(a, s)
      PROVE  RowsInv' /\ AnswersStep /\ UNCHANGED <<now, reader>>
  <2> DEFINE asked == [op |-> "transition", sub |-> s, from |-> sub[s].status]
  <2>1. asked \in Request /\ Exists(asked.sub) /\ Ask(a, asked)
    BY <1>2 DEF TransitionRead, Request, RowsInv, TypeOK, SubRow, Exists
  <2> HIDE DEF asked
  <2>2. UNCHANGED <<now, reader>>
    BY <2>1 DEF Ask
  <2> QED
    BY <2>1, <2>2, AskStep
<1>3. ASSUME NEW a \in Admins, NEW to \in Status, TransitionWrite(a, to)
      PROVE  RowsInv' /\ AnswersStep /\ UNCHANGED <<now, reader>>
  <2>1. RowsStep
    BY <1>3, TransitionRows
  <2>2. PICK O \in SUBSET Orgs : Bump(O, {}) /\ \A s \in Subs : sub'[s] = sub[s] \/ (Exists(s) /\ sub[s].org \in O)
    BY <1>3, TransitionRows
  <2>3. Answered(a) /\ UNCHANGED plan
    BY <1>3 DEF TransitionWrite
  <2>4. RowsInv'
    BY <2>1, <2>2, <2>3, AnsweredRequests, WriteStep DEF RowsInv, TypeOK
  <2>5. AnswersStep
    BY <2>1, <2>2, <2>3, AnsweredRequests, OtherAnswers DEF RowsInv
  <2> QED
    BY <2>3, <2>4, <2>5, AnsweredRequests DEF RowsInv
<1>4. ASSUME NEW a \in Admins, NEW s \in Subs, UpdateRead(a, s)
      PROVE  RowsInv' /\ AnswersStep /\ UNCHANGED <<now, reader>>
  <2> DEFINE asked == [op |-> "update", sub |-> s, term |-> sub[s].term]
  <2>1. asked \in Request /\ Exists(asked.sub) /\ Ask(a, asked)
    BY <1>4 DEF UpdateRead, Request, RowsInv, TypeOK, SubRow, Exists
  <2> HIDE DEF asked
  <2>2. UNCHANGED <<now, reader>>
    BY <2>1 DEF Ask
  <2> QED
    BY <2>1, <2>2, AskStep
<1>5. ASSUME NEW a \in Admins, NEW given \in Terms, NEW named \in SUBSET {"start", "end", "grace"},
             NEW p \in Plans \cup {None}, UpdateWrite(a, given, named, p)
      PROVE  RowsInv' /\ AnswersStep /\ UNCHANGED <<now, reader>>
  <2>1. RowsStep
    BY <1>5, UpdateRows
  <2>2. PICK O \in SUBSET Orgs : Bump(O, {}) /\ \A s \in Subs : sub'[s] = sub[s] \/ (Exists(s) /\ sub[s].org \in O)
    BY <1>5, UpdateRows
  <2>3. Answered(a) /\ UNCHANGED plan
    BY <1>5 DEF UpdateWrite
  <2>4. RowsInv'
    BY <2>1, <2>2, <2>3, AnsweredRequests, WriteStep DEF RowsInv, TypeOK
  <2>5. AnswersStep
    BY <2>1, <2>2, <2>3, AnsweredRequests, OtherAnswers DEF RowsInv
  <2> QED
    BY <2>3, <2>4, <2>5, AnsweredRequests DEF RowsInv
<1>6. ASSUME NEW a \in Admins, NEW p \in Plans, PlanSelect(a, p)
      PROVE  RowsInv' /\ AnswersStep /\ UNCHANGED <<now, reader>>
  <2> DEFINE asked == [op |-> "plan", plan |-> p, selected |-> Subscribers(p)]
  <2>1. asked \in Request /\ asked.op = "plan" /\ Ask(a, asked)
    BY <1>6 DEF PlanSelect, Request, Subscribers
  <2> HIDE DEF asked
  <2>2. UNCHANGED <<now, reader>>
    BY <2>1 DEF Ask
  <2> QED
    BY <2>1, <2>2, AskStep
<1>7. ASSUME NEW a \in Admins, NEW row \in PlanRow, PlanCommit(a, row)
      PROVE  RowsInv' /\ AnswersStep /\ UNCHANGED <<now, reader>>
  <2>1. RowsStep /\ AnswersStep
    BY <1>7, PlanAnswers
  <2>2. Answered(a) /\ Asks(a, "plan") /\ plan' = [plan EXCEPT ![request[a].plan] = row]
        /\ Bump(request[a].selected, Subscribers(request[a].plan))
    BY <1>7 DEF PlanCommit
  <2>3. request[a].selected \in SUBSET Orgs /\ Subscribers(request[a].plan) \in SUBSET Orgs
    BY <2>2 DEF Asks, RowsInv, TypeOK, Request, Subscribers
  <2>4. plan' \in [Plans -> PlanRow] /\ override \in [Orgs -> Override]
    BY <2>2 DEF RowsInv, TypeOK
  <2>5. RowsInv'
    BY <2>1, <2>2, <2>3, <2>4, AnsweredRequests, WriteStep DEF RowsInv
  <2> QED
    BY <2>1, <2>2, <2>5, AnsweredRequests DEF RowsInv
<1>8. ASSUME NEW o \in Orgs, NEW state \in Override, SetOverride(o, state)
      PROVE  RowsInv' /\ AnswersStep /\ UNCHANGED <<now, reader>>
  <2>1. override' = [override EXCEPT ![o] = state] /\ Bump({o}, {}) /\ UNCHANGED <<plan, sub, now, request, reader>>
    BY <1>8 DEF SetOverride
  <2>2. RowsStep
    BY <2>1, SameRows DEF RowsInv
  <2>3. RowsInv'
    BY <2>1, <2>2, WriteStep DEF RowsInv, TypeOK
  <2>4. \A u \in Orgs \ {o} : override'[u] = override[u]
    BY <2>1 DEF RowsInv, TypeOK
  <2>5. AnswersStep
    BY <2>1, <2>2, <2>4, OtherAnswers
  <2> QED
    BY <2>1, <2>3, <2>5
<1> QED
  BY <1>1, <1>2, <1>3, <1>4, <1>5, <1>6, <1>7, <1>8

-----------------------------------------------------------------------------
(* Entries.                                                                *)

\* What resolve() stores about o.
EntryFor(o, s, row, granted, at) ==
    [answer |-> Effective(s, row, granted, override[o], History(o) # {}, at),
     validUntil |-> ValidUntil(s, row, at)]

\* An entry is the answer of the present rows at some time before.
EntriesAreCurrent ==
    \A o \in Orgs \ missed : cache[o] # None =>
      \E s \in Subs \cup {None}, row \in SubRow \cup {None}, granted \in BOOLEAN, at \in 0 .. now :
        Describes(o, s, row, granted) /\ cache[o] = EntryFor(o, s, row, granted, at)

\* What a call has read so far is still so, as long as the version it has read
\* first is; otherwise it will store nothing.
ReadersAreCurrent ==
    \A r \in Readers : reader[r] # None =>
      LET c == reader[r]
      IN /\ c.at <= now /\ c.version <= version[c.org]
         /\ c.version = version[c.org] /\ c.org \notin missed =>
              /\ c.next = "plan" => c.sub \in CurrentOf(c.org) /\ c.row = sub[c.sub]
              /\ c.next = "rest" => Describes(c.org, c.sub, c.row, c.granted)

\* CachedIsCurrent speaks of an entry and the rows; the induction needs the
\* calls that will store the next one.
SubscriptionsInv == RowsInv /\ EntriesAreCurrent /\ ReadersAreCurrent

\* An organization that keeps what its answer depends on keeps its
\* description.
LEMMA SameDescription ==
    ASSUME RowsInv, AnswersStep, NEW o \in Orgs, version'[o] = version[o], o \notin missed',
           NEW s, NEW row, NEW granted, Describes(o, s, row, granted)
    PROVE  /\ o \notin missed /\ cache'[o] \in {cache[o], None} /\ Describes(o, s, row, granted)'
           /\ \A at : EntryFor(o, s, row, granted, at)' = EntryFor(o, s, row, granted, at)
<1>1. /\ Kept(o) /\ o \notin missed /\ cache'[o] \in {cache[o], None}
      /\ \A t \in CurrentOf(o) : Granted(sub[t].plan)' = Granted(sub[t].plan)
  <2>1. version[o] \in Int
    BY DEF RowsInv, TypeOK, Versions
  <2> QED
    BY <2>1 DEF AnswersStep
<1>2. CurrentOf(o)' = CurrentOf(o) /\ (History(o) # {})' = (History(o) # {}) /\ override'[o] = override[o]
  BY <1>1 DEF Kept
<1>3. Describes(o, s, row, granted)'
  <2>1. CASE s = None /\ CurrentOf(o) = {}
    BY <1>2, <2>1 DEF Describes
  <2>2. CASE s \in CurrentOf(o) /\ row = sub[s] /\ granted = Granted(row.plan)
    <3>1. sub'[s] = sub[s] /\ Granted(sub[s].plan)' = Granted(sub[s].plan)
      BY <1>1, <2>2 DEF Kept
    <3> QED
      BY <1>2, <2>2, <3>1 DEF Describes, Granted
  <2> QED
    BY <2>1, <2>2 DEF Describes
<1>4. \A at : EntryFor(o, s, row, granted, at)' = EntryFor(o, s, row, granted, at)
  BY <1>2 DEF EntryFor, Effective, ValidUntil
<1> QED
  BY <1>1, <1>3, <1>4

\* So entries and readers stay current in a step that no call of resolve()
\* makes.
LEMMA CurrentAfter ==
    ASSUME SubscriptionsInv, RowsInv', AnswersStep, reader' = reader, now' \in {now, now + 1}
    PROVE  EntriesAreCurrent' /\ ReadersAreCurrent'
<1>1. EntriesAreCurrent'
  <2> SUFFICES ASSUME NEW o \in Orgs, o \notin missed', cache'[o] # None
               PROVE  \E s \in Subs \cup {None}, row \in SubRow \cup {None}, granted \in BOOLEAN, at \in 0 .. now' :
                        Describes(o, s, row, granted)' /\ cache'[o] = EntryFor(o, s, row, granted, at)'
    BY DEF EntriesAreCurrent
  <2>1. version'[o] = version[o] /\ cache'[o] = cache[o] /\ o \notin missed
    BY DEF AnswersStep
  <2>2. PICK s \in Subs \cup {None}, row \in SubRow \cup {None}, granted \in BOOLEAN, at \in 0 .. now :
          Describes(o, s, row, granted) /\ cache[o] = EntryFor(o, s, row, granted, at)
    BY <2>1 DEF SubscriptionsInv, EntriesAreCurrent
  <2>3. Describes(o, s, row, granted)' /\ EntryFor(o, s, row, granted, at)' = EntryFor(o, s, row, granted, at)
    BY <2>1, <2>2, SameDescription DEF SubscriptionsInv
  <2>4. at \in 0 .. now'
    BY SubscriptionsAssumption DEF SubscriptionsInv, RowsInv, TypeOK
  <2> QED
    BY <2>1, <2>2, <2>3, <2>4
<1>2. ReadersAreCurrent'
  <2> SUFFICES ASSUME NEW r \in Readers, NEW c, c = reader[r], c # None
               PROVE  /\ c.at <= now' /\ c.version <= version'[c.org]
                      /\ c.version = version'[c.org] /\ c.org \notin missed' =>
                           /\ c.next = "plan" => c.sub \in CurrentOf(c.org)' /\ c.row = sub'[c.sub]
                           /\ c.next = "rest" => Describes(c.org, c.sub, c.row, c.granted)'
    BY DEF ReadersAreCurrent
  <2>1. /\ c.org \in Orgs /\ c.at \in Int /\ now \in Int /\ c.version \in Int
        /\ version[c.org] \in Int
    BY DEF SubscriptionsInv, RowsInv, TypeOK, Reading, Versions
  <2>2. /\ c.at <= now /\ c.version <= version[c.org]
        /\ c.version = version[c.org] /\ c.org \notin missed =>
             /\ c.next = "plan" => c.sub \in CurrentOf(c.org) /\ c.row = sub[c.sub]
             /\ c.next = "rest" => Describes(c.org, c.sub, c.row, c.granted)
    BY DEF SubscriptionsInv, ReadersAreCurrent
  <2>3. version'[c.org] = version[c.org] \/ version'[c.org] > version[c.org]
    BY <2>1 DEF AnswersStep
  <2>4. c.at <= now' /\ c.version <= version'[c.org]
    <3>1. now <= now'
      BY <2>1
    <3>2. c.at <= now'
      BY <2>1, <2>2, <3>1
    <3>3. c.version <= version'[c.org]
      <4>1. CASE version'[c.org] = version[c.org]
        BY <2>2, <4>1
      <4>2. CASE version'[c.org] > version[c.org]
        <5>1. version'[c.org] \in Int
          BY <2>1 DEF RowsInv, TypeOK, Versions
        <5> QED
          BY <2>1, <2>2, <4>2, <5>1
      <4> QED
        BY <2>3, <4>1, <4>2
    <3> QED
      BY <3>2, <3>3
  <2>5. ASSUME c.version = version'[c.org], c.org \notin missed'
        PROVE  /\ version'[c.org] = version[c.org] /\ c.version = version[c.org] /\ c.org \notin missed /\ Kept(c.org)
    BY <2>1, <2>2, <2>3, <2>5 DEF AnswersStep
  <2>6. ASSUME c.version = version'[c.org], c.org \notin missed', c.next = "plan"
        PROVE  c.sub \in CurrentOf(c.org)' /\ c.row = sub'[c.sub]
    BY <2>2, <2>5, <2>6 DEF Kept
  <2>7. ASSUME c.version = version'[c.org], c.org \notin missed', c.next = "rest"
        PROVE  Describes(c.org, c.sub, c.row, c.granted)'
    <3>1. Describes(c.org, c.sub, c.row, c.granted) /\ version'[c.org] = version[c.org]
      BY <2>2, <2>5, <2>7
    <3> QED
      BY <2>1, <2>7, <3>1, SameDescription DEF SubscriptionsInv
  <2> QED
    BY <2>4, <2>6, <2>7
<1> QED
  BY <1>1, <1>2

\* An answer holds until the instant that is stored with it.
LEMMA Lasting ==
    ASSUME NEW s, NEW row \in SubRow, s # None, NEW granted \in BOOLEAN, NEW ov \in Override,
           NEW at \in 0 .. MaxTime, NEW t \in 0 .. MaxTime, at <= t, t < ValidUntil(s, row, at)
    PROVE  Effective(s, row, granted, ov, TRUE, at) = Effective(s, row, granted, ov, TRUE, t)
<1>1. row.term \in Term /\ IsSound(row.term)
  BY DEF SubRow
<1>2. /\ row.term.start \in Int /\ row.term.end \in Int /\ row.term.grace \in Int
      /\ row.term.start < row.term.end
  BY <1>1, SubscriptionsAssumption DEF Term, IsSound, Never
<1>3. at \in Int /\ t \in Int
  BY SubscriptionsAssumption
<1>4. CASE row.status # "ACTIVE"
  BY <1>4 DEF Effective
<1>5. CASE row.status = "ACTIVE" /\ row.term.start > at
  <2>1. t < row.term.start
    BY <1>2, <1>3, <1>5 DEF ValidUntil
  <2> QED
    BY <1>2, <1>3, <1>5, <2>1 DEF Effective
<1>6. CASE row.status = "ACTIVE" /\ row.term.start <= at /\ at < row.term.end
  <2>1. t < row.term.end /\ row.term.start <= t
    BY <1>2, <1>3, <1>6 DEF ValidUntil
  <2> QED
    BY <1>2, <1>3, <1>6, <2>1 DEF Effective
<1>7. CASE row.status = "ACTIVE" /\ row.term.end <= at /\ at < row.term.grace
  <2>1. t < row.term.grace /\ row.term.start <= t /\ row.term.end <= t
    BY <1>2, <1>3, <1>7 DEF ValidUntil
  <2> QED
    BY <1>2, <1>3, <1>7, <2>1 DEF Effective
<1>8. CASE row.status = "ACTIVE" /\ row.term.end <= at /\ row.term.grace <= at
  <2>1. row.term.end <= t /\ row.term.grace <= t
    BY <1>2, <1>3, <1>8
  <2> QED
    BY <1>8, <2>1 DEF Effective
<1>9. \/ row.term.start > at
      \/ row.term.start <= at /\ at < row.term.end
      \/ row.term.end <= at /\ at < row.term.grace
      \/ row.term.end <= at /\ row.term.grace <= at
  BY <1>2, <1>3
<1> QED
  BY <1>4, <1>5, <1>6, <1>7, <1>8, <1>9

-----------------------------------------------------------------------------
(* Calls of resolve().                                                     *)

\* What is known of a call that has read the row of a subscription, or not yet.
Knows(c) ==
    CASE c.next = "subscription" -> c.sub = None
      [] c.next = "plan" -> c.sub \in Subs /\ c.row \in SubRow
      [] OTHER -> c.sub \in Subs => c.row \in SubRow

IsCurrent(c) ==
    /\ c.at <= now /\ c.version <= version[c.org]
    /\ c.version = version[c.org] /\ c.org \notin missed =>
         /\ c.next = "plan" => c.sub \in CurrentOf(c.org) /\ c.row = sub[c.sub]
         /\ c.next = "rest" => Describes(c.org, c.sub, c.row, c.granted)

\* A call goes on from one statement to the next, or ends.
LEMMA ReadStep ==
    ASSUME SubscriptionsInv, NEW r \in Readers, NEW c \in Reading \cup {None},
           reader' = [reader EXCEPT ![r] = c],
           c # None => Knows(c) /\ IsCurrent(c),
           cache' \in [Orgs -> Entry \cup {None}],
           UNCHANGED <<plan, sub, override, version, now, request, missed>>
    PROVE  RowsInv' /\ ReadersAreCurrent'
<1>1. TypeOK'
  BY DEF SubscriptionsInv, RowsInv, TypeOK
<1>2. RequestsKnow'
  BY DEF SubscriptionsInv, RowsInv, RequestsKnow, Asks, Exists
<1>3. ASSUME NEW q \in Readers, reader'[q] # None
      PROVE  /\ reader'[q] = c \/ (reader'[q] = reader[q] /\ reader[q] # None)
             /\ Knows(reader'[q]) /\ IsCurrent(reader'[q])
  <2>1. reader'[q] = c \/ reader'[q] = reader[q]
    BY DEF SubscriptionsInv, RowsInv, TypeOK
  <2>2. CASE reader'[q] = c
    BY <1>3, <2>2
  <2>3. CASE reader'[q] = reader[q]
    BY <1>3, <2>3 DEF SubscriptionsInv, RowsInv, ReadersKnow, ReadersAreCurrent, Knows, IsCurrent
  <2> QED
    BY <2>1, <2>2, <2>3
<1>4. ReadersKnow'
  BY <1>3 DEF ReadersKnow, Knows
<1>5. UniqueCurrent'
  BY SameRows, UniqueAfter DEF SubscriptionsInv, RowsInv
<1>6. ReadersAreCurrent'
  <2> SUFFICES ASSUME NEW q \in Readers, NEW d, d = reader'[q], d # None PROVE IsCurrent(d)'
    BY DEF ReadersAreCurrent, IsCurrent
  <2>1. IsCurrent(d)
    BY <1>3
  <2> QED
    BY <2>1 DEF IsCurrent, Describes, CurrentOf, History, Exists, Granted
<1> QED
  BY <1>1, <1>2, <1>4, <1>5, <1>6 DEF RowsInv

\* Entries that stay, of rows that stay.
LEMMA SameEntries ==
    ASSUME SubscriptionsInv, UNCHANGED <<plan, sub, override, version, cache, now, missed>>
    PROVE  EntriesAreCurrent'
<1> SUFFICES ASSUME NEW o \in Orgs \ missed, cache[o] # None
             PROVE  \E s \in Subs \cup {None}, row \in SubRow \cup {None}, granted \in BOOLEAN, at \in 0 .. now :
                      Describes(o, s, row, granted)' /\ cache[o] = EntryFor(o, s, row, granted, at)'
  BY DEF EntriesAreCurrent
<1> PICK s \in Subs \cup {None}, row \in SubRow \cup {None}, granted \in BOOLEAN, at \in 0 .. now :
      Describes(o, s, row, granted) /\ cache[o] = EntryFor(o, s, row, granted, at)
  BY DEF SubscriptionsInv, EntriesAreCurrent
<1>1. Describes(o, s, row, granted)'
  BY DEF Describes, CurrentOf, History, Exists, Granted
<1>2. EntryFor(o, s, row, granted, at)' = EntryFor(o, s, row, granted, at)
  BY DEF EntryFor, History, Exists
<1> QED
  BY <1>1, <1>2

\* A call begins, and reads the version.
LEMMA BeginStep ==
    ASSUME SubscriptionsInv, NEW r \in Readers, NEW o \in Orgs, ResolveBegin(r, o)
    PROVE  SubscriptionsInv'
<1> PICK at \in 0 .. now :
      reader' = [reader EXCEPT ![r] =
              [org |-> o, at |-> at, version |-> version[o], sub |-> None, row |-> None,
               granted |-> FALSE, next |-> "subscription"]]
  BY DEF ResolveBegin
<1> DEFINE c == [org |-> o, at |-> at, version |-> version[o], sub |-> None, row |-> None,
                 granted |-> FALSE, next |-> "subscription"]
<1>1. /\ reader' = [reader EXCEPT ![r] = c]
      /\ UNCHANGED <<plan, sub, override, version, cache, now, request, missed>>
  BY DEF ResolveBegin
<1>2. c \in Reading /\ Knows(c) /\ IsCurrent(c)
  <2>1. at \in 0 .. MaxTime /\ at <= now /\ version[o] \in Versions /\ version[o] <= version[o]
    BY SubscriptionsAssumption DEF SubscriptionsInv, RowsInv, TypeOK, Versions
  <2> QED
    BY <2>1 DEF Reading, Knows, IsCurrent
<1> HIDE DEF c
<1>3. RowsInv' /\ ReadersAreCurrent'
  <2> PICK d \in Reading : d = c
    BY <1>2
  <2> QED
    BY <1>1, <1>2, ReadStep DEF SubscriptionsInv, RowsInv, TypeOK
<1> QED
  BY <1>1, <1>3, SameEntries DEF SubscriptionsInv

\* It reads the current subscription, or that there is none ...
LEMMA SubscriptionStep ==
    ASSUME SubscriptionsInv, NEW r \in Readers, ResolveSubscription(r)
    PROVE  SubscriptionsInv'
<1> PICK b \in Reading : b = reader[r] /\ b # None /\ b.next = "subscription"
  BY DEF ResolveSubscription, SubscriptionsInv, RowsInv, TypeOK
<1>1. UNCHANGED <<plan, sub, override, version, cache, now, request, missed>>
  BY DEF ResolveSubscription
<1>2. /\ b.sub = None /\ b.org \in Orgs
      /\ b.at <= now /\ b.version <= version[b.org]
  BY DEF SubscriptionsInv, RowsInv, ReadersKnow, ReadersAreCurrent, Reading
<1>3. CASE /\ CurrentOf(b.org) = {}
           /\ reader' = [reader EXCEPT ![r].next = "rest"]
  <2> PICK c \in Reading : c = [b EXCEPT !.next = "rest"]
    BY DEF Reading
  <2>1. /\ c.sub = b.sub /\ c.org = b.org /\ c.at = b.at /\ c.version = b.version /\ c.next = "rest"
        /\ reader' = [reader EXCEPT ![r] = c]
    BY <1>3 DEF Reading
  <2>2. Knows(c) /\ IsCurrent(c)
    BY <1>2, <1>3, <2>1, SubscriptionsAssumption DEF Knows, IsCurrent, Describes
  <2> QED
    BY <1>1, <2>1, <2>2, ReadStep, SameEntries DEF SubscriptionsInv, RowsInv, TypeOK
<1>4. ASSUME NEW s \in CurrentOf(b.org),
             reader' = [reader EXCEPT ![r].next = "plan", ![r].sub = s, ![r].row = sub[s]]
      PROVE  SubscriptionsInv'
  <2>1. s \in Subs /\ sub[s] \in SubRow
    BY DEF CurrentOf, History, Exists, SubscriptionsInv, RowsInv, TypeOK
  <2> PICK c \in Reading : c = [b EXCEPT !.next = "plan", !.sub = s, !.row = sub[s]]
    BY <2>1 DEF Reading
  <2>2. /\ c.sub = s /\ c.row = sub[s] /\ c.org = b.org /\ c.at = b.at /\ c.version = b.version /\ c.next = "plan"
        /\ reader' = [reader EXCEPT ![r] = c]
    BY <1>4 DEF Reading
  <2>3. Knows(c) /\ IsCurrent(c)
    BY <1>2, <2>1, <2>2 DEF Knows, IsCurrent
  <2> QED
    BY <1>1, <2>2, <2>3, ReadStep, SameEntries DEF SubscriptionsInv, RowsInv, TypeOK
<1> QED
  BY <1>3, <1>4 DEF ResolveSubscription

\* ... then the plan ...
LEMMA PlanStep ==
    ASSUME SubscriptionsInv, NEW r \in Readers, ResolvePlan(r)
    PROVE  SubscriptionsInv'
<1> PICK b \in Reading : b = reader[r] /\ b # None /\ b.next = "plan"
  BY DEF ResolvePlan, SubscriptionsInv, RowsInv, TypeOK
<1>1. /\ UNCHANGED <<plan, sub, override, version, cache, now, request, missed>>
      /\ reader' = [reader EXCEPT ![r].next = "rest", ![r].granted = Granted(b.row.plan)]
  BY DEF ResolvePlan
<1>2. /\ b.sub \in Subs /\ b.row \in SubRow /\ b.org \in Orgs
      /\ b.at <= now /\ b.version <= version[b.org]
      /\ b.version = version[b.org] /\ b.org \notin missed => b.sub \in CurrentOf(b.org) /\ b.row = sub[b.sub]
  BY DEF SubscriptionsInv, RowsInv, ReadersKnow, ReadersAreCurrent, Reading
<1>3. Granted(b.row.plan) \in BOOLEAN
  BY <1>2 DEF Granted, SubRow, PlanRow, SubscriptionsInv, RowsInv, TypeOK
<1> PICK c \in Reading : c = [b EXCEPT !.next = "rest", !.granted = Granted(b.row.plan)]
  BY <1>3 DEF Reading
<1>4. /\ c.sub = b.sub /\ c.row = b.row /\ c.org = b.org /\ c.at = b.at /\ c.version = b.version
      /\ c.next = "rest" /\ c.granted = Granted(b.row.plan)
      /\ reader' = [reader EXCEPT ![r] = c]
  BY <1>1 DEF Reading
<1>5. Knows(c) /\ IsCurrent(c)
  BY <1>2, <1>4 DEF Knows, IsCurrent, Describes
<1>6. RowsInv' /\ ReadersAreCurrent'
  BY <1>1, <1>4, <1>5, ReadStep DEF SubscriptionsInv, RowsInv, TypeOK
<1> QED
  BY <1>1, <1>6, SameEntries DEF SubscriptionsInv

\* ... and the rest, and stores its answer.
LEMMA RestStep ==
    ASSUME SubscriptionsInv, NEW r \in Readers, ResolveRest(r)
    PROVE  SubscriptionsInv'
<1> PICK c \in Reading : c = reader[r] /\ c # None /\ c.next = "rest"
  BY DEF ResolveRest, SubscriptionsInv, RowsInv, TypeOK
<1> DEFINE entry == EntryFor(c.org, c.sub, c.row, c.granted, c.at)
<1>1. /\ UNCHANGED <<plan, sub, override, version, now, request, missed>>
      /\ reader' = [reader EXCEPT ![r] = None]
      /\ cache' = IF c.version = version[c.org] THEN [cache EXCEPT ![c.org] = entry] ELSE cache
  BY DEF ResolveRest, EntryFor
<1>2. /\ c.sub \in Subs \cup {None} /\ c.row \in SubRow \cup {None} /\ c.granted \in BOOLEAN /\ c.org \in Orgs
      /\ c.at \in 0 .. MaxTime /\ c.at <= now
      /\ c.sub # None => c.row \in SubRow
      /\ c.version = version[c.org] /\ c.org \notin missed => Describes(c.org, c.sub, c.row, c.granted)
  BY DEF SubscriptionsInv, RowsInv, ReadersKnow, ReadersAreCurrent, Reading
<1>3. entry \in Entry
  <2>1. override[c.org] \in Override
    BY <1>2 DEF SubscriptionsInv, RowsInv, TypeOK
  <2> PICK s \in Subs \cup {None}, row \in SubRow \cup {None}, granted \in BOOLEAN, at \in 0 .. MaxTime :
        s = c.sub /\ row = c.row /\ granted = c.granted /\ at = c.at
    BY <1>2
  <2> PICK ov \in Override, history \in BOOLEAN : ov = override[c.org] /\ history = (History(c.org) # {})
    BY <2>1
  <2>2. s # None => row \in SubRow
    BY <1>2
  <2>3. [answer |-> Effective(s, row, granted, ov, history, at), validUntil |-> ValidUntil(s, row, at)] \in Entry
    BY <2>2, EntryType, ZenonT(60)
  <2> QED
    BY <2>3 DEF EntryFor
<1>4. cache' \in [Orgs -> Entry \cup {None}]
  BY <1>1, <1>2, <1>3 DEF SubscriptionsInv, RowsInv, TypeOK
<1>5. RowsInv' /\ ReadersAreCurrent'
  BY <1>1, <1>4, ReadStep
<1>6. EntriesAreCurrent'
  <2> SUFFICES ASSUME NEW o \in Orgs \ missed, cache'[o] # None
               PROVE  \E s \in Subs \cup {None}, row \in SubRow \cup {None}, granted \in BOOLEAN, at \in 0 .. now :
                        Describes(o, s, row, granted)' /\ cache'[o] = EntryFor(o, s, row, granted, at)'
    BY <1>1, SMTT(60) DEF EntriesAreCurrent
  <2>1. \E s \in Subs \cup {None}, row \in SubRow \cup {None}, granted \in BOOLEAN, at \in 0 .. now :
          Describes(o, s, row, granted) /\ cache'[o] = EntryFor(o, s, row, granted, at)
    <3>1. CASE o = c.org /\ c.version = version[c.org]
      <4>1. cache'[o] = EntryFor(o, c.sub, c.row, c.granted, c.at)
        BY <1>1, <1>2, <3>1 DEF SubscriptionsInv, RowsInv, TypeOK
      <4>2. Describes(o, c.sub, c.row, c.granted) /\ c.at \in 0 .. now
        BY <1>2, <3>1, SubscriptionsAssumption DEF SubscriptionsInv, RowsInv, TypeOK
      <4> QED
        BY <1>2, <4>1, <4>2
    <3>2. CASE ~(o = c.org /\ c.version = version[c.org])
      <4>1. cache'[o] = cache[o]
        BY <1>1, <3>2 DEF SubscriptionsInv, RowsInv, TypeOK
      <4> QED
        BY <4>1 DEF SubscriptionsInv, EntriesAreCurrent
    <3> QED
      BY <3>1, <3>2
  <2> PICK s \in Subs \cup {None}, row \in SubRow \cup {None}, granted \in BOOLEAN, at \in 0 .. now :
        Describes(o, s, row, granted) /\ cache'[o] = EntryFor(o, s, row, granted, at)
    BY <2>1
  <2>2. Describes(o, s, row, granted)'
    BY <1>1 DEF Describes, CurrentOf, History, Exists, Granted
  <2>3. EntryFor(o, s, row, granted, at)' = EntryFor(o, s, row, granted, at)
    BY <1>1 DEF EntryFor, History, Exists
  <2> QED
    BY <2>2, <2>3
<1> QED
  BY <1>5, <1>6 DEF SubscriptionsInv

\* An entry is dropped, or the time passes.
LEMMA QuietStep ==
    ASSUME SubscriptionsInv, Tick \/ \E o \in Orgs : Evict(o)
    PROVE  SubscriptionsInv'
<1>1. /\ UNCHANGED <<plan, sub, override, version, request, reader, missed>>
      /\ now' \in 0 .. MaxTime /\ now' \in {now, now + 1}
      /\ cache' \in [Orgs -> Entry \cup {None}] /\ \A o \in Orgs : cache'[o] \in {cache[o], None}
  BY SubscriptionsAssumption DEF Tick, Evict, SubscriptionsInv, RowsInv, TypeOK
<1>2. RowsInv'
  <2>1. TypeOK'
    BY <1>1 DEF SubscriptionsInv, RowsInv, TypeOK
  <2>2. RequestsKnow' /\ ReadersKnow'
    BY <1>1 DEF SubscriptionsInv, RowsInv, RequestsKnow, ReadersKnow, Asks, Exists
  <2> QED
    BY <1>1, <2>1, <2>2, SameRows, UniqueAfter DEF SubscriptionsInv, RowsInv
<1>3. AnswersStep
  BY <1>1, SameAnswers DEF SubscriptionsInv, RowsInv
<1> QED
  BY <1>1, <1>2, <1>3, CurrentAfter DEF SubscriptionsInv

-----------------------------------------------------------------------------
(* Theorems.                                                               *)

\* The invariant holds first ...
LEMMA InitInv == Init => SubscriptionsInv
<1> SUFFICES ASSUME Init PROVE SubscriptionsInv
  OBVIOUS
<1>1. TypeOK
  BY SubscriptionsAssumption DEF Init, TypeOK, PlanRow, Override, Versions
<1>2. RequestsKnow /\ ReadersKnow /\ EntriesAreCurrent /\ ReadersAreCurrent
  BY DEF Init, RequestsKnow, ReadersKnow, EntriesAreCurrent, ReadersAreCurrent, Asks
<1>3. UniqueCurrent
  BY DEF Init, UniqueCurrent, CurrentOf, History, Exists
<1> QED
  BY <1>1, <1>2, <1>3 DEF SubscriptionsInv, RowsInv

\* ... and every step keeps it.
LEMMA NextInv == SubscriptionsInv /\ [Next]_vars => SubscriptionsInv'
<1> SUFFICES ASSUME SubscriptionsInv, [Next]_vars PROVE SubscriptionsInv'
  OBVIOUS
<1>1. CASE \/ \E s \in Subs, o \in Orgs, p \in Plans : CreateSubscription(s, o, p)
           \/ \E a \in Admins, s \in Subs : TransitionRead(a, s)
           \/ \E a \in Admins, to \in Status : TransitionWrite(a, to)
           \/ \E a \in Admins, s \in Subs : UpdateRead(a, s)
           \/ \E a \in Admins, given \in Terms, named \in SUBSET {"start", "end", "grace"},
                p \in Plans \cup {None} : UpdateWrite(a, given, named, p)
           \/ \E a \in Admins, p \in Plans : PlanSelect(a, p)
           \/ \E a \in Admins, row \in PlanRow : PlanCommit(a, row)
           \/ \E o \in Orgs, state \in Override : SetOverride(o, state)
  <2>1. RowsInv' /\ AnswersStep /\ UNCHANGED <<now, reader>>
    BY <1>1, AdminStep DEF SubscriptionsInv
  <2> QED
    BY <2>1, CurrentAfter DEF SubscriptionsInv
<1>2. CASE \E r \in Readers, o \in Orgs : ResolveBegin(r, o)
  BY <1>2, BeginStep
<1>3. CASE \E r \in Readers : ResolveSubscription(r)
  BY <1>3, SubscriptionStep
<1>4. CASE \E r \in Readers : ResolvePlan(r)
  BY <1>4, PlanStep
<1>5. CASE \E r \in Readers : ResolveRest(r)
  BY <1>5, RestStep
<1>6. CASE Tick \/ \E o \in Orgs : Evict(o)
  BY <1>6, QuietStep
<1>7. CASE UNCHANGED vars
  <2>1. /\ UNCHANGED <<plan, sub, override, version, cache, now, request, reader, missed>>
    BY <1>7 DEF vars
  <2>2. TypeOK' /\ RequestsKnow' /\ ReadersKnow'
    BY <2>1 DEF SubscriptionsInv, RowsInv, TypeOK, RequestsKnow, ReadersKnow, Asks, Exists
  <2>3. RowsInv'
    BY <2>1, <2>2, SameRows, UniqueAfter DEF SubscriptionsInv, RowsInv
  <2>4. AnswersStep
    BY <2>1, SameAnswers DEF SubscriptionsInv, RowsInv
  <2> QED
    BY <2>1, <2>3, <2>4, CurrentAfter DEF SubscriptionsInv
<1> QED
  BY <1>1, <1>2, <1>3, <1>4, <1>5, <1>6, <1>7 DEF Next

\* So it holds always.
LEMMA Invariant == Spec => []SubscriptionsInv
  BY InitInv, NextInv, PTL DEF Spec

\* Every variable keeps its type; what an update writes, though it has read the
\* dates before the lock, is a sound term.
THEOREM TypeCorrect == Spec => []TypeOK
<1>1. SubscriptionsInv => TypeOK
  BY DEF SubscriptionsInv, RowsInv
<1> QED
  BY <1>1, Invariant, PTL

\* No organization has two current subscriptions.
THEOREM OneIsCurrent == Spec => []OneCurrent
<1>1. SubscriptionsInv => OneCurrent
  <2> SUFFICES ASSUME SubscriptionsInv, NEW o \in Orgs PROVE Cardinality(CurrentOf(o)) <= 1
    BY DEF OneCurrent
  <2>1. CASE CurrentOf(o) = {}
    BY <2>1, FS_EmptySet
  <2>2. CASE CurrentOf(o) # {}
    <3> PICK s : s \in CurrentOf(o)
      BY <2>2
    <3>1. CurrentOf(o) = {s}
      BY DEF SubscriptionsInv, RowsInv, UniqueCurrent
    <3> QED
      BY <3>1, FS_Singleton
  <2> QED
    BY <2>1, <2>2
<1> QED
  BY <1>1, Invariant, PTL

\* An entry that resolve() would serve now is the answer it would compute now,
\* unless a change of the plan has missed the organization.
THEOREM ServesWhatIsEntitled == Spec => []CachedIsCurrent
<1>1. SubscriptionsInv => CachedIsCurrent
  <2> SUFFICES ASSUME SubscriptionsInv, NEW o \in Orgs \ missed, Usable(o, now)
               PROVE  cache[o].answer = Truth(o)
    BY DEF CachedIsCurrent
  <2> PICK s \in Subs \cup {None}, row \in SubRow \cup {None}, granted \in BOOLEAN, at \in 0 .. now :
        Describes(o, s, row, granted) /\ cache[o] = EntryFor(o, s, row, granted, at)
    BY DEF SubscriptionsInv, EntriesAreCurrent, Usable
  <2>1. /\ cache[o].answer = Effective(s, row, granted, override[o], History(o) # {}, at)
        /\ now < ValidUntil(s, row, at)
    BY DEF EntryFor, Usable
  <2>2. /\ at \in 0 .. MaxTime /\ now \in 0 .. MaxTime /\ at <= now
        /\ override[o] \in Override
    BY SubscriptionsAssumption DEF SubscriptionsInv, RowsInv, TypeOK
  <2>3. CASE s = None /\ CurrentOf(o) = {}
    BY <2>1, <2>3 DEF Truth, Effective
  <2>4. CASE s \in CurrentOf(o) /\ row = sub[s] /\ granted = Granted(row.plan)
    <3>1. s \in Subs /\ s # None /\ row \in SubRow /\ History(o) # {}
      BY <2>4, SubscriptionsAssumption DEF CurrentOf, History, Exists, SubscriptionsInv, RowsInv, TypeOK
    <3>2. (CHOOSE x \in CurrentOf(o) : TRUE) = s
      BY <2>4 DEF SubscriptionsInv, RowsInv, UniqueCurrent
    <3>3. Truth(o) = Effective(s, row, granted, override[o], TRUE, now)
      BY <2>4, <3>2 DEF Truth
    <3>4. cache[o].answer = Effective(s, row, granted, override[o], TRUE, at)
      BY <2>1, <3>1
    <3> QED
      BY <2>1, <2>2, <3>1, <3>3, <3>4, Lasting
  <2> QED
    BY <2>3, <2>4 DEF Describes
<1> QED
  BY <1>1, Invariant, PTL

\* A cancelled or expired subscription stays so, unless a transition that read
\* it before it was closed is still under way.
THEOREM ClosedStays == Spec => ClosedUnlessRaced
<1>1. SubscriptionsInv /\ [Next]_vars =>
        [\A s \in Subs :
           /\ Closed(s)
           /\ ~\E a \in Admins : /\ Asks(a, "transition")
                                 /\ request[a].sub = s /\ request[a].from \in Current
           => sub'[s].status = sub[s].status]_vars
  <2> SUFFICES ASSUME SubscriptionsInv, Next, NEW s \in Subs, Closed(s),
                      \A a \in Admins : Asks(a, "transition") /\ request[a].sub = s => request[a].from \notin Current
               PROVE  sub'[s].status = sub[s].status
    OBVIOUS
  <2>1. ASSUME NEW t \in Subs, NEW o \in Orgs, NEW p \in Plans, CreateSubscription(t, o, p)
        PROVE  sub'[s] = sub[s]
    BY <2>1, CreateRows DEF SubscriptionsInv, Closed
  <2>2. ASSUME NEW a \in Admins, NEW to \in Status, TransitionWrite(a, to)
        PROVE  sub'[s].status = sub[s].status
    <3>1. request[a].from \in Status /\ Asks(a, "transition")
      BY <2>2 DEF TransitionWrite, Asks, SubscriptionsInv, RowsInv, TypeOK, Request
    <3>2. CASE request[a].sub = s
      <4>1. Transitions[request[a].from] = {}
        BY <3>1, <3>2 DEF Status, Current, Transitions
      <4> QED
        BY <2>2, <4>1 DEF TransitionWrite
    <3>3. CASE request[a].sub # s
      BY <2>2, <3>3 DEF TransitionWrite, SubscriptionsInv, RowsInv, TypeOK
    <3> QED
      BY <3>2, <3>3
  <2>3. ASSUME NEW a \in Admins, NEW given \in Terms, NEW named \in SUBSET {"start", "end", "grace"},
               NEW p \in Plans \cup {None}, UpdateWrite(a, given, named, p)
        PROVE  sub'[s].status = sub[s].status
    <3>1. sub[s] \in SubRow
      BY DEF Closed, Exists, SubscriptionsInv, RowsInv, TypeOK
    <3>2. CASE request[a].sub = s
      BY <2>3, <3>1, <3>2 DEF UpdateWrite, SubscriptionsInv, RowsInv, TypeOK, SubRow
    <3>3. CASE request[a].sub # s
      BY <2>3, <3>3 DEF UpdateWrite, SubscriptionsInv, RowsInv, TypeOK
    <3> QED
      BY <3>2, <3>3
  <2> QED
    BY <2>1, <2>2, <2>3
    DEF Next, TransitionRead, UpdateRead, PlanSelect, Ask, PlanCommit, SetOverride, ResolveBegin,
        ResolveSubscription, ResolvePlan, ResolveRest, Evict, Tick
<1> QED
  BY <1>1, Invariant, PTL DEF Spec, ClosedUnlessRaced

-----------------------------------------------------------------------------
(* EffectiveQuota, as Quota.                                               *)

\* What a resolution has read is what the rows are: of the organization, which
\* was active, of the subscription s, and of its plan.
Agrees(r, a, s, actives, quotas) ==
    /\ r.next # "organization" => a
    /\ r.next \in {"plan", "quota", "override"} => r.row = s
    /\ r.next \in {"quota", "override"} /\ r.row # None => r.planActive = actives[r.row.plan]
    /\ r.next = "override" /\ r.row # None => r.quota = quotas[r.row.plan]

\* What it would answer if the rows it has still to read stayed as they are.
Completion(r, a, s, actives, quotas, over) ==
    CASE r.next = "organization" -> Quota!LimitBy(a, s, actives, quotas, over, r.at)
      [] r.next = "subscription" -> Quota!LimitBy(TRUE, s, actives, quotas, over, r.at)
      [] r.next = "plan" ->
           Quota!Effective(Quota!InTerm(r.row, actives[r.row.plan], r.at), quotas[r.row.plan], over)
      [] r.next = "quota" ->
           Quota!Effective(Quota!InTerm(r.row, r.planActive, r.at), quotas[r.row.plan], over)
      [] r.next = "override" ->
           Quota!Effective(r.row # None /\ Quota!InTerm(r.row, r.planActive, r.at), r.quota, over)
      [] r.next = "nothing" -> r.limit

Completed(r) == Completion(r, active, subscription, planActive, planQuota, limitOverride)
AgreesNow(r) == Agrees(r, active, subscription, planActive, planQuota)

\* A resolution that is not mixed would answer a limit that was in force, and
\* one that is not stale has read the rows as they are; and the limits it has
\* to do with have all been in rows.
Answerable(r) ==
    /\ ~r.mixed => Completed(r) \in r.known
    /\ r.next # "nothing" =>
         /\ ~r.stale => AgreesNow(r)
         /\ Quota!Configured \subseteq r.configured
         /\ r.quota # None => r.quota.hard \subseteq r.configured
         /\ r.limit = {}
    /\ r.next \in {"plan", "quota"} => r.row # None
    /\ r.next = "nothing" => r.limit \subseteq r.configured

\* The select of a change of a plan found the subscriber there was.
Selecting ==
    \A o \in Operators : change[o] # None => change[o].selected = change[o].subscribed

\* The inductive invariant.
QuotaInv ==
    /\ Quota!EffectiveTypeOK /\ Selecting
    /\ \A c \in Resolutions : resolution[c] # None => Answerable(resolution[c])

\* EffectiveQuota: limits are types.
LEMMA LimitTypes ==
    ASSUME NEW e, NEW p, p = None \/ p \in Quota!PlanQuota,
           NEW v, v = None \/ v \in Quota!Override
    PROVE  Quota!Effective(e, p, v) \in Quota!Optional(Limits)
<1>1. {} \in Quota!Optional(Limits)
  BY DEF Quota!Optional
<1>2. v # None => v.hard \in Quota!Optional(Limits)
  BY DEF Quota!Override
<1>3. p # None => p.hard \in Quota!Optional(Limits)
  BY DEF Quota!PlanQuota
<1> QED
  BY <1>1, <1>2, <1>3 DEF Quota!Effective

\* EffectiveQuota: and so is what a request at any time is limited by.
LEMMA LimitByTypes ==
    ASSUME NEW a, NEW s \in Quota!Subscription \cup {None}, NEW pa, NEW t,
           NEW pq \in [QuotaPlans -> Quota!PlanQuota \cup {None}],
           NEW v, v = None \/ v \in Quota!Override
    PROVE  Quota!LimitBy(a, s, pa, pq, v, t) \in Quota!Optional(Limits)
<1>1. (IF s = None THEN None ELSE pq[s.plan]) \in Quota!PlanQuota \cup {None}
  BY DEF Quota!Subscription
<1> QED
  BY <1>1, LimitTypes DEF Quota!LimitBy

\* EffectiveQuota: what has read the rows as they are would answer the limit in
\* force.
LEMMA Agreement ==
    ASSUME NEW r \in Quota!Call, r.next # "nothing", r.next \in {"plan", "quota"} => r.row # None,
           NEW a, NEW s, NEW pa, NEW pq, NEW v, Agrees(r, a, s, pa, pq)
    PROVE  Completion(r, a, s, pa, pq, v) = Quota!LimitBy(a, s, pa, pq, v, r.at)
<1>1. r.next \in {"organization", "subscription", "plan", "quota", "override"}
  BY DEF Quota!Call, Quota!Rows
<1>2. CASE r.next \in {"organization", "subscription"}
  BY <1>2 DEF Agrees, Completion, Quota!LimitBy, Quota!Effective
<1>3. CASE r.next = "plan"
  BY <1>3 DEF Agrees, Completion, Quota!LimitBy, Quota!Effective
<1>4. CASE r.next = "quota"
  BY <1>4 DEF Agrees, Completion, Quota!LimitBy, Quota!Effective
<1>5. CASE r.next = "override"
  <2>1. CASE r.row = None
    BY <1>5, <2>1 DEF Agrees, Completion, Quota!LimitBy, Quota!Effective
  <2>2. CASE r.row # None
    BY <1>5, <2>2 DEF Agrees, Completion, Quota!LimitBy, Quota!Effective
  <2> QED
    BY <2>1, <2>2
<1> QED
  BY <1>1, <1>2, <1>3, <1>4, <1>5

\* EffectiveQuota: an enforced limit is one of its two rows'.
LEMMA LimitFromRows ==
    ASSUME NEW e, NEW p, NEW v, NEW S,
           p # None => p.hard \subseteq S, v # None => v.hard \subseteq S
    PROVE  Quota!Effective(e, p, v) \subseteq S
  BY DEF Quota!Effective

\* EffectiveQuota: reading the rows writes none.
LEMMA ReaderKeeps ==
    ASSUME QuotaInv, NEW c \in Resolutions, NEW r \in Quota!Call \cup {None},
           UNCHANGED <<active, subscription, planActive, planQuota, limitOverride, limitVersion, day,
                       changes, change>>,
           resolution' = [resolution EXCEPT ![c] = r], r # None => Answerable(r)
    PROVE  QuotaInv'
<1>1. resolution' \in [Resolutions -> Quota!Call \cup {None}]
  BY DEF QuotaInv, Quota!EffectiveTypeOK
<1>2. Quota!EffectiveTypeOK'
  BY <1>1 DEF QuotaInv, Quota!EffectiveTypeOK
<1>3. ASSUME NEW d \in Resolutions, resolution'[d] # None PROVE Answerable(resolution[d])'
  <2>1. resolution'[d] = r \/ resolution'[d] = resolution[d]
    BY DEF QuotaInv, Quota!EffectiveTypeOK
  <2>2. Answerable(resolution'[d])
    BY <1>3, <2>1 DEF QuotaInv
  <2>3. Quota!Configured' = Quota!Configured
    BY DEF Quota!Configured
  <2>4. PICK s : s = resolution'[d]
    OBVIOUS
  <2> QED
    BY <2>2, <2>3, <2>4 DEF Answerable, Completed, AgreesNow, Completion, Agrees, Quota!LimitBy, Quota!InTerm
<1>4. Selecting'
  BY DEF QuotaInv, Selecting
<1> QED
  BY <1>2, <1>3, <1>4 DEF QuotaInv

\* The rows a change writes, of these plans if it is of plans.
Writes(row, plans) ==
    /\ row # "organization" => active' = active
    /\ row # "subscription" => subscription' = subscription
    /\ row # "plan" => planActive' = planActive
    /\ row # "quota" => planQuota' = planQuota
    /\ row # "override" => limitOverride' = limitOverride
    /\ row = "plan" => \A p \in QuotaPlans : p \notin plans => planActive'[p] = planActive[p]
    /\ row = "quota" => \A p \in QuotaPlans : p \notin plans => planQuota'[p] = planQuota[p]

\* The same, after a step.
CompletedNext(r) == Completion(r, active', subscription', planActive', planQuota', limitOverride')
AgreesNext(r) == Agrees(r, active', subscription', planActive', planQuota')

\* EffectiveQuota: a change of rows a resolution has read leaves what it would
\* answer; one of rows it has not, or of another plan's, leaves them read as
\* they are.
LEMMA ChangeOfRows ==
    ASSUME NEW r \in Quota!Call, r.next # "nothing", NEW row \in Quota!Rows, NEW plans, Writes(row, plans)
    PROVE  /\ row \in Quota!Before(r.next) => CompletedNext(r) = Completed(r)
           /\ row \notin Quota!Before(r.next) /\ AgreesNow(r) => AgreesNext(r)
           /\ ~Quota!Touches(r, row, plans) /\ AgreesNow(r) => AgreesNext(r)
<1> USE DEF Writes, Completed, CompletedNext, AgreesNow, AgreesNext
<1>1. r.next \in {"organization", "subscription", "plan", "quota", "override"}
  BY DEF Quota!Call, Quota!Rows
<1>2. row \in {"organization", "subscription", "plan", "quota", "override"}
  BY DEF Quota!Rows
<1>3. r.row # None => r.row.plan \in QuotaPlans
  BY DEF Quota!Call, Quota!Subscription
<1>4. CASE r.next = "organization"
  BY <1>2, <1>4 DEF Completion, Agrees, Quota!Before, Quota!Touches
<1>5. CASE r.next = "subscription"
  <2>1. CASE row = "organization"
    BY <1>5, <2>1 DEF Completion, Agrees, Quota!Before, Quota!Touches
  <2>2. CASE row # "organization"
    BY <1>2, <1>5, <2>2 DEF Agrees, Quota!Before
  <2> QED
    BY <2>1, <2>2
<1>6. CASE r.next = "plan"
  BY <1>2, <1>6 DEF Completion, Agrees, Quota!Before, Quota!Touches
<1>7. CASE r.next = "quota"
  BY <1>2, <1>3, <1>7 DEF Completion, Agrees, Quota!Before, Quota!Touches
<1>8. CASE r.next = "override"
  BY <1>2, <1>3, <1>8 DEF Completion, Agrees, Quota!Before, Quota!Touches, Quota!Rows
<1> QED
  BY <1>1, <1>4, <1>5, <1>6, <1>7, <1>8

\* EffectiveQuota: a change of one kind of rows, which every resolution under
\* way sees.
LEMMA ChangeKeeps ==
    ASSUME QuotaInv, NEW row \in Quota!Rows, NEW plans, Quota!Change(row, plans),
           active' \in BOOLEAN, subscription' \in Quota!Subscription \cup {None},
           planActive' \in [QuotaPlans -> BOOLEAN],
           planQuota' \in [QuotaPlans -> Quota!PlanQuota \cup {None}],
           limitOverride' \in Quota!Override \cup {None}, limitVersion' \in Nat,
           change' \in [Operators -> Quota!Request \cup {None}], Selecting',
           Writes(row, plans)
    PROVE  QuotaInv'
<1>1. PICK cf2 : cf2 = Quota!Configured'
  OBVIOUS
<1>2. cf2 \in SUBSET Limits
  BY <1>1 DEF Quota!Configured
<1>3. ASSUME NEW c \in Resolutions
      PROVE  /\ resolution'[c] \in Quota!Call \cup {None}
             /\ resolution'[c] # None => Answerable(resolution[c])'
  <2>1. PICK r : r = resolution[c]
    OBVIOUS
  <2>2. CASE r = None \/ r.next = "nothing"
    <3>1. resolution'[c] = r
      BY <2>1, <2>2 DEF Quota!Change
    <3>2. r # None => Answerable(r) /\ r.next = "nothing"
      BY <2>1, <2>2 DEF QuotaInv
    <3>3. (r \in Quota!Call \cup {None}) /\ (r # None => Answerable(resolution[c])')
      BY <2>1, <3>1, <3>2 DEF QuotaInv, Quota!EffectiveTypeOK, Answerable, Completed, Completion
    <3> QED
      BY <3>1, <3>3
  <2>3. CASE r # None /\ r.next # "nothing"
    <3>1. r \in Quota!Call /\ Answerable(r)
      BY <2>1, <2>3 DEF QuotaInv, Quota!EffectiveTypeOK
    <3>2. PICK lim : lim = Quota!LimitBy(active', subscription', planActive', planQuota', limitOverride', r.at)
      OBVIOUS
    <3>3. lim \in Quota!Optional(Limits)
      BY <3>2, LimitByTypes
    <3>4. PICK k \in SUBSET Quota!Optional(Limits), f \in SUBSET Limits, x \in BOOLEAN, m \in BOOLEAN :
            /\ k = r.known \cup {lim}
            /\ f = r.configured \cup cf2
            /\ x = (r.stale \/ Quota!Touches(r, row, plans))
            /\ m = (r.mixed \/ (r.stale /\ row \notin Quota!Before(r.next)))
      <4>1. r.known \cup {lim} \in SUBSET Quota!Optional(Limits) /\ r.configured \cup cf2 \in SUBSET Limits
        BY <1>2, <3>1, <3>3 DEF Quota!Call
      <4>2. (r.stale \/ Quota!Touches(r, row, plans)) \in BOOLEAN
            /\ (r.mixed \/ (r.stale /\ row \notin Quota!Before(r.next))) \in BOOLEAN
        OBVIOUS
      <4> QED
        BY <4>1, <4>2
    <3>5. PICK s : /\ s = [r EXCEPT !.known = k, !.configured = f, !.stale = x, !.mixed = m]
                   /\ resolution'[c] = s
      BY <1>1, <2>1, <2>3, <3>2, <3>4 DEF Quota!Change
    <3>6. /\ s \in Quota!Call /\ s.known = k /\ s.configured = f /\ s.stale = x /\ s.mixed = m
          /\ s.next = r.next /\ s.at = r.at /\ s.row = r.row /\ s.planActive = r.planActive
          /\ s.quota = r.quota /\ s.limit = r.limit
      BY <3>1, <3>5 DEF Quota!Call
    <3>7. CompletedNext(s) = CompletedNext(r) /\ (AgreesNext(s) <=> AgreesNext(r))
      BY <3>6 DEF Completion, Agrees, CompletedNext, AgreesNext
    <3>8. /\ r.next \in {"plan", "quota"} => r.row # None
          /\ ~r.mixed => Completed(r) \in r.known
          /\ ~r.stale => AgreesNow(r)
          /\ r.quota # None => r.quota.hard \subseteq r.configured
          /\ r.limit = {}
      BY <2>3, <3>1 DEF Answerable
    <3>10. /\ row \in Quota!Before(r.next) => CompletedNext(r) = Completed(r)
           /\ row \notin Quota!Before(r.next) /\ AgreesNow(r) => AgreesNext(r)
           /\ ~Quota!Touches(r, row, plans) /\ AgreesNow(r) => AgreesNext(r)
      BY <2>3, <3>1, ChangeOfRows
    <3>12. ~s.stale => AgreesNext(s)
      BY <3>4, <3>6, <3>7, <3>8, <3>10
    <3>13. ASSUME ~s.mixed PROVE CompletedNext(s) \in s.known
      <4>1. ~r.mixed /\ (~r.stale \/ row \in Quota!Before(r.next))
        BY <3>4, <3>6, <3>13
      <4>2. CASE row \in Quota!Before(r.next)
        BY <3>4, <3>6, <3>7, <3>8, <3>10, <4>1, <4>2
      <4>3. CASE row \notin Quota!Before(r.next)
        <5>1. AgreesNext(r)
          BY <3>8, <3>10, <4>1, <4>3
        <5>2. CompletedNext(r) = lim
          BY <2>3, <3>1, <3>2, <3>8, <5>1, Agreement DEF AgreesNext, CompletedNext
        <5> QED
          BY <3>4, <3>6, <3>7, <5>2
      <4> QED
        BY <4>2, <4>3
    <3>14. cf2 \subseteq s.configured /\ (s.quota # None => s.quota.hard \subseteq s.configured)
           /\ s.next # "nothing" /\ s.limit = {} /\ (s.next \in {"plan", "quota"} => s.row # None)
      BY <2>3, <3>4, <3>6, <3>8
    <3>15. Answerable(resolution[c])'
      BY <1>1, <3>5, <3>12, <3>13, <3>14 DEF Answerable, Completed, AgreesNow, CompletedNext, AgreesNext
    <3> QED
      BY <3>5, <3>6, <3>15
  <2> QED
    BY <2>2, <2>3
<1>4. resolution' \in [Resolutions -> Quota!Call \cup {None}]
  BY <1>3 DEF Quota!Change
<1>5. changes' \in 0 .. MaxChanges /\ day' \in 0 .. MaxDay
  <2>1. changes \in 0 .. MaxChanges /\ day \in 0 .. MaxDay
    BY DEF QuotaInv, Quota!EffectiveTypeOK
  <2>2. changes < MaxChanges /\ changes' = changes + 1 /\ day' = day
    BY DEF Quota!Change
  <2>3. MaxChanges \in Nat
    BY LimitsAssumption DEF Quota!EffectiveAssumption
  <2> QED
    BY <2>1, <2>2, <2>3
<1>6. Quota!EffectiveTypeOK'
  BY <1>4, <1>5 DEF Quota!EffectiveTypeOK
<1> QED
  BY <1>3, <1>6 DEF QuotaInv

\* EffectiveQuota: what leaves the rows and the resolutions.
LEMMA RestKeeps ==
    ASSUME QuotaInv,
           UNCHANGED <<active, subscription, planActive, planQuota, limitOverride, limitVersion,
                       changes, resolution>>,
           day' \in 0 .. MaxDay, change' \in [Operators -> Quota!Request \cup {None}], Selecting'
    PROVE  QuotaInv'
<1>1. Quota!Configured' = Quota!Configured
  BY DEF Quota!Configured
<1>2. ASSUME NEW c \in Resolutions, resolution'[c] # None PROVE Answerable(resolution[c])'
  <2>1. PICK r : r = resolution[c] /\ Answerable(r)
    BY <1>2 DEF QuotaInv
  <2> QED
    BY <1>1, <2>1 DEF Answerable, Completed, AgreesNow, Completion, Agrees, Quota!LimitBy, Quota!InTerm
<1>3. Quota!EffectiveTypeOK'
  BY DEF QuotaInv, Quota!EffectiveTypeOK
<1> QED
  BY <1>2, <1>3 DEF QuotaInv

\* EffectiveQuota: the initial state, with nothing under way.
LEMMA QuotaInit == Quota!EffectiveInit => QuotaInv
<1>1. ASSUME Quota!EffectiveInit PROVE QuotaInv
  <2>1. planQuota \in [QuotaPlans -> Quota!PlanQuota \cup {None}]
    BY <1>1 DEF Quota!EffectiveInit
  <2>2. MaxChanges \in Nat /\ MaxDay \in Nat
    BY LimitsAssumption DEF Quota!EffectiveAssumption
  <2>3. Quota!EffectiveTypeOK
    BY <1>1, <2>1, <2>2 DEF Quota!EffectiveInit, Quota!EffectiveTypeOK
  <2> QED
    BY <1>1, <2>3 DEF Quota!EffectiveInit, QuotaInv, Selecting
<1> QED
  BY <1>1

\* EffectiveQuota: a plan's quota, or whether it is active, as a change has it.
LEMMA RequestTypes ==
    ASSUME NEW q \in Quota!Request
    PROVE  /\ q.plan \in QuotaPlans /\ q.selected \in BOOLEAN /\ q.subscribed \in BOOLEAN
           /\ q.what = "quota" => q.quota \in Quota!PlanQuota
           /\ q.what = "plan" => q.isActive \in BOOLEAN
  BY DEF Quota!Request

\* EffectiveQuota: each statement of a resolution.
LEMMA ReaderStep ==
    ASSUME QuotaInv, NEW c \in Resolutions,
           \/ Quota!Begin(c) \/ Quota!ReadOrganization(c) \/ Quota!ReadSubscription(c)
           \/ Quota!ReadPlan(c) \/ Quota!ReadQuota(c) \/ Quota!ReadOverride(c) \/ Quota!Use(c)
    PROVE  QuotaInv'
<1>0. /\ active \in BOOLEAN /\ subscription \in Quota!Subscription \cup {None}
      /\ planActive \in [QuotaPlans -> BOOLEAN]
      /\ planQuota \in [QuotaPlans -> Quota!PlanQuota \cup {None}]
      /\ limitOverride \in Quota!Override \cup {None} /\ day \in 0 .. MaxDay
      /\ resolution \in [Resolutions -> Quota!Call \cup {None}]
  BY DEF QuotaInv, Quota!EffectiveTypeOK
<1>1. ASSUME NEW next, Quota!Reads(c, next)
      PROVE  /\ resolution[c] \in Quota!Call /\ resolution[c].next = next
             /\ Answerable(resolution[c])
  BY <1>0, <1>1 DEF Quota!Reads, QuotaInv
<1>2. CASE Quota!Begin(c)
  <2>1. PICK lim : lim = Quota!LimitBy(active, subscription, planActive, planQuota, limitOverride, day)
    OBVIOUS
  <2>2. lim \in Quota!Optional(Limits)
    BY <1>0, <2>1, LimitByTypes
  <2>3. PICK f \in SUBSET Limits : f = Quota!Configured
    BY DEF Quota!Configured
  <2>4. PICK r : r = [next |-> "organization", at |-> day, row |-> None, planActive |-> FALSE,
                      quota |-> None, limit |-> {}, known |-> {lim}, configured |-> f,
                      stale |-> FALSE, mixed |-> FALSE]
    OBVIOUS
  <2>5. r \in Quota!Call
    BY <1>0, <2>2, <2>4 DEF Quota!Call, Quota!Optional, Quota!Rows
  <2>6. Answerable(r)
    BY <2>1, <2>3, <2>4 DEF Answerable, Completed, AgreesNow, Completion, Agrees
  <2>7. resolution' = [resolution EXCEPT ![c] = r]
        /\ UNCHANGED <<active, subscription, planActive, planQuota, limitOverride, limitVersion, day,
                       changes, change>>
    BY <1>2, <2>1, <2>3, <2>4 DEF Quota!Begin, Quota!InForce, Quota!Rest
  <2> QED
    BY <2>5, <2>6, <2>7, ReaderKeeps
<1>3. CASE Quota!ReadOrganization(c)
  <2>1. PICK r \in Quota!Call : r = resolution[c] /\ r.next = "organization" /\ Answerable(r)
    BY <1>1, <1>3 DEF Quota!ReadOrganization
  <2>0. PICK next \in {"subscription", "nothing"} : next = IF active THEN "subscription" ELSE "nothing"
    OBVIOUS
  <2>2. PICK s : s = [r EXCEPT !.next = next]
    OBVIOUS
  <2>3. /\ s \in Quota!Call /\ s.next = next
        /\ s.at = r.at /\ s.row = r.row /\ s.planActive = r.planActive /\ s.quota = r.quota
        /\ s.limit = r.limit /\ s.known = r.known /\ s.configured = r.configured
        /\ s.stale = r.stale /\ s.mixed = r.mixed
    BY <2>2 DEF Quota!Call, Quota!Rows
  <2>4. ASSUME active PROVE Answerable(s)
    <3>1. active = TRUE /\ s.next = "subscription"
      BY <1>0, <2>0, <2>3, <2>4
    <3>2. Completed(s) = Completed(r)
      BY <2>1, <2>3, <3>1 DEF Completed, Completion
    <3>3. AgreesNow(s)
      BY <3>1 DEF AgreesNow, Agrees
    <3> QED
      BY <2>1, <2>3, <3>1, <3>2, <3>3 DEF Answerable
  <2>5. ASSUME ~active PROVE Answerable(s)
    <3>1. Completed(r) = {}
      BY <2>1, <2>5 DEF Completed, Completion, Quota!LimitBy, Quota!Effective
    <3> QED
      BY <2>0, <2>1, <2>3, <2>5, <3>1 DEF Answerable, Completed, Completion
  <2>6. resolution' = [resolution EXCEPT ![c] = s]
        /\ UNCHANGED <<active, subscription, planActive, planQuota, limitOverride, limitVersion, day,
                       changes, change>>
    BY <1>0, <1>3, <2>0, <2>1, <2>2 DEF Quota!ReadOrganization, Quota!Rest
  <2>7. Answerable(s)
    BY <2>4, <2>5
  <2> QED
    BY <2>3, <2>6, <2>7, ReaderKeeps
<1>4. CASE Quota!ReadSubscription(c)
  <2>1. PICK r \in Quota!Call : r = resolution[c] /\ r.next = "subscription" /\ Answerable(r)
    BY <1>1, <1>4 DEF Quota!ReadSubscription
  <2>2. PICK t \in Quota!Subscription \cup {None} : t = subscription
    BY <1>0
  <2>3. PICK next \in {"plan", "override"} : next = IF t = None THEN "override" ELSE "plan"
    OBVIOUS
  <2>4. PICK s : s = [r EXCEPT !.row = t, !.next = next]
    OBVIOUS
  <2>5. /\ s \in Quota!Call /\ s.next = next /\ s.row = t
        /\ s.at = r.at /\ s.planActive = r.planActive /\ s.quota = r.quota
        /\ s.limit = r.limit /\ s.known = r.known /\ s.configured = r.configured
        /\ s.stale = r.stale /\ s.mixed = r.mixed
    BY <2>4 DEF Quota!Call, Quota!Rows
  <2>6. Completed(s) = Completed(r)
    <3>1. CASE t = None
      BY <2>1, <2>2, <2>3, <2>5, <3>1 DEF Completed, Completion, Quota!LimitBy, Quota!Effective
    <3>2. CASE t # None
      BY <2>1, <2>2, <2>3, <2>5, <3>2 DEF Completed, Completion, Quota!LimitBy, Quota!Effective
    <3> QED
      BY <3>1, <3>2
  <2>7. AgreesNow(r) => AgreesNow(s)
    BY <2>1, <2>2, <2>3, <2>5 DEF AgreesNow, Agrees
  <2>8. Answerable(s)
    BY <2>1, <2>3, <2>5, <2>6, <2>7 DEF Answerable
  <2>9. resolution' = [resolution EXCEPT ![c] = s]
        /\ UNCHANGED <<active, subscription, planActive, planQuota, limitOverride, limitVersion, day,
                       changes, change>>
    BY <1>0, <1>4, <2>1, <2>2, <2>3, <2>4 DEF Quota!ReadSubscription, Quota!Rest
  <2> QED
    BY <2>5, <2>8, <2>9, ReaderKeeps
<1>5. CASE Quota!ReadPlan(c)
  <2>1. PICK r \in Quota!Call : r = resolution[c] /\ r.next = "plan" /\ Answerable(r)
    BY <1>1, <1>5 DEF Quota!ReadPlan
  <2>2. r.row # None /\ r.row.plan \in QuotaPlans
    BY <2>1 DEF Answerable, Quota!Call, Quota!Subscription
  <2>3. PICK b \in BOOLEAN : b = planActive[r.row.plan]
    BY <1>0, <2>2
  <2>4. PICK s : s = [r EXCEPT !.planActive = b, !.next = "quota"]
    OBVIOUS
  <2>5. /\ s \in Quota!Call /\ s.next = "quota" /\ s.planActive = b
        /\ s.at = r.at /\ s.row = r.row /\ s.quota = r.quota
        /\ s.limit = r.limit /\ s.known = r.known /\ s.configured = r.configured
        /\ s.stale = r.stale /\ s.mixed = r.mixed
    BY <2>4 DEF Quota!Call, Quota!Rows
  <2>6. Completed(s) = Completed(r)
    BY <2>1, <2>3, <2>5 DEF Completed, Completion
  <2>7. AgreesNow(r) => AgreesNow(s)
    BY <2>1, <2>3, <2>5 DEF AgreesNow, Agrees
  <2>8. Answerable(s)
    BY <2>1, <2>2, <2>5, <2>6, <2>7 DEF Answerable
  <2>9. resolution' = [resolution EXCEPT ![c] = s]
        /\ UNCHANGED <<active, subscription, planActive, planQuota, limitOverride, limitVersion, day,
                       changes, change>>
    BY <1>0, <1>5, <2>1, <2>3, <2>4 DEF Quota!ReadPlan, Quota!Rest
  <2> QED
    BY <2>5, <2>8, <2>9, ReaderKeeps
<1>6. CASE Quota!ReadQuota(c)
  <2>1. PICK r \in Quota!Call : r = resolution[c] /\ r.next = "quota" /\ Answerable(r)
    BY <1>1, <1>6 DEF Quota!ReadQuota
  <2>2. r.row # None /\ r.row.plan \in QuotaPlans
    BY <2>1 DEF Answerable, Quota!Call, Quota!Subscription
  <2>3. PICK q \in Quota!PlanQuota \cup {None} : q = planQuota[r.row.plan]
    BY <1>0, <2>2
  <2>4. PICK s : s = [r EXCEPT !.quota = q, !.next = "override"]
    OBVIOUS
  <2>5. /\ s \in Quota!Call /\ s.next = "override" /\ s.quota = q
        /\ s.at = r.at /\ s.row = r.row /\ s.planActive = r.planActive
        /\ s.limit = r.limit /\ s.known = r.known /\ s.configured = r.configured
        /\ s.stale = r.stale /\ s.mixed = r.mixed
    BY <2>4 DEF Quota!Call, Quota!Rows
  <2>6. Completed(s) = Completed(r)
    BY <2>1, <2>2, <2>3, <2>5 DEF Completed, Completion, Quota!Effective
  <2>7. AgreesNow(r) => AgreesNow(s)
    BY <2>1, <2>3, <2>5 DEF AgreesNow, Agrees
  <2>8. q # None => q.hard \subseteq r.configured
    <3>1. Quota!Configured \subseteq r.configured
      BY <2>1 DEF Answerable
    <3>2. q # None => q.hard \subseteq Limits
      BY DEF Quota!PlanQuota, Quota!Optional
    <3> QED
      BY <2>2, <2>3, <3>1, <3>2 DEF Quota!Configured
  <2>9. Answerable(s)
    BY <2>1, <2>2, <2>5, <2>6, <2>7, <2>8 DEF Answerable
  <2>10. resolution' = [resolution EXCEPT ![c] = s]
        /\ UNCHANGED <<active, subscription, planActive, planQuota, limitOverride, limitVersion, day,
                       changes, change>>
    BY <1>0, <1>6, <2>1, <2>3, <2>4 DEF Quota!ReadQuota, Quota!Rest
  <2> QED
    BY <2>5, <2>9, <2>10, ReaderKeeps
<1>7. CASE Quota!ReadOverride(c)
  <2>1. PICK r \in Quota!Call : r = resolution[c] /\ r.next = "override" /\ Answerable(r)
    BY <1>1, <1>7 DEF Quota!ReadOverride
  <2>2. PICK l : l = Quota!Effective(r.row # None /\ Quota!InTerm(r.row, r.planActive, r.at),
                                     r.quota, limitOverride)
    OBVIOUS
  <2>3. l \in Quota!Optional(Limits)
    BY <1>0, <2>2, LimitTypes DEF Quota!Call
  <2>4. PICK s : s = [r EXCEPT !.next = "nothing", !.limit = l]
    OBVIOUS
  <2>5. /\ s \in Quota!Call /\ s.next = "nothing" /\ s.limit = l
        /\ s.known = r.known /\ s.configured = r.configured /\ s.mixed = r.mixed
    BY <2>3, <2>4 DEF Quota!Call, Quota!Rows
  <2>6. Completed(s) = Completed(r)
    BY <2>1, <2>2, <2>5 DEF Completed, Completion
  <2>7. l \subseteq r.configured
    <3>1. Quota!Configured \subseteq r.configured /\ (r.quota # None => r.quota.hard \subseteq r.configured)
      BY <2>1 DEF Answerable
    <3>2. limitOverride # None => limitOverride.hard \subseteq Limits
      BY <1>0 DEF Quota!Override, Quota!Optional
    <3>3. limitOverride # None => limitOverride.hard \subseteq r.configured
      BY <3>1, <3>2 DEF Quota!Configured
    <3> QED
      BY <2>2, <3>1, <3>3, LimitFromRows
  <2>8. Answerable(s)
    BY <2>1, <2>5, <2>6, <2>7 DEF Answerable
  <2>9. resolution' = [resolution EXCEPT ![c] = s]
        /\ UNCHANGED <<active, subscription, planActive, planQuota, limitOverride, limitVersion, day,
                       changes, change>>
    BY <1>0, <1>7, <2>1, <2>2, <2>4 DEF Quota!ReadOverride, Quota!Rest
  <2> QED
    BY <2>5, <2>8, <2>9, ReaderKeeps
<1>8. CASE Quota!Use(c)
  <2>1. resolution' = [resolution EXCEPT ![c] = None]
        /\ UNCHANGED <<active, subscription, planActive, planQuota, limitOverride, limitVersion, day,
                       changes, change>>
    BY <1>8 DEF Quota!Use, Quota!Rest
  <2> QED
    BY <2>1, ReaderKeeps
<1> QED
  BY <1>2, <1>3, <1>4, <1>5, <1>6, <1>7, <1>8

\* EffectiveQuota: each statement of a resolution, and each change, keeps it.
LEMMA QuotaStep == QuotaInv /\ [Quota!EffectiveNext]_(Quota!quotaVars) => QuotaInv'
<1> SUFFICES ASSUME QuotaInv, [Quota!EffectiveNext]_(Quota!quotaVars) PROVE QuotaInv'
  OBVIOUS
<1>0. /\ active \in BOOLEAN /\ subscription \in Quota!Subscription \cup {None}
      /\ planActive \in [QuotaPlans -> BOOLEAN]
      /\ planQuota \in [QuotaPlans -> Quota!PlanQuota \cup {None}]
      /\ limitOverride \in Quota!Override \cup {None} /\ limitVersion \in Nat /\ day \in 0 .. MaxDay
      /\ change \in [Operators -> Quota!Request \cup {None}]
      /\ Selecting
  BY DEF QuotaInv, Quota!EffectiveTypeOK
<1>1. {"organization", "subscription", "plan", "quota", "override"} = Quota!Rows
  BY DEF Quota!Rows
<1>2. ASSUME NEW c \in Resolutions,
             \/ Quota!Begin(c) \/ Quota!ReadOrganization(c) \/ Quota!ReadSubscription(c)
             \/ Quota!ReadPlan(c) \/ Quota!ReadQuota(c) \/ Quota!ReadOverride(c) \/ Quota!Use(c)
      PROVE QuotaInv'
  BY <1>2, ReaderStep
<1>3. ASSUME NEW o \in Operators, NEW p \in QuotaPlans, Quota!SelectSubscribers(o, p) PROVE QuotaInv'
  <2>1. PICK b \in BOOLEAN : b = Quota!Subscribes(p)
    BY DEF Quota!Subscribes
  <2>2. PICK q \in Quota!Request : q.selected = q.subscribed /\ change' = [change EXCEPT ![o] = q]
    <3>1. CASE \E q \in Quota!PlanQuota :
                 change' = [change EXCEPT ![o] = [what |-> "quota", plan |-> p, quota |-> q,
                                                  selected |-> b, subscribed |-> b]]
      BY <3>1 DEF Quota!Request
    <3>2. CASE \E f \in BOOLEAN :
                 change' = [change EXCEPT ![o] = [what |-> "plan", plan |-> p, isActive |-> f,
                                                  selected |-> b, subscribed |-> b]]
      BY <3>2 DEF Quota!Request
    <3> QED
      BY <1>3, <2>1, <3>1, <3>2 DEF Quota!SelectSubscribers
  <2>3. change' \in [Operators -> Quota!Request \cup {None}] /\ Selecting'
    BY <1>0, <2>2 DEF Selecting
  <2> QED
    BY <1>0, <1>3, <2>3, RestKeeps DEF Quota!SelectSubscribers, Quota!Reading
<1>4. ASSUME NEW o \in Operators, change' = [change EXCEPT ![o] = None]
      PROVE  change' \in [Operators -> Quota!Request \cup {None}] /\ Selecting'
  BY <1>0, <1>4 DEF Selecting
<1>5. ASSUME NEW o \in Operators, Quota!SetPlanQuota(o) PROVE QuotaInv'
  <2>1. PICK q \in Quota!Request : q = change[o] /\ q.what = "quota"
    BY <1>0, <1>5 DEF Quota!SetPlanQuota
  <2>2. /\ planQuota' = [planQuota EXCEPT ![q.plan] = q.quota]
        /\ limitVersion' = IF q.selected THEN limitVersion + 1 ELSE limitVersion
        /\ change' = [change EXCEPT ![o] = None]
        /\ UNCHANGED <<active, subscription, planActive, limitOverride>>
        /\ Quota!Change("quota", {q.plan})
    BY <1>5, <2>1 DEF Quota!SetPlanQuota
  <2>3. planQuota' \in [QuotaPlans -> Quota!PlanQuota \cup {None}] /\ limitVersion' \in Nat
    BY <1>0, <2>1, <2>2, RequestTypes
  <2>4. Writes("quota", {q.plan})
    BY <1>0, <2>2 DEF Writes
  <2> QED
    BY <1>0, <1>1, <1>4, <2>2, <2>3, <2>4, ChangeKeeps
<1>6. ASSUME NEW o \in Operators, Quota!UpdatePlan(o) PROVE QuotaInv'
  <2>1. PICK q \in Quota!Request : q = change[o] /\ q.what = "plan"
    BY <1>0, <1>6 DEF Quota!UpdatePlan
  <2>2. /\ planActive' = [planActive EXCEPT ![q.plan] = q.isActive]
        /\ limitVersion' = IF q.selected THEN limitVersion + 1 ELSE limitVersion
        /\ change' = [change EXCEPT ![o] = None]
        /\ UNCHANGED <<active, subscription, planQuota, limitOverride>>
        /\ Quota!Change("plan", {q.plan})
    BY <1>6, <2>1 DEF Quota!UpdatePlan
  <2>3. planActive' \in [QuotaPlans -> BOOLEAN] /\ limitVersion' \in Nat
    BY <1>0, <2>1, <2>2, RequestTypes
  <2>4. Writes("plan", {q.plan})
    BY <1>0, <2>2 DEF Writes
  <2> QED
    BY <1>0, <1>1, <1>4, <2>2, <2>3, <2>4, ChangeKeeps
<1>7. ASSUME NEW o \in Operators, Quota!GiveUp(o) PROVE QuotaInv'
  BY <1>0, <1>4, <1>7, RestKeeps DEF Quota!GiveUp
<1>8. change' = change => Selecting'
  BY <1>0 DEF Selecting
<1>9. CASE Quota!SetOverride
  <2>1. limitOverride' \in Quota!Override
    BY <1>0, <1>9 DEF Quota!SetOverride, Quota!Override, Quota!Optional
  <2>2. UNCHANGED <<active, subscription, planActive, planQuota, change>> /\ limitVersion' = limitVersion + 1
        /\ Quota!Change("override", {})
    BY <1>9 DEF Quota!SetOverride
  <2>3. Writes("override", {})
    BY <2>2 DEF Writes
  <2>4. limitOverride' \in Quota!Override \cup {None} /\ limitVersion' \in Nat /\ Selecting'
    BY <1>0, <1>8, <2>1, <2>2
  <2> QED
    BY <1>0, <1>1, <2>2, <2>3, <2>4, ChangeKeeps
<1>10. CASE Quota!RemoveOverride
  <2>2. UNCHANGED <<active, subscription, planActive, planQuota, change>> /\ limitVersion' = limitVersion + 1
        /\ limitOverride' = None /\ Quota!Change("override", {})
    BY <1>10 DEF Quota!RemoveOverride
  <2>3. Writes("override", {})
    BY <2>2 DEF Writes
  <2> QED
    BY <1>0, <1>1, <1>8, <2>2, <2>3, ChangeKeeps
<1>11. CASE Quota!Bootstrap
  <2>1. PICK missing, q : missing = {p \in QuotaPlans : planQuota[p] = None}
                          /\ q = [enabled |-> FALSE, unlimited |-> FALSE, hard |-> {}]
    OBVIOUS
  <2>2. q \in Quota!PlanQuota
    BY <2>1 DEF Quota!PlanQuota, Quota!Optional
  <2>3. /\ UNCHANGED <<active, subscription, planActive, limitOverride, limitVersion, change>>
        /\ planQuota' = [p \in QuotaPlans |-> IF p \in missing THEN q ELSE planQuota[p]]
        /\ Quota!Change("quota", missing)
    BY <1>11, <2>1 DEF Quota!Bootstrap
  <2>4. planQuota' \in [QuotaPlans -> Quota!PlanQuota \cup {None}]
    BY <1>0, <2>2, <2>3
  <2>5. Writes("quota", missing)
    BY <2>3 DEF Writes
  <2> QED
    BY <1>0, <1>1, <1>8, <2>3, <2>4, <2>5, ChangeKeeps
<1>12. CASE Quota!ChangeAccount
  <2>1. UNCHANGED <<planActive, planQuota, limitOverride, change>>
    BY <1>12 DEF Quota!ChangeAccount
  <2>2. CASE active' = ~active /\ UNCHANGED <<subscription, limitVersion>> /\ Quota!Change("organization", {})
    <3>1. Writes("organization", {}) /\ active' \in BOOLEAN
      BY <1>0, <2>1, <2>2 DEF Writes
    <3> QED
      BY <1>0, <1>1, <1>8, <2>1, <2>2, <3>1, ChangeKeeps
  <2>3. CASE /\ subscription' \in (Quota!Subscription \cup {None}) \ {subscription}
             /\ limitVersion' = limitVersion + 1 /\ UNCHANGED active /\ Quota!Change("subscription", {})
    <3>1. Writes("subscription", {}) /\ limitVersion' \in Nat
      BY <1>0, <2>1, <2>3 DEF Writes
    <3> QED
      BY <1>0, <1>1, <1>8, <2>1, <2>3, <3>1, ChangeKeeps
  <2> QED
    BY <1>12, <2>2, <2>3 DEF Quota!ChangeAccount
<1>13. CASE Quota!Tick
  <2>1. day' \in 0 .. MaxDay
    BY <1>0, <1>13, LimitsAssumption DEF Quota!Tick, Quota!EffectiveAssumption
  <2> QED
    BY <1>0, <1>8, <1>13, <2>1, RestKeeps DEF Quota!Tick
<1>14. CASE UNCHANGED Quota!quotaVars
  BY <1>0, <1>8, <1>14, RestKeeps DEF Quota!quotaVars
<1> QED
  BY <1>2, <1>3, <1>5, <1>6, <1>7, <1>9, <1>10, <1>11, <1>12, <1>13, <1>14 DEF Quota!EffectiveNext

\* EffectiveQuota: plans without a quota enforce nothing, as the bootstrap's do.
LEMMA BootstrapIsNoLimit ==
    ASSUME NEW e, NEW v, v = None \/ v \in Quota!Override
    PROVE  Quota!Effective(e, [enabled |-> FALSE, unlimited |-> FALSE, hard |-> {}], v)
             = Quota!Effective(e, None, v)
<1>1. PICK q : q = [enabled |-> FALSE, unlimited |-> FALSE, hard |-> {}]
  OBVIOUS
<1>2. CASE q = None
  BY <1>1, <1>2
<1>3. CASE q # None
  BY <1>1, <1>3 DEF Quota!Effective, Quota!Merged, Quota!Override
<1> QED
  BY <1>2, <1>3

\* EffectiveQuota: whoever moves the limit of an active organization writes a
\* version, but a change of a plan that overlooks it: plans that nobody
\* subscribes to move none, and the bootstrap only writes what had been assumed.
LEMMA LimitStep ==
    ASSUME QuotaInv, [Quota!EffectiveNext]_(Quota!quotaVars),
           Quota!InForce(day)' # Quota!InForce(day), day' = day, active' = active
    PROVE  limitVersion' > limitVersion \/ Quota!Overlooks
<1>0. /\ active \in BOOLEAN /\ subscription \in Quota!Subscription \cup {None}
      /\ planActive \in [QuotaPlans -> BOOLEAN]
      /\ planQuota \in [QuotaPlans -> Quota!PlanQuota \cup {None}]
      /\ limitOverride \in Quota!Override \cup {None} /\ limitVersion \in Nat /\ day \in 0 .. MaxDay
      /\ change \in [Operators -> Quota!Request \cup {None}]
      /\ Selecting
  BY DEF QuotaInv, Quota!EffectiveTypeOK
<1>1. ~(UNCHANGED <<active, subscription, planActive, planQuota, limitOverride>>)
  BY DEF Quota!InForce, Quota!LimitBy, Quota!InTerm
<1>2. ASSUME NEW p \in QuotaPlans, UNCHANGED <<subscription, limitOverride>>,
             \A x \in QuotaPlans : x # p => planActive'[x] = planActive[x] /\ planQuota'[x] = planQuota[x]
      PROVE  Quota!Subscribes(p)
  <2>1. CASE subscription = None
    BY <1>2, <2>1 DEF Quota!InForce, Quota!LimitBy, Quota!InTerm, Quota!Effective
  <2>2. CASE subscription # None /\ subscription.plan # p
    <3>1. subscription.plan \in QuotaPlans
      BY <1>0, <2>2 DEF Quota!Subscription
    <3>2. planActive'[subscription.plan] = planActive[subscription.plan]
          /\ planQuota'[subscription.plan] = planQuota[subscription.plan]
      BY <1>2, <2>2, <3>1
    <3> QED
      BY <1>2, <2>2, <3>2 DEF Quota!InForce, Quota!LimitBy, Quota!InTerm
  <2> QED
    BY <2>1, <2>2 DEF Quota!Subscribes
<1>3. ASSUME NEW o \in Operators, change[o] # None, change' = [change EXCEPT ![o] = None],
             Quota!Subscribes(change[o].plan),
             limitVersion' = IF change[o].selected THEN limitVersion + 1 ELSE limitVersion
      PROVE  limitVersion' > limitVersion \/ Quota!Overlooks
  <2>1. change[o].selected = change[o].subscribed /\ change[o].subscribed \in BOOLEAN
    BY <1>0, <1>3, RequestTypes DEF Selecting
  <2>2. CASE change[o].selected
    BY <1>0, <1>3, <2>2
  <2>3. CASE ~change[o].subscribed
    BY <1>0, <1>3, <2>3 DEF Quota!Overlooks
  <2> QED
    BY <2>1, <2>2, <2>3
<1>4. ASSUME NEW o \in Operators, Quota!SetPlanQuota(o)
      PROVE  limitVersion' > limitVersion \/ Quota!Overlooks
  <2>1. change[o].plan \in QuotaPlans
    BY <1>0, <1>4, RequestTypes DEF Quota!SetPlanQuota
  <2>2. Quota!Subscribes(change[o].plan)
    BY <1>0, <1>2, <1>4, <2>1 DEF Quota!SetPlanQuota
  <2> QED
    BY <1>3, <1>4, <2>2 DEF Quota!SetPlanQuota
<1>5. ASSUME NEW o \in Operators, Quota!UpdatePlan(o)
      PROVE  limitVersion' > limitVersion \/ Quota!Overlooks
  <2>1. change[o].plan \in QuotaPlans
    BY <1>0, <1>5, RequestTypes DEF Quota!UpdatePlan
  <2>2. Quota!Subscribes(change[o].plan)
    BY <1>0, <1>2, <1>5, <2>1 DEF Quota!UpdatePlan
  <2> QED
    BY <1>3, <1>5, <2>2 DEF Quota!UpdatePlan
<1>6. CASE Quota!Bootstrap
  <2>1. PICK e, v : e = (active /\ subscription # None
                          /\ Quota!InTerm(subscription, planActive[subscription.plan], day))
                    /\ v = limitOverride
    OBVIOUS
  <2>2. PICK q : q = [enabled |-> FALSE, unlimited |-> FALSE, hard |-> {}]
    OBVIOUS
  <2>3. /\ UNCHANGED <<active, subscription, planActive, limitOverride>>
        /\ planQuota' = [p \in QuotaPlans |-> IF planQuota[p] = None THEN q ELSE planQuota[p]]
    BY <1>6, <2>2 DEF Quota!Bootstrap
  <2>4. PICK x, y : /\ x = IF subscription = None THEN None ELSE planQuota[subscription.plan]
                    /\ y = IF subscription = None THEN None ELSE planQuota'[subscription.plan]
    OBVIOUS
  <2>5. y = x \/ (x = None /\ y = q)
    BY <1>0, <2>3, <2>4 DEF Quota!Subscription
  <2>6. Quota!InForce(day) = Quota!Effective(e, x, v)
    BY <2>1, <2>4 DEF Quota!InForce, Quota!LimitBy
  <2>7. Quota!InForce(day)' = Quota!Effective(e, y, v)
    BY <2>1, <2>3, <2>4 DEF Quota!InForce, Quota!LimitBy, Quota!InTerm
  <2>8. Quota!Effective(e, q, v) = Quota!Effective(e, None, v)
    BY <1>0, <2>1, <2>2, BootstrapIsNoLimit
  <2> QED
    BY <2>5, <2>6, <2>7, <2>8
<1>7. CASE \E c \in Resolutions :
             \/ Quota!Begin(c) \/ Quota!ReadOrganization(c) \/ Quota!ReadSubscription(c)
             \/ Quota!ReadPlan(c) \/ Quota!ReadQuota(c) \/ Quota!ReadOverride(c) \/ Quota!Use(c)
  BY <1>1, <1>7 DEF Quota!Begin, Quota!ReadOrganization, Quota!ReadSubscription, Quota!ReadPlan,
                    Quota!ReadQuota, Quota!ReadOverride, Quota!Use, Quota!Rest
<1>8. ASSUME NEW o \in Operators, NEW p \in QuotaPlans, Quota!SelectSubscribers(o, p) PROVE FALSE
  BY <1>1, <1>8 DEF Quota!SelectSubscribers, Quota!Reading
<1>9. ASSUME NEW o \in Operators, Quota!GiveUp(o) PROVE FALSE
  BY <1>1, <1>9 DEF Quota!GiveUp
<1>10. CASE Quota!SetOverride \/ Quota!RemoveOverride
  BY <1>0, <1>10 DEF Quota!SetOverride, Quota!RemoveOverride
<1>11. CASE Quota!ChangeAccount
  BY <1>0, <1>11 DEF Quota!ChangeAccount
<1>12. CASE Quota!Tick \/ UNCHANGED Quota!quotaVars
  BY <1>1, <1>12 DEF Quota!Tick, Quota!quotaVars
<1> QED
  BY <1>4, <1>5, <1>6, <1>7, <1>8, <1>9, <1>10, <1>11, <1>12 DEF Quota!EffectiveNext

-----------------------------------------------------------------------------
(* The two together.                                                       *)

\* A behaviour follows one of the two, and the other stands still.
LEMMA OneMoves ==
    /\ MCInit => Init /\ Quota!EffectiveInit
    /\ [MCNext]_<<focus, vars, quotaVars>> => [Next]_vars /\ [Quota!EffectiveNext]_(Quota!quotaVars)
  BY DEF MCInit, MCNext, quotaVars, Quota!quotaVars

\* EffectiveQuota: its inductive invariant, of every behaviour.
LEMMA QuotaIsSound == MCSpec => []QuotaInv
<1>1. QuotaInv /\ [MCNext]_<<focus, vars, quotaVars>> => QuotaInv'
  BY OneMoves, QuotaStep
<1>2. MCInit => QuotaInv
  BY OneMoves, QuotaInit
<1> QED
  BY <1>1, <1>2, PTL DEF MCSpec

\* Subscriptions: its own behaviours are among these.
LEMMA ImplementsSubscriptions == MCSpec => Spec
  BY OneMoves, PTL DEF MCSpec, Spec

\* Types of subscriptions and of limits, for any number of organizations, plans
\* and resolutions.
THEOREM EntitlementTypes == MCSpec => []MCTypeOK
<1>1. QuotaInv /\ TypeOK => MCTypeOK
  BY DEF QuotaInv, MCTypeOK
<1> QED
  BY <1>1, QuotaIsSound, ImplementsSubscriptions, TypeCorrect, PTL

\* A resolution answers a limit that was in force, for its time, while it read,
\* unless rows changed against the order of its reads; and always one that some
\* row had: whatever the limits and however many resolutions and changes
\* overlap.
THEOREM AnswersWereInForce == MCSpec => []QuotaWasInForce
<1>1. QuotaInv => QuotaWasInForce
  <2>1. ASSUME QuotaInv, NEW c \in Resolutions, Quota!Reads(c, "nothing")
        PROVE  /\ resolution[c].limit \in resolution[c].known \/ resolution[c].mixed
               /\ resolution[c].limit \subseteq resolution[c].configured
    <3>1. PICK r : r = resolution[c] /\ r # None /\ r.next = "nothing" /\ Answerable(r)
      BY <2>1 DEF QuotaInv, Quota!Reads
    <3> QED
      BY <3>1 DEF Answerable, Completed, Completion
  <2> QED
    BY <2>1 DEF QuotaWasInForce, Quota!ResolvedWasInForce
<1> QED
  BY <1>1, QuotaIsSound, PTL

\* No limit moves under an old version, but by a change of a plan that
\* overlooks a new subscriber.
LEMMA LimitMoves == MCSpec => Quota!LimitMovesWithVersion
<1>1. QuotaInv /\ [MCNext]_<<focus, vars, quotaVars>>
        => [Quota!InForce(day)' # Quota!InForce(day) /\ day' = day /\ active' = active
              => limitVersion' > limitVersion \/ Quota!Overlooks]_(Quota!quotaVars)
  BY OneMoves, LimitStep
<1> QED
  BY <1>1, QuotaIsSound, PTL DEF MCSpec, Quota!LimitMovesWithVersion, Quota!quotaVars

\* What is over stays over, outside the race its module names, and no limit
\* moves under an old version but by a change of a plan that overlooks a new
\* subscriber.
THEOREM ChangesStayInOrder == MCSpec => ChangesAreInOrder
  BY LimitMoves, ImplementsSubscriptions, ClosedStays, PTL DEF ChangesAreInOrder

=============================================================================
