----------------------------- MODULE Workspaces -----------------------------
(***************************************************************************)
(* A workspace of an organization (WorkspacesService) and the catalogue it *)
(* selects from: LanguagesService, IntelligenceDomainsService and          *)
(* TopicsService of the platform.                                          *)
(*                                                                         *)
(* Each operation is a transaction at READ COMMITTED: it reads and         *)
(* validates, and then writes.  From its updateMany on, an update of an    *)
(* active workspace holds the row, so that its writes are one action; what *)
(* it has validated may be gone by then.  The input languages, which are   *)
(* validated like the output languages but have no default, and the names, *)
(* codes and aliases are left out.                                         *)
(***************************************************************************)
EXTENDS FiniteSets, Integers

CONSTANTS
    Languages, Domains, Topics,  \* ids of the catalogue
    Calls,                       \* transactions under way at the same time
    None,
    MaxToggles                   \* BOUND: setActive of catalogue entries

VARIABLES
    workspace,    \* the row with its links, or None
    inactive,     \* catalogue entries that are not isActive
    topicDomains, \* topic_domains
    call,
    toggles,      \* BOUND's counter
    raced         \* history: a transaction wrote after another had written what it read

workspaceVars == <<workspace, inactive, topicDomains, call, toggles, raced>>

Fields == {"default", "output", "domains", "topics"}
WorkspaceRow == [archived : BOOLEAN, default : Languages \cup {None}, output : SUBSET Languages,
                 domains : SUBSET Domains, topics : SUBSET Topics]

\* What the constants are; assumed where this module is instantiated.
WorkspacesAssumption ==
    /\ MaxToggles \in Nat
    /\ None \notin Languages \cup Domains \cup Topics \cup WorkspaceRow

\* stale is history: was something written since the call has read?
\* archived: the workspace was archived since.
Call == [kind : {"create", "update"}, given : SUBSET Fields, next : WorkspaceRow,
         stale : BOOLEAN, archived : BOOLEAN]
        \cup [kind : {"topic"}, topic : Topics, next : SUBSET Domains, stale : BOOLEAN]

\* What the bodies of requests give: the languages, or the domains and topics.
Bodies == {{"default"}, {"output"}, {"default", "output"}, {"domains"}, {"topics"}, {"domains", "topics"}}

NoLinks == [archived |-> FALSE, default |-> None, output |-> {}, domains |-> {}, topics |-> {}]

\* Rows that differ from w in what a body gives.
Edits(w, given) ==
    [archived : {w.archived},
     default : IF "default" \in given THEN Languages \cup {None} ELSE {w.default},
     output : IF "output" \in given THEN SUBSET Languages ELSE {w.output},
     domains : IF "domains" \in given THEN SUBSET Domains ELSE {w.domains},
     topics : IF "topics" \in given THEN SUBSET Topics ELSE {w.topics}]

\* MUTANT of TopicsValidated: only a body with topics is validated.
TopicsValidated_IfGiven(w, next, given) ==
    "topics" \in given =>
        /\ (next.topics \ w.topics) \cap inactive = {}
        /\ next.domains # {} => \A t \in next.topics : topicDomains[t] \cap next.domains # {}

\* validateTopicSelection: nothing inactive is added, and each topic shares a
\* domain with a workspace that has any.
TopicsValidated(w, next, given) ==
    given \cap {"domains", "topics"} # {} =>
        /\ (next.topics \ w.topics) \cap inactive = {}
        /\ next.domains # {} => \A t \in next.topics : topicDomains[t] \cap next.domains # {}

\* validateLanguageSelection, validateDomainSelection, validateDefault
Validated(w, next, given) ==
    /\ (next.output \ w.output) \cap inactive = {}
    /\ (next.domains \ w.domains) \cap inactive = {}
    /\ TopicsValidated(w, next, given)
    /\ next.default \in next.output \cup {None}

WorkspaceInit ==
    /\ workspace = None
    /\ inactive = {}
    /\ topicDomains \in [Topics -> SUBSET Domains]
    /\ call = [c \in Calls |-> None]
    /\ toggles = 0
    /\ raced = FALSE

\* What other calls have read is written.
Outdate(c, archived) ==
    call' = [d \in Calls |->
        IF d = c \/ call[d] = None THEN None
        ELSE IF call[d].kind = "topic" THEN [call[d] EXCEPT !.stale = TRUE]
        ELSE [call[d] EXCEPT !.stale = TRUE, !.archived = @ \/ archived]]

-----------------------------------------------------------------------------
(* WorkspacesService.                                                      *)

\* What a body gives; the rest is as in NoLinks.
Given(next, given) ==
    [f \in DOMAIN next |-> IF f \in given THEN next[f] ELSE NoLinks[f]]

\* A validated request with row w as it has read it.
Begin(c, kind, w) ==
    \E given \in Bodies : \E next \in Edits(w, given) :
        /\ Validated(w, next, given)
        /\ call' = [call EXCEPT ![c] = [kind |-> kind, given |-> given, next |-> Given(next, given),
                                        stale |-> FALSE, archived |-> FALSE]]

\* create validates ...
CreateRead(c) ==
    /\ call[c] = None /\ workspace = None
    /\ Begin(c, "create", NoLinks)
    /\ UNCHANGED <<workspace, inactive, topicDomains, toggles, raced>>

Is(c, kind) == call[c] # None /\ call[c].kind = kind

\* ... and writes the row and its links; a second one with its code is refused.
CreateWrite(c) ==
    /\ Is(c, "create")
    /\ IF workspace = None
       THEN /\ workspace' = call[c].next
            /\ raced' = (raced \/ call[c].stale)
            /\ Outdate(c, FALSE)
       ELSE /\ call' = [call EXCEPT ![c] = None]
            /\ UNCHANGED <<workspace, raced>>
    /\ UNCHANGED <<inactive, topicDomains, toggles>>

\* update reads the workspace, which is not archived, and validates what it is
\* given against the rest of what it has read ...
UpdateRead(c) ==
    /\ call[c] = None /\ workspace # None /\ ~workspace.archived
    /\ Begin(c, "update", workspace)
    /\ UNCHANGED <<workspace, inactive, topicDomains, toggles, raced>>

\* ... and writes what it is given: the default to a workspace that is still
\* active, and the links whatever its status.
UpdateWrite(c) ==
    /\ Is(c, "update")
    /\ LET next == call[c].next
           given == call[c].given
       IN workspace' = [workspace EXCEPT
            !.default = IF "default" \in given /\ ~workspace.archived THEN next.default ELSE @,
            !.output = IF "output" \in given THEN next.output ELSE @,
            !.domains = IF "domains" \in given THEN next.domains ELSE @,
            !.topics = IF "topics" \in given THEN next.topics ELSE @]
    /\ raced' = (raced \/ call[c].stale)
    /\ Outdate(c, FALSE)
    /\ UNCHANGED <<inactive, topicDomains, toggles>>

Archive ==
    /\ workspace # None /\ ~workspace.archived
    /\ workspace' = [workspace EXCEPT !.archived = TRUE]
    /\ Outdate(None, TRUE)
    /\ UNCHANGED <<inactive, topicDomains, toggles, raced>>

-----------------------------------------------------------------------------
(* The catalogue.                                                          *)

\* setActive of a language, a domain or a topic: what is in use stays so.
SetActive(x) ==
    /\ toggles < MaxToggles
    /\ inactive' = IF x \in inactive THEN inactive \ {x} ELSE inactive \cup {x}
    /\ toggles' = toggles + 1
    /\ UNCHANGED <<workspace, topicDomains, call, raced>>

\* TopicsService.update of the domains: no inactive one is added, and no
\* workspace that has selected the topic is left without a common domain.
TopicRead(c, t) ==
    /\ call[c] = None
    /\ \E next \in SUBSET Domains :
         /\ (next \ topicDomains[t]) \cap inactive = {}
         /\ workspace # None /\ t \in workspace.topics /\ workspace.domains # {} =>
              workspace.domains \cap next # {}
         /\ call' = [call EXCEPT ![c] = [kind |-> "topic", topic |-> t, next |-> next, stale |-> FALSE]]
    /\ UNCHANGED <<workspace, inactive, topicDomains, toggles, raced>>

TopicWrite(c) ==
    /\ Is(c, "topic")
    /\ topicDomains' = [topicDomains EXCEPT ![call[c].topic] = call[c].next]
    /\ raced' = (raced \/ call[c].stale)
    /\ Outdate(c, FALSE)
    /\ UNCHANGED <<workspace, inactive, toggles>>

\* The transaction is rolled back.
Rollback(c) ==
    /\ call[c] # None
    /\ call' = [call EXCEPT ![c] = None]
    /\ UNCHANGED <<workspace, inactive, topicDomains, toggles, raced>>

WorkspaceNext ==
    \/ Archive
    \/ \E c \in Calls :
         \/ CreateRead(c) \/ CreateWrite(c) \/ UpdateRead(c) \/ UpdateWrite(c) \/ TopicWrite(c) \/ Rollback(c)
         \/ \E t \in Topics : TopicRead(c, t)
    \/ \E x \in Languages \cup Domains \cup Topics : SetActive(x)

WorkspaceSpec == WorkspaceInit /\ [][WorkspaceNext]_workspaceVars

-----------------------------------------------------------------------------
(* Properties.                                                             *)

\* Types of the state of workspaces and catalogue.
WorkspaceTypeOK ==
    /\ workspace \in WorkspaceRow \cup {None}
    /\ inactive \subseteq Languages \cup Domains \cup Topics
    /\ topicDomains \in [Topics -> SUBSET Domains]
    /\ call \in [Calls -> Call \cup {None}]

\* An archived workspace keeps its selections, except for an update that had
\* read it before it was archived: its updateMany finds nothing, and the links
\* are rewritten nevertheless.
ArchivedStays ==
    [][workspace # None /\ workspace.archived /\ workspace' # workspace =>
         \E c \in Calls : Is(c, "update") /\ call[c].archived]_workspaceVars

\* The default language is one of the output languages, and each topic shares
\* a domain with a workspace that has any, as long as no transaction wrote
\* after another one had written what it validated.
SelectionsFit ==
    workspace # None /\ ~raced =>
        /\ workspace.default \in workspace.output \cup {None}
        /\ workspace.domains # {} =>
             \A t \in workspace.topics : topicDomains[t] \cap workspace.domains # {}
=============================================================================
