------------------------------- MODULE Teams -------------------------------
(***************************************************************************)
(* The teams of one organization and who is in them: TeamsService, and the *)
(* team a user is given by UsersService with a new account or a new role.  *)
(*                                                                         *)
(* TeamsService works statement by statement.  A change of a role replaces *)
(* the user's teams in a transaction at READ COMMITTED: each statement     *)
(* sees what is committed when it starts, and a row it has written is      *)
(* locked until the transaction ends.                                      *)
(*                                                                         *)
(* A team is its code, which is unique in the organization.                *)
(***************************************************************************)
EXTENDS FiniteSets

CONSTANTS
    Members,     \* users of the organization
    TeamCodes,   \* teams
    Calls,       \* calls under way at the same time
    None

\* What the constants are; assumed where this module is instantiated.
TeamsAssumption == None \notin Members \cup TeamCodes \cup BOOLEAN

VARIABLES
    member,      \* organization_memberships: is it active?  None: no user yet
    team,        \* teams; None: no row
    links,       \* organization_membership_teams
    call,        \* calls under way
    expected     \* history: what the calls, in the order of their commits, add up to

teamVars == <<member, team, links, call, expected>>

TeamRow == [isActive : BOOLEAN, manager : Members \cup {None}]
UpdateCall == [step : {"updating"}, team : TeamCodes, row : TeamRow]
LinkCall == [step : {"adding", "removing"}, team : TeamCodes, user : Members]

\* team: to replace the user's teams with, or None; deleted: links the
\* transaction has deleted; since: links others have written since then.
ReplaceCall == [step : {"locking", "deleting", "inserting"}, user : Members,
                team : TeamCodes \cup {None}, deleted : SUBSET (Members \X TeamCodes),
                since : SUBSET (Members \X TeamCodes)]

At(c, step) == call[c] # None /\ call[c].step = step
Return(c) == call' = [call EXCEPT ![c] = None]
LinksOf(u) == {l \in links : l[1] = u}
ActiveTeam(t) == team[t] # None /\ team[t].isActive
ActiveMember(u) == member[u] = TRUE

TeamsInit ==
    /\ member \in [Members -> {TRUE, None}]
    /\ team = [t \in TeamCodes |-> None]
    /\ links = {} /\ expected = {}
    /\ call = [c \in Calls |-> None]

-----------------------------------------------------------------------------
(* TeamsService.                                                           *)

\* getValidManager: no manager, or an active member.
ValidManagers == {None} \cup {u \in Members : ActiveMember(u)}

\* create and update: the team and the manager are read ...
TeamBegin(c, t, row) ==
    /\ call[c] = None
    /\ row.manager \in ValidManagers \cup (IF team[t] = None THEN {} ELSE {team[t].manager})
    /\ team[t] = None => row.isActive
    /\ call' = [call EXCEPT ![c] = [step |-> "updating", team |-> t, row |-> row]]
    /\ UNCHANGED <<member, team, links, expected>>

\* ... and the row is written.
TeamEnd(c) ==
    /\ At(c, "updating")
    /\ team' = [team EXCEPT ![call[c].team] = call[c].row]
    /\ Return(c)
    /\ UNCHANGED <<member, links, expected>>

\* addMember reads an active team and a membership, suspended or not;
\* removeMember reads the link.
LinkBegin(c, u, t, step) ==
    /\ call[c] = None
    /\ member[u] # None /\ team[t] # None
    /\ IF step = "adding" THEN team[t].isActive ELSE <<u, t>> \in links
    /\ call' = [call EXCEPT ![c] = [step |-> step, team |-> t, user |-> u]]
    /\ UNCHANGED <<member, team, links, expected>>

\* A link that an open transaction has deleted is locked.
Locked(l) == \E d \in Calls : At(d, "inserting") /\ l \in call[d].deleted

\* upsert, and delete, which fails when the link is gone.
LinkEnd(c) ==
    /\ At(c, "adding") \/ At(c, "removing")
    /\ LET l == <<call[c].user, call[c].team>>
           adding == call[c].step = "adding"
       IN /\ ~Locked(l)
          /\ links' = IF adding THEN links \cup {l} ELSE links \ {l}
          /\ expected' = IF adding THEN expected \cup {l} ELSE expected \ {l}
          /\ call' = [d \in Calls |->
               IF d = c THEN None
               ELSE IF At(d, "inserting") /\ adding THEN [call[d] EXCEPT !.since = @ \cup {l}]
               ELSE IF At(d, "inserting") THEN [call[d] EXCEPT !.since = @ \ {l}]
               ELSE call[d]]
    /\ UNCHANGED <<member, team>>

-----------------------------------------------------------------------------
(* UsersService.                                                           *)

\* create, with createInitialMembership: one transaction.
CreateMember(u, t) ==
    /\ member[u] = None
    /\ t # None => ActiveTeam(t)
    /\ member' = [member EXCEPT ![u] = TRUE]
    /\ links' = links \cup (IF t = None THEN {} ELSE {<<u, t>>})
    /\ expected' = expected \cup (IF t = None THEN {} ELSE {<<u, t>>})
    /\ UNCHANGED <<team, call>>

\* deactivate and activate: the memberships' teams stay.
ToggleMember(u) ==
    /\ member[u] # None
    /\ member' = [member EXCEPT ![u] = ~@]
    /\ UNCHANGED <<team, links, call, expected>>

\* updateRole reads the membership and, in resolveTeamAssignment, an active
\* team; a legacy team's name, or null, asks for no team at all.
ReplaceBegin(c, u, t) ==
    /\ call[c] = None
    /\ member[u] # None
    /\ t # None => ActiveTeam(t)
    /\ call' = [call EXCEPT ![c] = [step |-> "locking", user |-> u, team |-> t, deleted |-> {}, since |-> {}]]
    /\ UNCHANGED <<member, team, links, expected>>

\* Has no other transaction written the membership?
MayLock(c) ==
    \A d \in Calls : At(d, "deleting") \/ At(d, "inserting") => call[d].user # call[c].user

\* The transaction: syncRoleAssignment writes the membership, and waits for
\* another one that has; assertTeamOrganization looks at the team again ...
ReplaceLock(c) ==
    /\ At(c, "locking")
    /\ MayLock(c)
    /\ IF call[c].team = None \/ ActiveTeam(call[c].team)
       THEN call' = [call EXCEPT ![c].step = "deleting"]
       ELSE Return(c)
    /\ UNCHANGED <<member, team, links, expected>>

\* ... deleteMany deletes the links committed by now ...
ReplaceDelete(c) ==
    /\ At(c, "deleting")
    /\ \A l \in LinksOf(call[c].user) : ~Locked(l)
    /\ call' = [call EXCEPT ![c].step = "inserting", ![c].deleted = LinksOf(call[c].user)]
    /\ UNCHANGED <<member, team, links, expected>>

\* ... createMany adds the new one, and the transaction commits.
ReplaceCommit(c) ==
    /\ At(c, "inserting")
    /\ LET u == call[c].user
           new == IF call[c].team = None THEN {} ELSE {<<u, call[c].team>>}
       IN /\ links' = (links \ call[c].deleted) \cup new
          /\ expected' = {l \in expected : l[1] # u} \cup new \cup {l \in call[c].since : l[1] = u}
    /\ Return(c)
    /\ UNCHANGED <<member, team>>

\* The process stops, or a statement fails: the transaction is rolled back.
TeamsDie(c) ==
    /\ call[c] # None
    /\ Return(c)
    /\ UNCHANGED <<member, team, links, expected>>

TeamsNext ==
    \/ \E c \in Calls :
         \/ TeamEnd(c) \/ LinkEnd(c)
         \/ ReplaceLock(c) \/ ReplaceDelete(c) \/ ReplaceCommit(c) \/ TeamsDie(c)
         \/ \E t \in TeamCodes, row \in TeamRow : TeamBegin(c, t, row)
         \/ \E u \in Members, t \in TeamCodes, s \in {"adding", "removing"} : LinkBegin(c, u, t, s)
         \/ \E u \in Members, t \in TeamCodes \cup {None} : ReplaceBegin(c, u, t)
    \/ \E u \in Members : ToggleMember(u) \/ \E t \in TeamCodes \cup {None} : CreateMember(u, t)

TeamsSpec == TeamsInit /\ [][TeamsNext]_teamVars

-----------------------------------------------------------------------------
(* Properties.                                                             *)

\* Types of the state of the teams.
TeamsTypeOK ==
    /\ member \in [Members -> BOOLEAN \cup {None}]
    /\ team \in [TeamCodes -> TeamRow \cup {None}]
    /\ links \subseteq Members \X TeamCodes
    /\ expected \subseteq Members \X TeamCodes
    /\ call \in [Calls -> UpdateCall \cup LinkCall \cup ReplaceCall \cup {None}]

\* A user is in the team the last change of the role named and in those added
\* since its deletion, and in no other, though the replacement deletes and
\* inserts in two statements: two of them for one user exclude one another
\* only because each writes the membership first.
TeamsAreReplaced == links = expected
=============================================================================
