----------------------- MODULE MembershipMaintenance -----------------------
(***************************************************************************)
(* The commands that bring the users of the time before memberships into   *)
(* them, while the application runs: membership-maintenance.ts gives every *)
(* user a membership of the organization he belongs to, and                *)
(* tenant-rbac-maintenance.ts gives the memberships without a role the one *)
(* the user had.  Both read a plan first and apply it later.  Owners are a *)
(* decision of an operator and are left out.                               *)
(***************************************************************************)
EXTENDS FiniteSets, Integers, Sequences

CONSTANTS
    Order,       \* the users, a sequence by their ids
    Orgs,
    HomeOf,      \* users.organizationId
    Roles,
    Legacy,      \* users.roleId
    Calls,       \* commands under way at the same time
    None,
    BatchSize,   \* memberships created in one transaction
    MaxChanges   \* BOUND: changes by the application

Migrants == {Order[i] : i \in 1..Len(Order)}
Membership == [active : BOOLEAN, isDefault : BOOLEAN, role : Roles \cup {None}]

\* What the constants are; assumed where this module is instantiated.
MaintenanceAssumption ==
    /\ HomeOf \in [Migrants -> Orgs] /\ Legacy \in [Migrants -> Roles]
    /\ BatchSize \in Nat \ {0} /\ MaxChanges \in Nat
    /\ None \notin Roles \cup Membership

VARIABLES
    mem,         \* organization_memberships; None: no row
    granted,     \* roles: what permissions a role has, by a number; 0: inactive
    call,        \* commands under way
    changes,     \* BOUND's counter
    applied      \* history: the users of the plans that were reported applied

maintenanceVars == <<mem, granted, call, changes, applied>>

\* of a backfill, the users still to create; all: those of the plan.
FillCall == [step : {"filling"}, rest : SUBSET Migrants, all : SUBSET Migrants]
\* of a reconciliation: the assignments left, with the permissions planned;
\* written: those made by the open transaction.
AssignCall == [step : {"checking", "assigning", "committing"}, org : Orgs, left : SUBSET Migrants,
               planned : [Migrants -> 0..MaxChanges + 1], next : Migrants \cup {None}, written : SUBSET Migrants]

At(c, step) == call[c] # None /\ call[c].step = step
Return(c) == call' = [call EXCEPT ![c] = None]
Rows(u) == {o \in Orgs : mem[<<u, o>>] # None}
HasDefault(u) == \E o \in Rows(u) : mem[<<u, o>>].isDefault
Joined == [active |-> TRUE, isDefault |-> TRUE, role |-> None]

MaintenanceInit ==
    /\ mem \in [Migrants \X Orgs -> {None, Joined}]
    /\ \A u \in Migrants, o \in Orgs : mem[<<u, o>>] # None => o = HomeOf[u]
    /\ granted = [r \in Roles |-> 1]
    /\ call = [c \in Calls |-> None]
    /\ changes = 0
    /\ applied = {}

-----------------------------------------------------------------------------
(* membership-maintenance.ts.                                              *)

\* A membership that is there has to be the one that would be created.
Conflicts(u) ==
    LET row == mem[<<u, HomeOf[u]>>]
    IN row # None /\ ~(row.active /\ row.isDefault /\ row.role = Legacy[u])

\* backfillMemberships: a plan without conflicts ...
FillBegin(c) ==
    /\ call[c] = None
    /\ \A u \in Migrants : ~Conflicts(u)
    /\ LET missing == {u \in Migrants : mem[<<u, HomeOf[u]>>] = None}
       IN call' = [call EXCEPT ![c] = [step |-> "filling", rest |-> missing, all |-> missing]]
    /\ UNCHANGED <<mem, granted, changes, applied>>

\* The first n of the users of the rest of a plan, by their ids.
First(rest, n) ==
    {u \in rest : \E i \in 1..Len(Order) :
        Order[i] = u /\ Cardinality({k \in 1..i - 1 : Order[k] \in rest}) < n}

\* MUTANT of Batch: one less than a batch, while the offset moves by a batch.
Batch_OneLess(rest) == First(rest, BatchSize - 1)

\* ids: the next users of the plan.
Batch(rest) == First(rest, BatchSize)

\* ... is applied in batches, each one transaction, which fails when a user
\* has the membership, or another default, by now: then the command stops.
FillBatch(c) ==
    /\ At(c, "filling") /\ call[c].rest # {}
    /\ LET ids == Batch(call[c].rest)
       IN IF \A u \in ids : mem[<<u, HomeOf[u]>>] = None /\ ~HasDefault(u)
          THEN /\ mem' = [m \in Migrants \X Orgs |->
                    IF m[1] \in ids /\ m[2] = HomeOf[m[1]] THEN [Joined EXCEPT !.role = Legacy[m[1]]] ELSE mem[m]]
               /\ call' = [call EXCEPT ![c].rest = @ \ First(@, BatchSize)]
          ELSE Return(c) /\ UNCHANGED mem
    /\ UNCHANGED <<granted, changes, applied>>

FillEnd(c) ==
    /\ At(c, "filling") /\ call[c].rest = {}
    /\ applied' = applied \cup call[c].all
    /\ Return(c)
    /\ UNCHANGED <<mem, granted, changes>>

-----------------------------------------------------------------------------
(* tenant-rbac-maintenance.ts.                                             *)

\* A membership a role is planned for: it has none, it is the only one of the
\* user, and the user's former role is usable.
Assignable(u, o) ==
    /\ mem[<<u, o>>] # None /\ mem[<<u, o>>].role = None
    /\ Cardinality(Rows(u)) = 1
    /\ granted[Legacy[u]] # 0

\* plan
AssignBegin(c, o) ==
    /\ call[c] = None
    /\ call' = [call EXCEPT ![c] =
         [step |-> "checking", org |-> o, left |-> {u \in Migrants : Assignable(u, o)},
          planned |-> [u \in Migrants |-> granted[Legacy[u]]], next |-> None, written |-> {}]]
    /\ UNCHANGED <<mem, granted, changes, applied>>

\* Has an open transaction written the membership?  A write of it waits.
Locked(u, o) == \E d \in Calls : call[d] # None /\ call[d].step \in {"checking", "assigning", "committing"}
                                 /\ call[d].org = o /\ u \in call[d].written

\* backfill, in one transaction: each assignment is checked against the plan ...
AssignCheck(c) ==
    /\ At(c, "checking")
    /\ IF call[c].left = {} THEN call' = [call EXCEPT ![c].step = "committing"]
       ELSE LET u == CHOOSE u \in call[c].left : TRUE
                valid == Assignable(u, call[c].org) /\ granted[Legacy[u]] = call[c].planned[u]
            IN call' = [call EXCEPT ![c].left = @ \ {u},
                          ![c].step = IF valid THEN "assigning" ELSE "checking",
                          ![c].next = IF valid THEN u ELSE None]
    /\ UNCHANGED <<mem, granted, changes, applied>>

\* The condition of the update.
StillNone(u, o) == mem[<<u, o>>].role = None

\* ... and made by a conditional update, of a membership still without a role.
AssignWrite(c) ==
    /\ At(c, "assigning")
    /\ LET u == call[c].next
       IN /\ ~Locked(u, call[c].org)
          /\ call' = [call EXCEPT ![c].step = "checking", ![c].next = None,
               ![c].written = IF StillNone(u, call[c].org) THEN @ \cup {u} ELSE @]
    /\ UNCHANGED <<mem, granted, changes, applied>>

AssignCommit(c) ==
    /\ At(c, "committing")
    /\ mem' = [m \in Migrants \X Orgs |->
         IF m[2] = call[c].org /\ m[1] \in call[c].written THEN [mem[m] EXCEPT !.role = Legacy[m[1]]] ELSE mem[m]]
    /\ Return(c)
    /\ UNCHANGED <<granted, changes, applied>>

-----------------------------------------------------------------------------
(* The application.                                                        *)

\* A role is given; a membership is suspended, or activated as the default;
\* a login by single sign-on joins another organization; the permissions of a
\* role change, or it is deactivated.
Application ==
    /\ changes < MaxChanges
    /\ changes' = changes + 1
    /\ \/ \E u \in Migrants, o \in Orgs :
            /\ ~Locked(u, o)
            /\ \/ /\ mem[<<u, o>>] # None
                  /\ \E r \in Roles : mem' = [mem EXCEPT ![<<u, o>>].role = r]
               \/ /\ mem[<<u, o>>] # None /\ mem[<<u, o>>].active
                  /\ mem' = [mem EXCEPT ![<<u, o>>].active = FALSE, ![<<u, o>>].isDefault = FALSE]
               \/ /\ mem[<<u, o>>] = None
                  /\ \E r \in Roles :
                       mem' = [mem EXCEPT ![<<u, o>>] = [active |-> TRUE, isDefault |-> ~HasDefault(u), role |-> r]]
          /\ UNCHANGED granted
       \/ /\ \E r \in Roles : granted' \in {[granted EXCEPT ![r] = 0], [granted EXCEPT ![r] = changes + 2]}
          /\ UNCHANGED mem
    /\ UNCHANGED <<call, applied>>

\* The command stops: what its open transaction wrote is gone.
CommandDies(c) ==
    /\ call[c] # None
    /\ Return(c)
    /\ UNCHANGED <<mem, granted, changes, applied>>

MaintenanceNext ==
    \/ \E c \in Calls :
         \/ FillBegin(c) \/ FillBatch(c) \/ FillEnd(c)
         \/ AssignCheck(c) \/ AssignWrite(c) \/ AssignCommit(c) \/ CommandDies(c)
         \/ \E o \in Orgs : AssignBegin(c, o)
    \/ Application

MaintenanceSpec == MaintenanceInit /\ [][MaintenanceNext]_maintenanceVars

-----------------------------------------------------------------------------
(* Properties.                                                             *)

\* Types of the state of the commands.
MaintenanceTypeOK ==
    /\ mem \in [Migrants \X Orgs -> Membership \cup {None}]
    /\ granted \in [Roles -> 0..MaxChanges + 1]
    /\ call \in [Calls -> FillCall \cup AssignCall \cup {None}]
    /\ applied \subseteq Migrants

\* Everybody in a plan that was reported applied is a member, whatever joined,
\* failed or stopped between the plan and its batches.
AppliedIsComplete == \A u \in applied : mem[<<u, HomeOf[u]>>] # None

\* The commands add, and never take: no membership goes, none that has a role
\* is given another one, and none is activated, even one that was changed
\* after the plan was read.
CommandsOnlyAdd ==
    [][mem' # mem /\ changes' = changes =>
         \A u \in Migrants, o \in Orgs : mem[<<u, o>>] # None =>
           /\ mem'[<<u, o>>] # None
           /\ mem'[<<u, o>>].active = mem[<<u, o>>].active
           /\ mem[<<u, o>>].role # None => mem'[<<u, o>>].role = mem[<<u, o>>].role]_maintenanceVars
=============================================================================
