----------------------------- MODULE AuditTrail -----------------------------
(***************************************************************************)
(* The audit log and the commands that keep it, and the grants of platform *)
(* authority, which the log must account for: AuditLogService,             *)
(* audit-log-maintenance.ts and platform-authority-maintenance.ts.         *)
(*                                                                         *)
(* Most services record events through AuditLogService; TenantRbacService, *)
(* the quota services and the commands insert the row themselves, several  *)
(* of them without a scope, as did the time before scopes.  The fields     *)
(* that are copied as they are do not appear.                              *)
(***************************************************************************)
EXTENDS FiniteSets, Integers, Sequences

CONSTANTS
    Admins,      \* users who may be given platform authority
    Tenants,     \* organizations
    Calls,       \* commands under way at the same time
    None,
    MaxRows,     \* BOUND: length of the log
    MaxChanges   \* BOUND: accounts deactivated or activated

Scopes == {"TENANT", "PLATFORM", "SYSTEM"}

\* What the constants are; assumed where this module is instantiated.
TrailAssumption == {MaxRows, MaxChanges} \subseteq Nat /\ None \notin Tenants \cup Admins \cup Scopes

VARIABLES
    isActive,    \* users.isActive
    authority,   \* platform_authorities
    log,         \* audit_logs
    archive,     \* audit_log_archives: the scope each row was archived with
    call,        \* grants under way: the user they are about
    changes      \* BOUND's counter

trailVars == <<isActive, authority, log, archive, call, changes>>

Row == [scope : Scopes \cup {None}, tenant : Tenants \cup {None},
        event : {"granted", "revoked", "other"}, about : Admins \cup {None}]
Unarchived == [scope |-> None, done |-> FALSE]

Event(scope, tenant, event, about) == [scope |-> scope, tenant |-> tenant, event |-> event, about |-> about]
Append1(row) == log' = Append(log, row) /\ archive' = Append(archive, Unarchived)

TrailInit ==
    /\ isActive \in [Admins -> BOOLEAN]
    /\ authority = {}
    /\ log = <<>> /\ archive = <<>>
    /\ call = [c \in Calls |-> None]
    /\ changes = 0

-----------------------------------------------------------------------------
(* AuditLogService.                                                        *)

\* record: the scope that is given, or the one the organization implies.
ScopeOf(given, tenant) == IF given # None THEN given ELSE IF tenant = None THEN "SYSTEM" ELSE "TENANT"

\* record refuses an event of a tenant without an organization.
Record(given, tenant) ==
    /\ Len(log) < MaxRows
    /\ ~(ScopeOf(given, tenant) = "TENANT" /\ tenant = None)
    /\ Append1(Event(ScopeOf(given, tenant), tenant, "other", None))
    /\ UNCHANGED <<isActive, authority, call, changes>>

\* A row that a service inserts itself, without a scope.
RecordUnscoped(tenant) ==
    /\ Len(log) < MaxRows
    /\ Append1(Event(None, tenant, "other", None))
    /\ UNCHANGED <<isActive, authority, call, changes>>

\* findAll and findAllPlatform: the rows a tenant, and the platform, is shown.
ShownTo(tenant) == {i \in 1..Len(log) : log[i].scope = "TENANT" /\ log[i].tenant = tenant}
ShownToPlatform == {i \in 1..Len(log) : log[i].scope = "PLATFORM"}

-----------------------------------------------------------------------------
(* The commands of the audit log.                                          *)

\* MUTANT of Classified: scopes are computed anew.
Classified_Anew(row) == [row EXCEPT !.scope = IF row.tenant = None THEN "SYSTEM" ELSE "TENANT"]

\* backfill classifies the rows that have no scope, by their organization.
Classified(row) ==
    IF row.scope # None THEN row ELSE [row EXCEPT !.scope = IF row.tenant = None THEN "SYSTEM" ELSE "TENANT"]

Backfill ==
    /\ log' = [i \in 1..Len(log) |-> Classified(log[i])]
    /\ UNCHANGED <<isActive, authority, archive, call, changes>>

\* archive copies the rows before the cutoff that are not archived yet.
ArchiveRows(cutoff) ==
    /\ archive' = [i \in 1..Len(log) |->
         IF i <= cutoff /\ ~archive[i].done THEN [scope |-> log[i].scope, done |-> TRUE] ELSE archive[i]]
    /\ UNCHANGED <<isActive, authority, log, call, changes>>

-----------------------------------------------------------------------------
(* Platform authority.                                                     *)

\* grantPlatformAuthority, in a transaction: the user is read, and active ...
GrantBegin(c, u) ==
    /\ call[c] = None
    /\ isActive[u]
    /\ call' = [call EXCEPT ![c] = u]
    /\ UNCHANGED <<isActive, authority, log, archive, changes>>

\* Is a grant recorded: did createMany insert the row?
Recorded(u) == u \notin authority

\* ... createMany adds the row unless it is there, and only a row that was
\* added is recorded.
GrantEnd(c) ==
    /\ call[c] # None /\ Len(log) < MaxRows
    /\ authority' = authority \cup {call[c]}
    /\ IF Recorded(call[c])
       THEN Append1(Event("PLATFORM", None, "granted", call[c]))
       ELSE UNCHANGED <<log, archive>>
    /\ call' = [call EXCEPT ![c] = None]
    /\ UNCHANGED <<isActive, changes>>

\* revokePlatformAuthority: of a user who need not be active.
Revoke(u) ==
    /\ Len(log) < MaxRows
    /\ authority' = authority \ {u}
    /\ IF u \in authority
       THEN Append1(Event("PLATFORM", None, "revoked", u))
       ELSE UNCHANGED <<log, archive>>
    /\ UNCHANGED <<isActive, call, changes>>

\* users.isActive changes: the authority stays.
ToggleAccount(u) ==
    /\ changes < MaxChanges
    /\ isActive' = [isActive EXCEPT ![u] = ~@]
    /\ changes' = changes + 1
    /\ UNCHANGED <<authority, log, archive, call>>

\* The process stops before the transaction commits.
GrantDies(c) ==
    /\ call[c] # None
    /\ call' = [call EXCEPT ![c] = None]
    /\ UNCHANGED <<isActive, authority, log, archive, changes>>

TrailNext ==
    \/ \E tenant \in Tenants \cup {None} :
         RecordUnscoped(tenant) \/ \E given \in Scopes \cup {None} : Record(given, tenant)
    \/ Backfill
    \/ \E cutoff \in 1..Len(log) : ArchiveRows(cutoff)
    \/ \E u \in Admins : Revoke(u) \/ ToggleAccount(u) \/ \E c \in Calls : GrantBegin(c, u)
    \/ \E c \in Calls : GrantEnd(c) \/ GrantDies(c)

TrailSpec == TrailInit /\ [][TrailNext]_trailVars

-----------------------------------------------------------------------------
(* Properties.                                                             *)

\* Types of the log and of the grants.
TrailTypeOK ==
    /\ isActive \in [Admins -> BOOLEAN] /\ authority \subseteq Admins
    /\ Len(log) \in 0..MaxRows /\ \A i \in 1..Len(log) : log[i] \in Row
    /\ Len(archive) = Len(log)
    /\ call \in [Calls -> Admins \cup {None}]

\* The rows that record event e of user u.
Events(e, u) == {i \in 1..Len(log) : log[i].event = e /\ log[i].about = u}

\* The log accounts for the authorities: over the whole log a user has one
\* more grant than revocations, or as many, as he has the authority or not;
\* although commands overlap, are repeated, and stop.
TrailMatchesAuthority ==
    \A u \in Admins :
        Cardinality(Events("granted", u)) - Cardinality(Events("revoked", u)) = IF u \in authority THEN 1 ELSE 0

\* What is recorded stays as it is, row by row: a classification adds the
\* scope a row does not have and leaves the others, so that nobody loses sight
\* of an event; and a copy, once archived, is not replaced.
RecordsStay ==
    [][<<log, archive>>' # <<log, archive>> =>
         /\ \A i \in 1..Len(log) :
              /\ i <= Len(log') /\ [log'[i] EXCEPT !.scope = None] = [log[i] EXCEPT !.scope = None]
              /\ archive[i].done => archive'[i] = archive[i]
         /\ \A tenant \in Tenants : ShownTo(tenant) \subseteq ShownTo(tenant)'
         /\ ShownToPlatform \subseteq ShownToPlatform']_trailVars
=============================================================================
