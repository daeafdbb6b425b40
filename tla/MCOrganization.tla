-------------------------- MODULE MCOrganization ---------------------------
(***************************************************************************)
(* Small instances of the modules about an organization: Tenancy, and what *)
(* its administrators and the maintenance commands keep beside it.  They   *)
(* touch different rows, so one behaviour follows one module, its focus,   *)
(* and the others stand still.                                             *)
(***************************************************************************)
EXTENDS MCTenancy

CONSTANTS None, Languages, Domains, Topics, MaxToggles, Hosts, Zones, TeamCodes,
          ProviderIds, Tenants, Names, MapRoles, MaxRows, MigratedRoles, BatchSize,
          Permissions, MaxTurns

VARIABLES
    focus,
    workspace, inactive, topicDomains, editing, toggles, raced,
    zone, settings, domain, configuring, configurations, apart,
    member, team, links, teaming, expected,
    provider, usable, connecting, connections,
    isActive, authority, log, archive, granting, deactivations,
    memberships, granted, command, edits, applied,
    person, arrival, seen, turns

workspaceVars == <<workspace, inactive, topicDomains, editing, toggles, raced>>
configurationVars == <<zone, settings, domain, configuring, configurations, apart>>
teamVars == <<member, team, links, teaming, expected>>
providerVars == <<provider, usable, connecting, connections>>
trailVars == <<isActive, authority, log, archive, granting, deactivations>>
maintenanceVars == <<memberships, granted, command, edits, applied>>
guardVars == <<person, arrival, seen, turns>>

\* Two users of the first organization, in the order of their ids.
InOrder == <<u1, u2>>
AtHome == [u \in Users |-> o1]
LegacyRoles == [u \in Users |-> CHOOSE r \in MigratedRoles : TRUE]

Workspace == INSTANCE Workspaces WITH Calls <- Admins, call <- editing
Configuration == INSTANCE OrganizationConfiguration
    WITH Calls <- Admins, Domains <- Hosts, MaxChanges <- 3,
         call <- configuring, changes <- configurations
Team == INSTANCE Teams WITH Calls <- Admins, Members <- Founders, call <- teaming
Provider == INSTANCE SsoProviders
    WITH Calls <- Admins, MaxChanges <- 3, call <- connecting, changes <- connections
Trail == INSTANCE AuditTrail
    WITH Admins <- Founders, Calls <- Admins, MaxChanges <- 1, call <- granting, changes <- deactivations
Maintenance == INSTANCE MembershipMaintenance
    WITH Calls <- Admins, Order <- InOrder, HomeOf <- AtHome, Legacy <- LegacyRoles,
         Roles <- MigratedRoles, MaxChanges <- 2,
         mem <- memberships, call <- command, changes <- edits
Guard == INSTANCE RequestGuards
    WITH Roles <- MigratedRoles, MaxChanges <- MaxTurns,
         user <- person, request <- arrival, changes <- turns

ASSUME OrganizationAssumption ==
    /\ Workspace!WorkspacesAssumption /\ Configuration!ConfigurationAssumption
    /\ Team!TeamsAssumption /\ Provider!ProvidersAssumption /\ Trail!TrailAssumption
    /\ Maintenance!MaintenanceAssumption /\ Guard!GuardsAssumption

\* What is not in focus starts in one of its initial states only.
MCInit ==
    /\ focus \in {"tenancy", "workspace", "configuration", "teams", "providers", "trail",
                  "maintenance", "guards"}
    /\ Init
    /\ Workspace!WorkspaceInit
    /\ focus # "workspace" => \A t \in Topics : topicDomains[t] = {}
    /\ Configuration!ConfigurationInit
    /\ focus # "configuration" => zone = (CHOOSE z \in Zones : TRUE) /\ settings = None
    /\ Team!TeamsInit /\ (focus # "teams" => \A m \in Founders : member[m] = None)
    /\ Provider!ProvidersInit
    /\ focus # "providers" => \A p \in ProviderIds : provider[p] = None
    /\ Trail!TrailInit /\ (focus # "trail" => \A u \in Founders : isActive[u])
    /\ Maintenance!MaintenanceInit
    /\ focus # "maintenance" => \A m \in DOMAIN memberships : memberships[m] = None
    /\ Guard!GuardsInit /\ person.organization
    /\ \A r \in MigratedRoles : person.roleActive[r] /\ person.granted[r] = {}
    /\ focus # "guards" => person.role = None

MCNext ==
    /\ UNCHANGED focus
    /\ \/ /\ focus = "tenancy" /\ Next
          /\ UNCHANGED <<workspaceVars, configurationVars, teamVars, providerVars,
                        trailVars, maintenanceVars, guardVars>>
       \/ /\ focus = "workspace" /\ Workspace!WorkspaceNext
          /\ UNCHANGED <<vars, configurationVars, teamVars, providerVars,
                        trailVars, maintenanceVars, guardVars>>
       \/ /\ focus = "configuration" /\ Configuration!ConfigurationNext
          /\ UNCHANGED <<vars, workspaceVars, teamVars, providerVars,
                        trailVars, maintenanceVars, guardVars>>
       \/ /\ focus = "teams" /\ Team!TeamsNext
          /\ UNCHANGED <<vars, workspaceVars, configurationVars, providerVars,
                        trailVars, maintenanceVars, guardVars>>
       \/ /\ focus = "providers" /\ Provider!ProvidersNext
          /\ UNCHANGED <<vars, workspaceVars, configurationVars, teamVars,
                        trailVars, maintenanceVars, guardVars>>
       \/ /\ focus = "trail" /\ Trail!TrailNext
          /\ UNCHANGED <<vars, workspaceVars, configurationVars, teamVars,
                        providerVars, maintenanceVars, guardVars>>
       \/ /\ focus = "maintenance" /\ Maintenance!MaintenanceNext
          /\ UNCHANGED <<vars, workspaceVars, configurationVars, teamVars,
                        providerVars, trailVars, guardVars>>
       \/ /\ focus = "guards" /\ Guard!GuardsNext
          /\ UNCHANGED <<vars, workspaceVars, configurationVars, teamVars,
                        providerVars, trailVars, maintenanceVars>>

MCSpec == MCInit /\ [][MCNext]_<<focus, vars, workspaceVars, configurationVars, teamVars,
                                 providerVars, trailVars, maintenanceVars, guardVars>>

\* What stands still needs no second look: each part is asked for in the
\* behaviours that follow its module.

\* Tenancy: a user has one default among his active memberships, roles stay in
\* their tenant, and an active membership keeps its role, outside the races
\* named there.
MembershipsAreSound ==
    focus = "tenancy" => TypeOK /\ DefaultsAreSound /\ RolesStayInTenant /\ ActiveKeepsRole

\* Workspaces, OrganizationConfiguration and Teams: what calls that overlap have
\* configured fits together, outside the races these modules name.
ConfigurationIsConsistent ==
    /\ focus = "workspace" => Workspace!WorkspaceTypeOK /\ Workspace!SelectionsFit
    /\ focus = "configuration" => Configuration!ConfigurationTypeOK /\ Configuration!ZonesAgree
    /\ focus = "teams" => Team!TeamsTypeOK /\ Team!TeamsAreReplaced
    /\ focus = "providers" => Provider!ProvidersTypeOK

\* Workspaces, OrganizationConfiguration and SsoProviders: a call does not undo
\* the decision of another that ended meanwhile, outside the races they name.
DecisionsStand ==
    /\ Workspace!ArchivedStays /\ Configuration!SettledUnlessRaced
    /\ Provider!UnnamedStays /\ Provider!TenantUnlessRaced

\* AuditTrail and MembershipMaintenance: what the commands have recorded, and
\* what they reported as applied, is so.
CommandsReportTruly ==
    /\ focus = "trail" => Trail!TrailTypeOK /\ Trail!TrailMatchesAuthority
    /\ focus = "maintenance" => Maintenance!MaintenanceTypeOK /\ Maintenance!AppliedIsComplete

\* AuditTrail and MembershipMaintenance: the commands leave what they find.
CommandsOnlyComplete == Trail!RecordsStay /\ Maintenance!CommandsOnlyAdd

\* RequestGuards: nobody is let in on rows that were never good together, unless
\* they changed against the order of the reads.
GuardsAdmitOnGrounds == focus = "guards" => Guard!GuardsTypeOK /\ Guard!AdmittedOnGrounds
=============================================================================
