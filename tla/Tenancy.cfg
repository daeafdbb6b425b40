SPECIFICATION MCSpec
CONSTANTS
    u1 = u1  u2 = u2  o1 = o1  o2 = o2  r1 = r1  a1 = a1  a2 = a2
    SystemRole = SystemRole  NoRole = NoRole
    Users <- TwoUsers
    Orgs <- TwoOrgs
    Home <- Homes
    Established <- OneOrg
    Founders <- OneFounder
    TenantRoles <- OneRole
    RoleOrg <- RoleOfFirst
    Managed <- TwoOrgs
    MaxChecked = 1
    Admins <- TwoAdmins
    None = None
    Languages = {g1}
    Domains = {d1}
    Topics = {t1}
    MaxToggles = 1
    Hosts = {h1}
    Zones = {z1, z2}
    TeamCodes = {tc1, tc2}
    ProviderIds = {p1}
    Tenants = {tn1, tn2}
    Names = {n1}
    MapRoles = {q1}
    MaxRows = 3
    MigratedRoles = {q1, q2}
    BatchSize = 2
    Permissions = {w1, w2}
    MaxTurns = 2
SYMMETRY AdminSymmetry
CHECK_DEADLOCK FALSE
INVARIANTS MembershipsAreSound LiveIsProvisioned ConfigurationIsConsistent CommandsReportTruly GuardsAdmitOnGrounds
PROPERTIES LifecycleRespected DecisionsStand CommandsOnlyComplete
