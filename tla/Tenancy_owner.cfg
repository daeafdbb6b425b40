SPECIFICATION Spec
CONSTANTS
    u1 = u1  u2 = u2  o1 = o1  o2 = o2  r1 = r1  a1 = a1  a2 = a2
    SystemRole = SystemRole  NoRole = NoRole
    Users <- TwoUsers
    Orgs <- OneOrg
    Home <- SameHome
    Established <- OneOrg
    Founders <- TwoFounders
    TenantRoles <- OneRole
    RoleOrg <- RoleOfFirst
    Managed <- OneOrg
    MaxChecked = 1
    Admins <- OneAdmin
PROPERTY LastOwnerStays
