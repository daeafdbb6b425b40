SPECIFICATION FairSpec
CONSTANTS
    Members = {m1}
    TenantRoles = {t1}
    SystemRole = system
    Permissions = {p1}
    Admins = {a1, a2}
    Readers = {d1}
    None = None
    MaxVersion = 3
    MaxUnderWay = 2
INVARIANTS TypeOK ServedIsGranted
PROPERTIES ReplacedExactly OutdatedLapses
