SPECIFICATION MCSpec
CONSTANTS
    Calls = {c1, c2}
    None = None
    LockAfter = 2
    MaxFailures = 3
    MaxChanges = 1
    Orgs = {o1, o2}
    Roles = {r1, r2}
    Platform = Platform
    Tokens = {t1, t2}
    Entries = {e1}
    MaxMoves = 2
    Keys = {k1}
    Challenges = {x1, x2}
    MaxUses = 3
    Oidc = {p1}
    Saml = {p2}
    Users = {u1}
    States = {y1, y2}
    Tickets = {l1, l2}
    Objects = {m1, m2}
SYMMETRY MCSymmetry
CHECK_DEADLOCK FALSE
INVARIANTS LoginsAreKept EachOpensOnce MediaIsKept
PROPERTIES LoginsAreGuarded SignOnRespectsAccess
