SPECIFICATION MCSpec
CONSTANTS
    Orgs = {o1}
    Plans = {p1}
    Subs = {s1, s2}
    Admins = {a1, a2}
    Readers = {r1}
    None = None
    Terms <- MCTerms
    MaxTime = 3
    MaxVersion = 3
    MaxUnderWay = 2
    Limits = {l1}
    QuotaPlans = {q1}
    QuotaTerms <- MCQuotaTerms
    MaxDay = 1
    Operators = {b1}
    Resolutions = {c1}
    MaxChanges = 2
SYMMETRY MCSymmetry
CHECK_DEADLOCK FALSE
INVARIANTS MCTypeOK OneCurrent CachedIsCurrent QuotaWasInForce
PROPERTY ChangesAreInOrder
