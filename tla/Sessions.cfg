SPECIFICATION Spec
CONSTANTS
    Sessions = {s1, s2, s3}
    Calls = {c1, c2}
    None = None
    MaxPasswords = 1
SYMMETRY MCSymmetry
CHECK_DEADLOCK FALSE
INVARIANTS OneLivePerLogin FormerPasswordEnds
PROPERTIES EndedIsFinal
