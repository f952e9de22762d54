SPECIFICATION Spec
CONSTANTS
    NoValue = NoValue
    Absent = Absent
    Partial = Partial
    Calls = {c1, c2}
    Secrets = {s1, s2}
    Values = {v1}
    Keys = {k1}
INVARIANT SetsAreKept
SYMMETRY CallSymmetry
CHECK_DEADLOCK FALSE
