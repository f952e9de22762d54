SPECIFICATION Spec
CONSTANTS
    NoValue = NoValue
    Absent = Absent
    Partial = Partial
    Calls = {c1, c2, c3}
    Secrets = {s1, s2}
    Values = {v1}
    Keys = {k1, k2}
INVARIANTS
    TypeOK
PROPERTIES
    ChangedFromWhatWasRead
    AtomicAlone
SYMMETRY CallSymmetry
CHECK_DEADLOCK FALSE
