SPECIFICATION Spec
CONSTANTS
    Unset = Unset
    Absent = Absent
    Torn = Torn
    Unread = Unread
    NoPlan = NoPlan
    NoKey = NoKey
    Operations <- TwoOps
    Names <- TwoNames
    Namespaces <- OneNamespace
    ProfileDocs <- MCProfiles
    PolicyDocs <- OnePolicy
    Requests <- MCRequests
    Keys = {k1}
    Runs = {r1, r2}
    Second = 2
    Minute = 2
    TtlMinutes = {0, 1}
    MaxTime = 2
    MaxEdits = 1
INVARIANT ContactIsTraced
SYMMETRY RunSymmetry
CHECK_DEADLOCK FALSE
