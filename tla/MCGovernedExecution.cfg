SPECIFICATION FairSpec
CONSTANTS
    Unset = Unset
    Absent = Absent
    Torn = Torn
    Unread = Unread
    NoPlan = NoPlan
    NoKey = NoKey
    Operations <- TwoOps
    Names <- TwoNames
    Namespaces <- OneNamespace
    ProfileDocs <- MCProfiles
    PolicyDocs <- MCPolicies
    Requests <- MCRequests
    Keys = {k1, k2}
    Runs = {r1}
    Second = 2
    Minute = 2
    TtlMinutes = {0, 1}
    MaxTime = 3
    MaxEdits = 2
INVARIANTS
    TypeOK
    ContactApproved
PROPERTIES
    ImplementsApprovalGate
    EveryRunEnds
CHECK_DEADLOCK FALSE
