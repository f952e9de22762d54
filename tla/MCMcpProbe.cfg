SPECIFICATION FairSpec
CONSTANTS
    Local = "localhost"
    TcpState = TcpState
    AnyPort = AnyPort
    NoPort = NoPort
    NoPolicy = NoPolicy
    Hosts <- MCHosts
    Below <- MCBelow
    Ports = {80, 443}
    Targets <- MCTargets
    Policies <- MCPolicies
    Conns = {k1, k2}
INVARIANTS
    TypeOK
    NothingLeftBehind
    RefusedIsReported
    AdmittedIsNoViolation
PROPERTY ProbeEnds
CHECK_DEADLOCK FALSE
