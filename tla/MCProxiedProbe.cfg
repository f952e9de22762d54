SPECIFICATION Spec
CONSTANTS
    Local = "localhost"
    TcpState = TcpState
    AnyPort = AnyPort
    NoPort = NoPort
    NoPolicy = NoPolicy
    Hosts <- MCHosts
    Below <- MCBelow
    Ports = {80, 443}
    Targets <- MCTargets
    Policies <- MCPolicies
    Conns = {k1, k2}
INVARIANT CoveredHasNoViolation
SYMMETRY ConnSymmetry
CHECK_DEADLOCK FALSE
