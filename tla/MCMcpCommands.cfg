SPECIFICATION Spec
CONSTANTS
    Trust = Trust
    Quarantine = Quarantine
    Npx = Npx
    Missing = Missing
    BadTier = BadTier
    Unset = Unset
    Absent = Absent
    Empty = Empty
    Garbled = Garbled
    None = None
    Names = {1, 2}
    Paths <- MCPaths
    ServerPath <- MCServerPath
    PolicyPath <- MCPolicyPath
    Directories <- MCDirectories
    Commands = {Npx, Missing}
    Startable = {Npx}
    Tiers = {Trust, Quarantine}
    Trusted = {Trust}
    Quarantined = Quarantine
    Requests <- MCRequests
    Calls = {c1, c2, c3}
INVARIANTS
    TypeOK
    DisabledStays
    AddedPolicyGoverns
    ReportWasTrue
PROPERTY ExistingFilesKept
SYMMETRY CallSymmetry
CHECK_DEADLOCK FALSE
