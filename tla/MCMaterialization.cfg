SPECIFICATION Spec
CONSTANTS
    NoRun = NoRun
    Runs = {r1, r2}
    Second = 2
    Ttl = 1
    MaxTime = 3
INVARIANTS
    TypeOK
    SweepRemovesWhatIsDue
    SweepSparesCompleteBundles
PROPERTIES
    ImplementsLeaseDirectories
SYMMETRY RunSymmetry
CHECK_DEADLOCK FALSE
