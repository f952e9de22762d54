SPECIFICATION Spec
CONSTANTS
    V1 = V1
    Unset = Unset
    None = None
    NotANumber = NotANumber
    Names = {"alpha", "beta"}
    Namespaces = {"default", "team"}
    Default = "default"
    Sources = {1, 2, 3, 4, 5, 6, 7}
    SpecPaths <- MCSpecPaths
    Values <- MCValues
    Versions = {V1}
    PackNames = {"alpha", "beta"}
    PackVersions = {1, 2}
    Manifests <- MCManifests
    Capabilities = {"command-api", "resource-registry"}
    Activations <- MCActivations
    Requests <- MCRequests
    CoreVersions <- MCCoreVersions
    MaxManifests = 2
    MaxActivations = 3
INVARIANTS
    TypeOK
    StateIsLastWord
    HealthyIsInEffect
    LayersDecide
    CompatibilityIsLastWord
    ProvenanceIsComplete
    RangesCompareNumbers
    PlanForetells
CHECK_DEADLOCK FALSE
