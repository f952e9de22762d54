SPECIFICATION Spec
CONSTANTS
    Unset = Unset
    Operations <- TwoOps
    Names <- TwoNames
    Namespaces <- OneNamespace
    ProfileDocs <- MCProfiles
    PolicyDocs <- MCPolicies
    RuleDocs <- MCRules
    Backends = {"gw"}
    Requests <- MCRequests
    MaxRules = 2
INVARIANTS
    TypeOK
    DecisionIsStrictest
    RevealNeedsApproval
PROPERTIES
    AppendedRuleIsShadowed
    AddedPolicyNeverLoosens
