------------------------ MODULE MCGovernedExecution ------------------------
(* One connection, two revisions of its profile and of its gateway policy. *)
EXTENDS GovernedExecution, TLC

OneNamespace == {"default"}
TwoNames     == {"erp", "gw"}
TwoOps       == {"listOrders", "postOrder"}

Doc(class, cleanup) ==
    [name |-> "erp", namespace |-> "default", classification |-> class,
     allowedAccess |-> {"read", "write"}, allowedModes |-> {"connect", "materialize"},
     defaultMode |-> "connect", rawReveal |-> FALSE, approvalAccess |-> {"write"},
     approvalModes |-> {}, policyRef |-> Unset, backendRef |-> Unset,
     leaseTtl |-> 1, cleanupOnExit |-> cleanup]

MCProfiles == {Doc("public", TRUE), Doc("confidential", FALSE)}

Gateway(decision) ==
    [id |-> <<"gw", "default">>, default |-> decision,
     overrides |-> [c \in Classifications |-> Unset], rules |-> << >>]

MCPolicies == {Gateway("approval_required"), Gateway("deny")}

OnePolicy == {Gateway("deny")}

MCRequests ==
    {[access |-> "write", mode |-> Unset, operation |-> "postOrder"],
     [access |-> "read", mode |-> "materialize", operation |-> "listOrders"]}

RunSymmetry == Permutations(Runs)
=============================================================================
