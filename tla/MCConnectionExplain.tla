------------------------ MODULE MCConnectionExplain ------------------------
(* ConnectionExplain on two profiles' worth of documents in one namespace. *)
EXTENDS ConnectionExplain

OneNamespace == {"default"}
TwoNames     == {"erp", "gw"}
TwoOps       == {"listOrders", "postOrder"}

Doc(class, access, modes, mode, raw, wantAccess, wantModes, ref, backend) ==
    [name |-> "erp", namespace |-> "default", classification |-> class,
     allowedAccess |-> access, allowedModes |-> modes, defaultMode |-> mode,
     rawReveal |-> raw, approvalAccess |-> wantAccess, approvalModes |-> wantModes,
     policyRef |-> ref, backendRef |-> backend,
     leaseTtl |-> 1, cleanupOnExit |-> TRUE]

MCProfiles ==
    {Doc(class, {"read", "write"}, Modes, "materialize", TRUE, {}, {"connect"}, ref, Unset) :
        class \in {"public", "confidential"},
        ref   \in {Unset, <<"gw", "default">>}}
    \cup {Doc("public", {"read"}, {"connect"}, "connect", FALSE, {}, {}, Unset, Unset),
          [Doc("public", Accesses, Modes, "reveal", FALSE, {}, {}, Unset, "gw")
             EXCEPT !.name = "gw"]}

NoOverride == [c \in Classifications |-> Unset]

MCPolicies ==
    {[id |-> <<name, "default">>, default |-> d, rules |-> << >>,
      overrides |-> [NoOverride EXCEPT !["public"] = o]] :
        name \in TwoNames, <<d, o>> \in {<<"allow", "approval_required">>, <<"deny", "allow">>}}

MCRules ==
    {[access |-> Unset, classification |-> Unset, mode |-> "connect", namespace |-> Unset,
      contains |-> {"postOrder"}, decision |-> "deny"],
     [access |-> "read", classification |-> Unset, mode |-> Unset, namespace |-> "default",
      contains |-> TwoOps, decision |-> "allow"]}

MCRequests ==
    {[access |-> a, mode |-> how[1], operation |-> how[2]] :
        a   \in {"read", "write"},
        how \in {<<Unset, "listOrders">>, <<"connect", "postOrder">>, <<"reveal", "postOrder">>}}
=============================================================================
