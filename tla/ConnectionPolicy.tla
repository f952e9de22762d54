-------------------------- MODULE ConnectionPolicy --------------------------
(***************************************************************************)
(* What the control plane decides about a requested connection usage:      *)
(* kernel/gateway.py (ordered gateway rules) and kernel/security.py (the   *)
(* connection profile, and how the gateway's verdict is combined with it). *)
(* Constant-level operators only; ConnectionExplain and GovernedExecution  *)
(* use them from their actions.                                            *)
(*                                                                         *)
(* A malformed document and a dangling reference end in the same error     *)
(* envelope, so only the reference is modelled.  The substring test of     *)
(* operationContains is the set of operations that contain the text.       *)
(***************************************************************************)
EXTENDS Naturals, Sequences

CONSTANTS
    Operations,     \* operation texts a request can name
    Names,          \* resource names
    Namespaces,     \* resource namespaces
    Unset           \* an absent or blank field

Accesses        == {"read", "write", "admin"}
Modes           == {"connect", "materialize", "reveal"}
Classifications == {"public", "internal", "confidential", "restricted"}
Decisions       == {"allow", "approval_required", "deny"}

ASSUME UnsetAssumption ==
    Unset \notin Accesses \cup Modes \cup Classifications \cup Decisions
                 \cup Names \cup Namespaces \cup (Names \X Namespaces)

Optional(S) == S \cup {Unset}

Rule == [access         : Optional(Accesses),
         classification : Optional(Classifications),
         mode           : Optional(Modes),
         namespace      : Optional(Namespaces),
         contains       : SUBSET Operations,
         decision       : Decisions]

Policy == [id        : Names \X Namespaces,
           default   : Decisions,
           overrides : [Classifications -> Optional(Decisions)],
           rules     : Seq(Rule)]

\* leaseTtl and cleanupOnExit are spec.materialization: execution reads them, no
\* decision does.
Profile == [name           : Names,
            namespace      : Namespaces,
            classification : Classifications,
            allowedAccess  : SUBSET Accesses,
            allowedModes   : SUBSET Modes,
            defaultMode    : Modes,
            rawReveal      : BOOLEAN,
            approvalAccess : SUBSET Accesses,
            approvalModes  : SUBSET Modes,
            policyRef      : Optional(Names \X Namespaces),
            backendRef     : Optional(Names),
            leaseTtl       : Nat \ {0},
            cleanupOnExit  : BOOLEAN]

Request == [access    : Accesses,
            mode      : Optional(Modes),
            operation : Operations]

\* The policies, and the secret backends of the profile's namespace, that the
\* registry holds.  Its keys are unique, so no two policies share an id.
Registry == {reg \in [policies : SUBSET Policy, backends : SUBSET Names] :
                \A p, q \in reg.policies : p.id = q.id => p = q}

-----------------------------------------------------------------------------
(* The gateway: the first rule that matches decides; failing that the      *)
(* classification's override; failing that the policy's default.           *)

Expects(expected, actual) == expected \in {Unset, actual}

RuleMatches(rule, namespace, classification, mode, request) ==
    /\ Expects(rule.access, request.access)
    /\ Expects(rule.classification, classification)
    /\ Expects(rule.mode, mode)
    /\ Expects(rule.namespace, namespace)
    /\ request.operation \in rule.contains

MatchingRules(policy, classification, mode, request) ==
    {i \in DOMAIN policy.rules :
        RuleMatches(policy.rules[i], policy.id[2], classification, mode, request)}

FallbackVerdict(policy, classification) ==
    IF policy.overrides[classification] # Unset THEN policy.overrides[classification]
                                                ELSE policy.default

\* Mutant: the loop does not stop at the first match.
LastMatchVerdict(policy, classification, mode, request) ==
    LET hits == MatchingRules(policy, classification, mode, request)
    IN  IF hits = {} THEN FallbackVerdict(policy, classification)
        ELSE policy.rules[CHOOSE i \in hits : \A j \in hits : i >= j].decision

GatewayVerdict(policy, classification, mode, request) ==
    LET hits == MatchingRules(policy, classification, mode, request)
    IN  IF hits = {} THEN FallbackVerdict(policy, classification)
        ELSE policy.rules[CHOOSE i \in hits : \A j \in hits : i <= j].decision

-----------------------------------------------------------------------------
(* The connection profile.                                                 *)

EffectiveMode(profile, request) ==
    IF request.mode = Unset THEN profile.defaultMode ELSE request.mode

ProfileRefuses(profile, request) ==
    \/ request.access \notin profile.allowedAccess
    \/ EffectiveMode(profile, request) \notin profile.allowedModes
    \/ EffectiveMode(profile, request) = "reveal" /\ ~profile.rawReveal

\* Mutant: the profile's own lists decide, reveal or not.
ListedApprovalOnly(profile, request) ==
    \/ request.access \in profile.approvalAccess
    \/ EffectiveMode(profile, request) \in profile.approvalModes

ProfileWantsApproval(profile, request) ==
    LET mode == EffectiveMode(profile, request)
    IN  \/ request.access \in profile.approvalAccess
        \/ mode \in profile.approvalModes
        \/ mode = "materialize" /\ profile.classification \in {"confidential", "restricted"}
        \/ mode = "reveal"
        \/ /\ request.access \in {"write", "admin"}
           /\ profile.classification \in {"internal", "confidential", "restricted"}

\* The gateway policies a profile is subject to: the one it names or, when it
\* names none, every policy of its namespace.
PoliciesFor(profile, registry) ==
    {p \in registry.policies :
        IF profile.policyRef = Unset THEN p.id[2] = profile.namespace
                                     ELSE p.id = profile.policyRef}

BackendMissing(profile, registry) ==
    profile.backendRef # Unset /\ profile.backendRef \notin registry.backends

\* Mutant: an ambiguous choice of policy goes through.
PolicyDangling(profile, registry) ==
    profile.policyRef # Unset /\ PoliciesFor(profile, registry) = {}

PolicyUnresolved(profile, registry) ==
    LET candidates == PoliciesFor(profile, registry)
    IN  IF profile.policyRef = Unset THEN \E p, q \in candidates : p # q
                                     ELSE candidates = {}

-----------------------------------------------------------------------------
(* The decision.  "error" stands for the ValueError of a configuration     *)
(* that does not resolve.  A decision keeps the policy's name only.        *)

Decision == [outcome : Decisions \cup {"error"},
             policy  : Optional(Names),
             gateway : Optional(Decisions)]

\* Mutant: the combined outcome is recorded as the gateway's.
DecideEchoed(outcome, policy, gateway) ==
    [outcome |-> outcome, policy |-> policy, gateway |-> outcome]

Decide(outcome, policy, gateway) ==
    [outcome |-> outcome, policy |-> policy, gateway |-> gateway]

ProfileVerdict(profile, request) ==
    CASE ProfileRefuses(profile, request)        -> "deny"
      [] ~ProfileRefuses(profile, request)
         /\ ProfileWantsApproval(profile, request) -> "approval_required"
      [] OTHER                                   -> "allow"

\* Mutant: the gateway has the last word.
CombineRelaxed(own, verdict) == verdict

\* A gateway "allow" leaves the profile's own requirement in place.
Combine(own, verdict) ==
    CASE verdict = "deny"              -> "deny"
      [] verdict = "approval_required" -> "approval_required"
      [] verdict = "allow"             -> own

EvaluateConnectionProfile(profile, registry, request) ==
    LET own        == ProfileVerdict(profile, request)
        candidates == PoliciesFor(profile, registry)
        policy     == CHOOSE p \in candidates : TRUE
        verdict    == GatewayVerdict(policy, profile.classification,
                                     EffectiveMode(profile, request), request)
    IN  IF BackendMissing(profile, registry) THEN Decide("error", Unset, Unset)
        ELSE IF own = "deny" THEN Decide("deny", Unset, Unset)
        ELSE IF PolicyUnresolved(profile, registry) THEN Decide("error", Unset, Unset)
        ELSE IF candidates = {} THEN Decide(own, Unset, Unset)
        ELSE Decide(Combine(own, verdict), policy.id[1], verdict)

=============================================================================
