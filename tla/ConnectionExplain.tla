------------------------- MODULE ConnectionExplain -------------------------
(***************************************************************************)
(* `ccp connection explain` over resource files that somebody edits        *)
(* between two calls (surfaces/cli_dispatch.py, build_connection_payload). *)
(* Every call loads the files anew, resolves one connection profile, and   *)
(* answers with the decision of ConnectionPolicy; it keeps nothing.        *)
(***************************************************************************)
EXTENDS ConnectionPolicy

CONSTANTS
    ProfileDocs,    \* connection profiles an editor may put in place
    PolicyDocs,     \* gateway policies an editor may add
    RuleDocs,       \* rules an editor may append to a policy
    Backends,       \* secret backends an editor may add
    Requests,       \* requests a caller may ask about
    MaxRules        \* bound on the rules of one policy

ASSUME DocsAssumption ==
    /\ ProfileDocs \subseteq Profile
    /\ PolicyDocs \subseteq Policy
    /\ RuleDocs \subseteq Rule
    /\ Backends \subseteq Names
    /\ Requests \subseteq Request
    /\ MaxRules \in Nat

VARIABLES
    profiles,       \* the ConnectionProfile documents on disk
    registry,       \* the GatewayPolicy and SecretBackend documents on disk
    answer          \* the envelope just printed: what was asked, of which profile, the
                    \* decision; nothing once the files have been edited again

vars == <<profiles, registry, answer>>

NoAnswer == [asked |-> Unset]

Answer == [asked : Request, of : Profile, decision : Decision]

TypeOK ==
    /\ profiles \subseteq Profile
    /\ registry \in Registry
    /\ answer \in Answer \cup {NoAnswer}

Init ==
    /\ profiles = {}
    /\ registry = [policies |-> {}, backends |-> {}]
    /\ answer = NoAnswer

-----------------------------------------------------------------------------
(* An editor of the resource files.                                        *)

SameKey(p, q) == p.name = q.name /\ p.namespace = q.namespace

PutProfile ==
    \E p \in ProfileDocs :
        /\ profiles' = {q \in profiles : ~SameKey(p, q)} \cup {p}
        /\ answer' = NoAnswer
        /\ UNCHANGED registry

AddPolicy ==
    \E p \in PolicyDocs :
        /\ \A q \in registry.policies : q.id # p.id
        /\ registry' = [registry EXCEPT !.policies = @ \cup {p}]
        /\ answer' = NoAnswer
        /\ UNCHANGED profiles

RemovePolicy ==
    \E p \in registry.policies :
        /\ registry' = [registry EXCEPT !.policies = @ \ {p}]
        /\ answer' = NoAnswer
        /\ UNCHANGED profiles

AppendRule ==
    \E p \in registry.policies, rule \in RuleDocs :
        /\ Len(p.rules) < MaxRules
        /\ registry' = [registry EXCEPT !.policies =
                            (@ \ {p}) \cup {[p EXCEPT !.rules = Append(@, rule)]}]
        /\ answer' = NoAnswer
        /\ UNCHANGED profiles

ToggleBackend ==
    \E b \in Backends :
        /\ registry' = [registry EXCEPT !.backends =
                            IF b \in @ THEN @ \ {b} ELSE @ \cup {b}]
        /\ answer' = NoAnswer
        /\ UNCHANGED profiles

-----------------------------------------------------------------------------
(* The command.  With a name the profile is looked up; without one the     *)
(* namespace must hold exactly one profile, else the call ends in an error *)
(* envelope before any decision.                                           *)

ConnectionDocuments(name, namespace) ==
    {p \in profiles : p.namespace = namespace /\ name \in {Unset, p.name}}

Explain ==
    \E name \in Optional(Names), namespace \in Namespaces, request \in Requests :
        LET found == ConnectionDocuments(name, namespace)
        IN  /\ \/ \E p \in found :
                    /\ found = {p}
                    /\ answer' = [asked    |-> request,
                                  of       |-> p,
                                  decision |-> EvaluateConnectionProfile(p, registry, request)]
               \/ /\ \A p \in found : found # {p}
                  /\ answer' = NoAnswer
            /\ UNCHANGED <<profiles, registry>>

Next ==
    \/ PutProfile
    \/ AddPolicy
    \/ RemovePolicy
    \/ AppendRule
    \/ ToggleBackend
    \/ Explain

Spec == Init /\ [][Next]_vars

-----------------------------------------------------------------------------
(* Properties.                                                             *)

Strictness(outcome) ==
    CASE outcome = "allow"             -> 0
      [] outcome = "approval_required" -> 1
      [] outcome = "deny"              -> 2
      [] outcome = "error"             -> 3

Outcome(p, reg, request) == EvaluateConnectionProfile(p, reg, request).outcome

\* The answer is the strictest of what the profile and the gateway policies in
\* force say of the request: neither can relax the other, whatever the order in
\* which evaluate_connection_profile looks at them.
DecisionIsStrictest ==
    (answer # NoAnswer /\ answer.decision.outcome # "error") =>
        LET mode   == EffectiveMode(answer.of, answer.asked)
            voices == {ProfileVerdict(answer.of, answer.asked)}
                      \cup {GatewayVerdict(q, answer.of.classification, mode, answer.asked) :
                              q \in PoliciesFor(answer.of, registry)}
        IN  /\ answer.decision.outcome \in voices
            /\ \A v \in voices : Strictness(v) <= Strictness(answer.decision.outcome)

\* No profile and no gateway policy lets a raw secret be revealed without one
\* explicit approval, the override and the default of a policy included.
RevealNeedsApproval ==
    (answer # NoAnswer /\ EffectiveMode(answer.of, answer.asked) = "reveal") =>
        answer.decision.outcome # "allow"

\* Appending a rule to a policy changes the outcome of no request that one of
\* the policy's rules already matched (the loop of evaluate_gateway_policy stops
\* at the first match).
AppendedRuleIsShadowed ==
    [][AppendRule =>
         \A p \in registry.policies, q \in registry'.policies, r \in Requests,
            c \in Classifications, m \in Modes :
            (p.id = q.id /\ MatchingRules(p, c, m, r) # {}) =>
                GatewayVerdict(q, c, m, r) = GatewayVerdict(p, c, m, r)]_vars

\* Adding a gateway policy never loosens a decision that resolved before: it
\* tightens it, leaves it, or makes the reference ambiguous (an error).
AddedPolicyNeverLoosens ==
    [][AddPolicy =>
         \A p \in profiles, r \in Requests :
            Outcome(p, registry, r) # "error" =>
                Strictness(Outcome(p, registry, r)) <= Strictness(Outcome(p, registry', r))]_vars

=============================================================================
