---------------------- MODULE ConnectionExplainProofs ----------------------
(***************************************************************************)
(* What MCConnectionExplain checks on two policies and two names, proved   *)
(* for every set of documents and requests and policies of any length.     *)
(***************************************************************************)
EXTENDS ConnectionExplain, WellFoundedInduction, TLAPS

-----------------------------------------------------------------------------
(* The decision operators of ConnectionPolicy, for every set of names,     *)
(* namespaces and operations and every policy of any length.               *)

\* A set of naturals that is not empty has a least element.
LEMMA LeastNatural ==
    ASSUME NEW S \in SUBSET Nat, S # {}
    PROVE  \E i \in S : \A j \in S : i <= j
<1> DEFINE Below == {ss \in Nat \X Nat : ss[1] < ss[2]}
<1>1. IsWellFoundedOn(Below, Nat)
  BY NatLessThanWellFounded, Zenon DEF OpToRel
<1>2. PICK i \in S : \A j \in S : <<j, i>> \notin Below
  <2> HIDE DEF Below
  <2> QED
    BY <1>1, WFMin
<1>3. ASSUME NEW j \in S PROVE i <= j
  <2>1. <<j, i>> \in Nat \X Nat /\ <<j, i>> \notin Below
    BY <1>2
  <2>2. ~(<<j, i>>[1] < <<j, i>>[2])
    BY <2>1
  <2> QED
    BY <2>2
<1> QED
  BY <1>3

\* When rules match, the verdict is the one of a matching rule before which no
\* other rule matches.
LEMMA FirstMatchDecides ==
    ASSUME NEW policy \in Policy, NEW class, NEW mode, NEW request,
           MatchingRules(policy, class, mode, request) # {}
    PROVE  \E i \in MatchingRules(policy, class, mode, request) :
              /\ \A j \in MatchingRules(policy, class, mode, request) : i <= j
              /\ GatewayVerdict(policy, class, mode, request) = policy.rules[i].decision
<1> DEFINE hits  == MatchingRules(policy, class, mode, request)
           first == CHOOSE i \in hits : \A j \in hits : i <= j
<1>1. hits \in SUBSET Nat
  BY DEF MatchingRules, Policy
<1>2. \E i \in hits : \A j \in hits : i <= j
  BY <1>1, LeastNatural
<1>3. first \in hits /\ \A j \in hits : first <= j
  BY <1>2
<1>4. GatewayVerdict(policy, class, mode, request) = policy.rules[first].decision
  BY DEF GatewayVerdict
<1> QED
  BY <1>3, <1>4

\* evaluate_gateway_policy returns one of the three decisions.
LEMMA GatewayVerdictType ==
    ASSUME NEW policy \in Policy, NEW class \in Classifications, NEW mode, NEW request
    PROVE  GatewayVerdict(policy, class, mode, request) \in Decisions
<1>1. CASE MatchingRules(policy, class, mode, request) = {}
  <2>1. GatewayVerdict(policy, class, mode, request) = FallbackVerdict(policy, class)
    BY <1>1 DEF GatewayVerdict
  <2>2. /\ policy.default \in Decisions
        /\ policy.overrides[class] \in Optional(Decisions)
    BY DEF Policy
  <2> QED
    BY <2>1, <2>2 DEF FallbackVerdict, Optional
<1>2. CASE MatchingRules(policy, class, mode, request) # {}
  <2>1. PICK i \in MatchingRules(policy, class, mode, request) :
            GatewayVerdict(policy, class, mode, request) = policy.rules[i].decision
    BY <1>2, FirstMatchDecides
  <2>2. policy.rules \in Seq(Rule) /\ i \in DOMAIN policy.rules
    BY <2>1 DEF Policy, MatchingRules
  <2>3. policy.rules[i] \in Rule
    BY <2>2
  <2> QED
    BY <2>1, <2>3 DEF Rule
<1> QED
  BY <1>1, <1>2

LEMMA ProfileVerdictType ==
    ASSUME NEW profile, NEW request
    PROVE  ProfileVerdict(profile, request) \in Decisions
BY DEF ProfileVerdict, Decisions

\* Combining two verdicts gives one of them.
LEMMA CombineType ==
    ASSUME NEW own \in Decisions, NEW verdict \in Decisions
    PROVE  Combine(own, verdict) \in {own, verdict}
BY DEF Decisions, Combine

\* The three ways in which evaluate_connection_profile comes to a decision: the
\* profile refuses by itself, no policy is in force, or exactly one is, and its
\* verdict is combined with the profile's.
LEMMA EvaluationCases ==
    ASSUME NEW profile \in Profile, NEW reg \in Registry, NEW request \in Request,
           EvaluateConnectionProfile(profile, reg, request).outcome # "error"
    PROVE  LET own        == ProfileVerdict(profile, request)
               decision   == EvaluateConnectionProfile(profile, reg, request)
               verdict(p) == GatewayVerdict(p, profile.classification,
                                            EffectiveMode(profile, request), request)
           IN  \/ own = "deny" /\ decision = Decide("deny", Unset, Unset)
               \/ /\ own # "deny"
                  /\ PoliciesFor(profile, reg) = {}
                  /\ decision = Decide(own, Unset, Unset)
               \/ /\ own # "deny"
                  /\ \E p \in PoliciesFor(profile, reg) :
                        /\ PoliciesFor(profile, reg) = {p}
                        /\ decision = Decide(Combine(own, verdict(p)), p.id[1], verdict(p))
<1> DEFINE own        == ProfileVerdict(profile, request)
           candidates == PoliciesFor(profile, reg)
           policy     == CHOOSE p \in candidates : TRUE
           verdict(p) == GatewayVerdict(p, profile.classification,
                                        EffectiveMode(profile, request), request)
           decision   == EvaluateConnectionProfile(profile, reg, request)
<1>1. Decide("error", Unset, Unset).outcome = "error"
  BY DEF Decide
<1>2. ~BackendMissing(profile, reg)
  BY <1>1 DEF EvaluateConnectionProfile
<1>3. CASE own = "deny"
  BY <1>2, <1>3 DEF EvaluateConnectionProfile
<1>4. CASE own # "deny"
  <2>1. ~PolicyUnresolved(profile, reg)
    BY <1>1, <1>2, <1>4 DEF EvaluateConnectionProfile
  <2>2. CASE candidates = {}
    BY <1>2, <1>4, <2>1, <2>2 DEF EvaluateConnectionProfile
  <2>3. CASE candidates # {}
    <3>1. policy \in candidates
      BY <2>3
    <3>2. \A p, q \in candidates : p = q
      <4>1. CASE profile.policyRef = Unset
        BY <2>1, <4>1 DEF PolicyUnresolved
      <4>2. CASE profile.policyRef # Unset
        BY <4>2 DEF PoliciesFor, Registry
      <4> QED
        BY <4>1, <4>2
    <3>3. candidates = {policy}
      BY <3>1, <3>2
    <3>4. decision = Decide(Combine(own, verdict(policy)), policy.id[1], verdict(policy))
      BY <1>2, <1>4, <2>1, <2>3 DEF EvaluateConnectionProfile
    <3> QED
      BY <1>4, <3>1, <3>3, <3>4
  <2> QED
    BY <2>2, <2>3
<1> QED
  BY <1>3, <1>4

LEMMA DecisionType ==
    ASSUME NEW profile \in Profile, NEW reg \in Registry, NEW request \in Request
    PROVE  EvaluateConnectionProfile(profile, reg, request) \in Decision
<1> DEFINE decision == EvaluateConnectionProfile(profile, reg, request)
<1>1. ASSUME NEW o \in Decisions, NEW i \in Optional(Names),
             NEW g \in Optional(Decisions)
      PROVE  Decide(o, i, g) \in Decision
  BY DEF Decide, Decision
<1>2. Unset \in Optional(Names) /\ Unset \in Optional(Decisions)
  BY DEF Optional
<1>3. CASE decision.outcome = "error"
  <2>1. decision = Decide("error", Unset, Unset)
    <3>1. ASSUME NEW p \in PoliciesFor(profile, reg)
          PROVE  GatewayVerdict(p, profile.classification,
                                EffectiveMode(profile, request), request) \in Decisions
      BY GatewayVerdictType DEF PoliciesFor, Registry, Profile
    <3>2. ProfileVerdict(profile, request) \in Decisions
      BY ProfileVerdictType
    <3>3. ASSUME NEW v \in Decisions
          PROVE  Combine(ProfileVerdict(profile, request), v) \in Decisions
      BY <3>2, CombineType
    <3>4. "error" \notin Decisions /\ "deny" # "error"
      BY DEF Decisions
    <3>5. ASSUME NEW o, NEW i, NEW g PROVE Decide(o, i, g).outcome = o
      BY DEF Decide
    <3> QED
      BY <1>3, <3>1, <3>2, <3>3, <3>4, <3>5 DEF EvaluateConnectionProfile
  <2> QED
    BY <1>2, <2>1 DEF Decide, Decision
<1>4. CASE decision.outcome # "error"
  <2> DEFINE own        == ProfileVerdict(profile, request)
             verdict(p) == GatewayVerdict(p, profile.classification,
                                          EffectiveMode(profile, request), request)
  <2>1. own \in Decisions /\ "deny" \in Decisions
    BY ProfileVerdictType DEF Decisions
  <2>2. ASSUME NEW p \in PoliciesFor(profile, reg)
        PROVE  Decide(Combine(own, verdict(p)), p.id[1], verdict(p)) \in Decision
    <3>1. p \in Policy /\ profile.classification \in Classifications
      BY DEF PoliciesFor, Registry, Profile
    <3>2. verdict(p) \in Decisions
      BY <3>1, GatewayVerdictType
    <3>3. Combine(own, verdict(p)) \in Decisions
      BY <2>1, <3>2, CombineType
    <3>4. p.id[1] \in Names
      BY <3>1 DEF Policy
    <3> QED
      BY <1>1, <3>2, <3>3, <3>4 DEF Optional
  <2> HIDE DEF own, verdict
  <2>3. \/ decision = Decide("deny", Unset, Unset)
        \/ decision = Decide(own, Unset, Unset)
        \/ \E p \in PoliciesFor(profile, reg) :
                decision = Decide(Combine(own, verdict(p)), p.id[1], verdict(p))
    BY <1>4, EvaluationCases DEF own, verdict
  <2> QED
    BY <1>1, <1>2, <2>1, <2>2, <2>3
<1> QED
  BY <1>3, <1>4

-----------------------------------------------------------------------------
(* Type correctness.  What needs an argument is that the keys of the       *)
(* registry stay unique.                                                   *)

LEMMA ExplainInitType == Init => TypeOK
BY DEF Init, TypeOK, Registry

LEMMA AppendedPolicyType ==
    ASSUME NEW p \in Policy, NEW rule \in Rule
    PROVE  /\ [p EXCEPT !.rules = Append(@, rule)] \in Policy
           /\ [p EXCEPT !.rules = Append(@, rule)].id = p.id
<1>1. Append(p.rules, rule) \in Seq(Rule)
  BY DEF Policy
<1> QED
  BY <1>1 DEF Policy

\* The answer is the one that the files on disk give: whoever edits them
\* afterwards invalidates it.
AnswerCurrent ==
    answer # NoAnswer =>
        /\ answer \in Answer
        /\ answer.decision = EvaluateConnectionProfile(answer.of, registry, answer.asked)

LEMMA ExplainStep ==
    ASSUME TypeOK, AnswerCurrent, Explain
    PROVE  TypeOK' /\ AnswerCurrent'
<1>1. PICK request \in Requests, namespace \in Namespaces, name \in Optional(Names) :
        /\ \/ \E p \in ConnectionDocuments(name, namespace) :
                answer' = [asked    |-> request,
                           of       |-> p,
                           decision |-> EvaluateConnectionProfile(p, registry, request)]
           \/ answer' = NoAnswer
        /\ UNCHANGED <<profiles, registry>>
  BY DEF Explain
<1>2. CASE answer' = NoAnswer
  BY <1>1, <1>2 DEF TypeOK, AnswerCurrent
<1>3. ASSUME NEW p \in ConnectionDocuments(name, namespace),
             answer' = [asked    |-> request,
                        of       |-> p,
                        decision |-> EvaluateConnectionProfile(p, registry, request)]
      PROVE  TypeOK' /\ AnswerCurrent'
  <2>1. p \in Profile /\ request \in Request /\ registry \in Registry
    BY DocsAssumption DEF ConnectionDocuments, TypeOK
  <2>2. EvaluateConnectionProfile(p, registry, request) \in Decision
    BY <2>1, DecisionType
  <2>3. answer' \in Answer
    BY <1>3, <2>1, <2>2 DEF Answer
  <2>4. answer'.decision = EvaluateConnectionProfile(answer'.of, registry', answer'.asked)
    BY <1>1, <1>3
  <2> QED
    BY <1>1, <2>3, <2>4 DEF TypeOK, AnswerCurrent
<1> QED
  BY <1>1, <1>2, <1>3

LEMMA EditorStep ==
    ASSUME TypeOK,
           PutProfile \/ AddPolicy \/ RemovePolicy \/ AppendRule \/ ToggleBackend
    PROVE  TypeOK' /\ answer' = NoAnswer
<1>1. CASE PutProfile
  BY <1>1, DocsAssumption DEF PutProfile, TypeOK
<1>2. CASE AddPolicy
  <2>1. PICK p \in PolicyDocs : /\ \A q \in registry.policies : q.id # p.id
                                /\ registry' = [registry EXCEPT !.policies = @ \cup {p}]
    BY <1>2 DEF AddPolicy
  <2>2. p \in Policy
    BY DocsAssumption
  <2>3. registry' \in Registry
    BY <2>1, <2>2 DEF TypeOK, Registry
  <2> QED
    BY <1>2, <2>3 DEF AddPolicy, TypeOK
<1>3. CASE RemovePolicy
  BY <1>3 DEF RemovePolicy, TypeOK, Registry
<1>4. CASE AppendRule
  <2>1. PICK p \in registry.policies, rule \in RuleDocs :
            registry' = [registry EXCEPT !.policies =
                            (@ \ {p}) \cup {[p EXCEPT !.rules = Append(@, rule)]}]
    BY <1>4 DEF AppendRule
  <2> DEFINE longer == [p EXCEPT !.rules = Append(@, rule)]
  <2>2. p \in Policy /\ rule \in Rule
    BY DocsAssumption DEF TypeOK, Registry
  <2>3. longer \in Policy /\ longer.id = p.id
    BY <2>2, AppendedPolicyType
  <2> HIDE DEF longer
  <2>4. registry' = [registry EXCEPT !.policies = (@ \ {p}) \cup {longer}]
    BY <2>1 DEF longer
  <2>5. registry' \in Registry
    BY <2>3, <2>4 DEF TypeOK, Registry
  <2> QED
    BY <1>4, <2>5 DEF AppendRule, TypeOK
<1>5. CASE ToggleBackend
  <2>1. Backends \subseteq Names
    BY DocsAssumption
  <2> QED
    BY <1>5, <2>1 DEF ToggleBackend, TypeOK, Registry
<1> QED
  BY <1>1, <1>2, <1>3, <1>4, <1>5

\* The inductive invariant of the command: types, and an answer that is current.
THEOREM ExplainInvariant == Spec => [](TypeOK /\ AnswerCurrent)
<1>1. Init => TypeOK /\ AnswerCurrent
  BY ExplainInitType DEF Init, AnswerCurrent
<1>2. TypeOK /\ AnswerCurrent /\ [Next]_vars => (TypeOK /\ AnswerCurrent)'
  <2> SUFFICES ASSUME TypeOK, AnswerCurrent, [Next]_vars
               PROVE  TypeOK' /\ AnswerCurrent'
    OBVIOUS
  <2>1. CASE Explain
    BY <2>1, ExplainStep
  <2>2. CASE PutProfile \/ AddPolicy \/ RemovePolicy \/ AppendRule \/ ToggleBackend
    BY <2>2, EditorStep DEF AnswerCurrent, NoAnswer
  <2>3. CASE UNCHANGED vars
    BY <2>3 DEF vars, TypeOK, AnswerCurrent
  <2> QED
    BY <2>1, <2>2, <2>3 DEF Next
<1> QED
  BY <1>1, <1>2, PTL DEF Spec

\* Every reachable state is well typed, the registry's keys unique.
THEOREM ExplainTypeCorrect == Spec => []TypeOK
BY ExplainInvariant, PTL

-----------------------------------------------------------------------------
(* The decision.                                                           *)

LEMMA StrictnessOrder ==
    /\ Strictness("allow") = 0
    /\ Strictness("approval_required") = 1
    /\ Strictness("deny") = 2
    /\ Strictness("error") = 3
BY DEF Strictness

\* The stricter of the two voices wins.
LEMMA CombineIsStrictest ==
    ASSUME NEW own \in Decisions \ {"deny"}, NEW verdict \in Decisions
    PROVE  /\ Strictness(own) <= Strictness(Combine(own, verdict))
           /\ Strictness(verdict) <= Strictness(Combine(own, verdict))
<1>1. own \in {"allow", "approval_required"}
  BY DEF Decisions
<1>2. verdict \in {"allow", "approval_required", "deny"}
  BY DEF Decisions
<1>3. CASE verdict = "allow"
  <2>1. Combine(own, verdict) = own
    BY <1>3 DEF Combine
  <2> QED
    BY <1>1, <1>3, <2>1, StrictnessOrder
<1>4. CASE verdict # "allow"
  <2>1. Combine(own, verdict) = verdict
    BY <1>2, <1>4 DEF Combine
  <2> QED
    BY <1>1, <1>2, <1>4, <2>1, StrictnessOrder
<1> QED
  BY <1>3, <1>4

LEMMA VerdictsOfCandidates ==
    ASSUME NEW profile \in Profile, NEW reg \in Registry, NEW request,
           NEW p \in PoliciesFor(profile, reg)
    PROVE  GatewayVerdict(p, profile.classification,
                          EffectiveMode(profile, request), request) \in Decisions
BY GatewayVerdictType DEF PoliciesFor, Registry, Profile

LEMMA StrictestStep ==
    ASSUME TypeOK, AnswerCurrent
    PROVE  DecisionIsStrictest
<1> SUFFICES ASSUME answer # NoAnswer, answer.decision.outcome # "error"
             PROVE  DecisionIsStrictest
  BY DEF DecisionIsStrictest
<1> DEFINE profile    == answer.of
           request    == answer.asked
           mode       == EffectiveMode(profile, request)
           own        == ProfileVerdict(profile, request)
           candidates == PoliciesFor(profile, registry)
           verdict(q) == GatewayVerdict(q, profile.classification, mode, request)
           voices     == {own} \cup {verdict(q) : q \in candidates}
           decision   == answer.decision
<1>1. /\ profile \in Profile
      /\ request \in Request
      /\ registry \in Registry
      /\ decision = EvaluateConnectionProfile(profile, registry, request)
      /\ decision.outcome # "error"
  BY DEF TypeOK, AnswerCurrent, Answer
<1>2. SUFFICES /\ decision.outcome \in voices
               /\ \A v \in voices : Strictness(v) <= Strictness(decision.outcome)
  BY DEF DecisionIsStrictest
<1>3. own \in Decisions /\ \A q \in candidates : verdict(q) \in Decisions
  BY <1>1, ProfileVerdictType, VerdictsOfCandidates
<1>4. \A v \in Decisions : Strictness(v) <= Strictness(v) /\ Strictness(v) <= Strictness("deny")
  BY StrictnessOrder DEF Decisions
<1> HIDE DEF profile, request, own, candidates, verdict, decision
<1>5. CASE own = "deny" /\ decision = Decide("deny", Unset, Unset)
  BY <1>3, <1>4, <1>5 DEF Decide
<1>6. CASE candidates = {} /\ decision = Decide(own, Unset, Unset)
  BY <1>3, <1>4, <1>6 DEF Decide
<1>7. ASSUME own # "deny",
             NEW p \in candidates,
             candidates = {p},
             decision = Decide(Combine(own, verdict(p)), p.id[1], verdict(p))
      PROVE  /\ decision.outcome \in voices
             /\ \A v \in voices : Strictness(v) <= Strictness(decision.outcome)
  <2>1. decision.outcome = Combine(own, verdict(p))
    BY <1>7 DEF Decide
  <2>2. Combine(own, verdict(p)) \in {own, verdict(p)}
    BY <1>3, CombineType
  <2>3. /\ Strictness(own) <= Strictness(Combine(own, verdict(p)))
        /\ Strictness(verdict(p)) <= Strictness(Combine(own, verdict(p)))
    BY <1>3, <1>7, CombineIsStrictest
  <2>4. voices = {own, verdict(p)}
    BY <1>7
  <2> QED
    BY <2>1, <2>2, <2>3, <2>4
<1>8. \/ own = "deny" /\ decision = Decide("deny", Unset, Unset)
      \/ candidates = {} /\ decision = Decide(own, Unset, Unset)
      \/ /\ own # "deny"
         /\ \E p \in candidates :
              /\ candidates = {p}
              /\ decision = Decide(Combine(own, verdict(p)), p.id[1], verdict(p))
  BY <1>1, EvaluationCases DEF own, candidates, verdict, decision, profile, request
<1> QED
  BY <1>5, <1>6, <1>7, <1>8

\* For every configuration: the answer is the strictest of the profile's verdict
\* and those of the gateway policies in force.
THEOREM StrictestDecision == Spec => []DecisionIsStrictest
BY ExplainInvariant, StrictestStep, PTL

LEMMA RevealStep ==
    ASSUME TypeOK, AnswerCurrent
    PROVE  RevealNeedsApproval
<1> SUFFICES ASSUME answer # NoAnswer, EffectiveMode(answer.of, answer.asked) = "reveal"
             PROVE  answer.decision.outcome # "allow"
  BY DEF RevealNeedsApproval
<1> DEFINE profile == answer.of
           request == answer.asked
           own     == ProfileVerdict(profile, request)
<1>1. /\ profile \in Profile
      /\ request \in Request
      /\ registry \in Registry
      /\ answer.decision = EvaluateConnectionProfile(profile, registry, request)
  BY DEF TypeOK, AnswerCurrent, Answer
<1>2. ProfileWantsApproval(profile, request)
  BY DEF ProfileWantsApproval
<1>3. own \in {"deny", "approval_required"}
  BY <1>2 DEF ProfileVerdict
<1>4. ASSUME NEW v \in Decisions
      PROVE  own = "approval_required" => Combine(own, v) # "allow"
  BY <1>3 DEF Decisions, Combine
<1> HIDE DEF own
<1>5. CASE answer.decision.outcome = "error"
  BY <1>5
<1>6. CASE answer.decision.outcome # "error"
  <2> DEFINE verdict(p) == GatewayVerdict(p, profile.classification,
                                          EffectiveMode(profile, request), request)
  <2>1. \A p \in PoliciesFor(profile, registry) : verdict(p) \in Decisions
    BY <1>1, VerdictsOfCandidates
  <2> HIDE DEF verdict
  <2>2. \/ answer.decision = Decide("deny", Unset, Unset)
        \/ answer.decision = Decide(own, Unset, Unset)
        \/ /\ own # "deny"
           /\ \E p \in PoliciesFor(profile, registry) :
                answer.decision = Decide(Combine(own, verdict(p)), p.id[1], verdict(p))
    BY <1>1, <1>6, EvaluationCases DEF own, verdict
  <2>3. ASSUME NEW o, NEW i, NEW g PROVE Decide(o, i, g).outcome = o
    BY DEF Decide
  <2>4. "allow" \notin {"deny", "approval_required"}
    OBVIOUS
  <2>5. CASE \E p \in PoliciesFor(profile, registry) :
                answer.decision = Decide(Combine(own, verdict(p)), p.id[1], verdict(p))
             /\ own # "deny"
    BY <1>3, <1>4, <2>1, <2>3, <2>5
  <2> QED
    BY <1>3, <2>2, <2>3, <2>4, <2>5
<1> QED
  BY <1>5, <1>6

\* For every configuration: a raw secret is revealed under an approval or not at
\* all, whatever the gateway policies say.
THEOREM RevealApproved == Spec => []RevealNeedsApproval
BY ExplainInvariant, RevealStep, PTL

-----------------------------------------------------------------------------
(* What an edit of the policies can change.                                *)

LEMMA NeverLoosens ==
    ASSUME NEW before \in Registry, NEW after \in Registry,
           before.policies \subseteq after.policies,
           before.backends = after.backends,
           NEW profile \in Profile, NEW request \in Request,
           Outcome(profile, before, request) # "error"
    PROVE  Strictness(Outcome(profile, before, request))
             <= Strictness(Outcome(profile, after, request))
<1> DEFINE own        == ProfileVerdict(profile, request)
           verdict(p) == GatewayVerdict(p, profile.classification,
                                        EffectiveMode(profile, request), request)
           old        == EvaluateConnectionProfile(profile, before, request)
           new        == EvaluateConnectionProfile(profile, after, request)
           was        == PoliciesFor(profile, before)
           is         == PoliciesFor(profile, after)
<1>1. own \in Decisions /\ \A p \in is : verdict(p) \in Decisions
  BY ProfileVerdictType, VerdictsOfCandidates
<1>2. was \subseteq is
  BY DEF PoliciesFor
<1>3. old \in Decision /\ new \in Decision
  BY DecisionType
<1>4. old.outcome # "error"
  BY DEF Outcome
<1>5. ASSUME NEW o, NEW i, NEW g PROVE Decide(o, i, g).outcome = o
  BY DEF Decide
<1>6. \A v \in Decisions : /\ Strictness(v) <= Strictness(v)
                           /\ Strictness(v) <= Strictness("deny")
                           /\ Strictness(v) <= Strictness("error")
  BY StrictnessOrder DEF Decisions
<1> HIDE DEF own, verdict, old, new, was, is
<1>7. \/ own = "deny" /\ old.outcome = "deny"
      \/ own # "deny" /\ was = {} /\ old.outcome = own
      \/ own # "deny" /\ \E p \in was : was = {p} /\ old.outcome = Combine(own, verdict(p))
  BY <1>4, <1>5, EvaluationCases DEF own, verdict, old, was
<1>8. CASE new.outcome = "error"
  BY <1>3, <1>4, <1>6, <1>8 DEF Decision, Outcome, old, new
<1>9. CASE new.outcome # "error"
  <2>1. \/ own = "deny" /\ new.outcome = "deny"
        \/ own # "deny" /\ is = {} /\ new.outcome = own
        \/ own # "deny" /\ \E p \in is : is = {p} /\ new.outcome = Combine(own, verdict(p))
    BY <1>5, <1>9, EvaluationCases DEF own, verdict, new, is
  <2>2. CASE own = "deny"
    BY <1>1, <1>6, <1>7, <2>1, <2>2 DEF Outcome, old, new
  <2>3. CASE own # "deny" /\ was = {}
    <3>1. old.outcome = own
      BY <1>7, <2>3
    <3>2. \A p \in is : Strictness(own) <= Strictness(Combine(own, verdict(p)))
      BY <1>1, <2>3, CombineIsStrictest
    <3>3. new.outcome = own \/ \E p \in is : new.outcome = Combine(own, verdict(p))
      BY <2>1, <2>3
    <3> QED
      BY <1>1, <1>6, <3>1, <3>2, <3>3 DEF Outcome, old, new
  <2>4. CASE own # "deny" /\ was # {}
    <3>1. PICK p \in was : was = {p} /\ old.outcome = Combine(own, verdict(p))
      BY <1>7, <2>4
    <3>2. p \in is
      BY <1>2, <3>1
    <3>3. new.outcome = Combine(own, verdict(p))
      BY <2>1, <2>4, <3>2
    <3>4. new.outcome \in Decisions
      BY <1>3, <1>9 DEF Decision
    <3> QED
      BY <1>6, <3>1, <3>3, <3>4 DEF Outcome, old, new
  <2> QED
    BY <2>2, <2>3, <2>4
<1> QED
  BY <1>8, <1>9

LEMMA AddPolicyStep ==
    ASSUME TypeOK, TypeOK', AddPolicy,
           NEW p \in profiles, NEW r \in Requests,
           Outcome(p, registry, r) # "error"
    PROVE  Strictness(Outcome(p, registry, r)) <= Strictness(Outcome(p, registry', r))
<1>1. p \in Profile /\ r \in Request /\ registry \in Registry /\ registry' \in Registry
  BY DocsAssumption DEF TypeOK
<1>2. registry.policies \subseteq registry'.policies /\ registry.backends = registry'.backends
  BY <1>1 DEF AddPolicy, Registry
<1> QED
  BY <1>1, <1>2, NeverLoosens

\* For every configuration: a gateway policy that is added tightens a decision,
\* leaves it as it was, or makes the choice of policy an error.
THEOREM PolicyNeverLoosens == Spec => AddedPolicyNeverLoosens
<1>1. TypeOK /\ TypeOK' =>
        [AddPolicy =>
           \A p \in profiles, r \in Requests :
              Outcome(p, registry, r) # "error" =>
                Strictness(Outcome(p, registry, r)) <= Strictness(Outcome(p, registry', r))]_vars
  BY AddPolicyStep
<1> QED
  BY <1>1, ExplainTypeCorrect, PTL DEF AddedPolicyNeverLoosens

\* A rule appended at the end does not come first.
LEMMA AppendedRuleLast ==
    ASSUME NEW p \in Policy, NEW rule \in Rule,
           NEW q, q = [p EXCEPT !.rules = Append(@, rule)],
           NEW class, NEW mode, NEW request,
           MatchingRules(p, class, mode, request) # {}
    PROVE  GatewayVerdict(q, class, mode, request) = GatewayVerdict(p, class, mode, request)
<1> DEFINE were == MatchingRules(p, class, mode, request)
           are  == MatchingRules(q, class, mode, request)
<1>1. q \in Policy /\ q.id = p.id
  BY AppendedPolicyType
<1>2. /\ p.rules \in Seq(Rule)
      /\ q.rules = Append(p.rules, rule)
  BY DEF Policy
<1>3. /\ DOMAIN p.rules = 1 .. Len(p.rules)
      /\ Len(p.rules) \in Nat
      /\ DOMAIN q.rules = 1 .. (Len(p.rules) + 1)
      /\ \A i \in DOMAIN p.rules : q.rules[i] = p.rules[i]
  BY <1>2
<1>4. were \subseteq are /\ \A i \in are : i \in DOMAIN p.rules => i \in were
  BY <1>1, <1>3 DEF MatchingRules
<1>5. PICK i \in were : /\ \A j \in were : i <= j
                        /\ GatewayVerdict(p, class, mode, request) = p.rules[i].decision
  BY FirstMatchDecides
<1>6. PICK k \in are : /\ \A j \in are : k <= j
                       /\ GatewayVerdict(q, class, mode, request) = q.rules[k].decision
  BY <1>1, <1>4, <1>5, FirstMatchDecides
<1>7. i \in 1 .. Len(p.rules) /\ k \in 1 .. (Len(p.rules) + 1) /\ k <= i
  BY <1>3, <1>4, <1>5, <1>6 DEF MatchingRules
<1>8. k \in were /\ i <= k
  <2>1. k \in DOMAIN p.rules
    BY <1>3, <1>7
  <2>2. k \in were
    BY <1>4, <1>6, <2>1
  <2> HIDE DEF were
  <2> QED
    BY <1>5, <2>2
<1>9. i = k
  BY <1>3, <1>7, <1>8
<1> QED
  BY <1>3, <1>5, <1>6, <1>7, <1>9

LEMMA AppendRuleStep ==
    ASSUME TypeOK, AppendRule,
           NEW p \in registry.policies, NEW q \in registry'.policies, NEW r \in Requests,
           NEW c \in Classifications, NEW m \in Modes,
           p.id = q.id, MatchingRules(p, c, m, r) # {}
    PROVE  GatewayVerdict(q, c, m, r) = GatewayVerdict(p, c, m, r)
<1>1. PICK o \in registry.policies, rule \in RuleDocs :
          registry' = [registry EXCEPT !.policies =
                          (@ \ {o}) \cup {[o EXCEPT !.rules = Append(@, rule)]}]
  BY DEF AppendRule
<1> DEFINE longer == [o EXCEPT !.rules = Append(@, rule)]
<1>2. p \in Policy /\ o \in Policy /\ rule \in Rule /\ registry \in Registry
  BY DocsAssumption DEF TypeOK, Registry
<1>3. longer.id = o.id /\ longer = [o EXCEPT !.rules = Append(@, rule)]
  BY <1>2, AppendedPolicyType
<1>4. q \in (registry.policies \ {o}) \cup {longer}
  BY <1>1, <1>2 DEF Registry
<1> HIDE DEF longer
<1>5. \A s, t \in registry.policies : s.id = t.id => s = t
  BY <1>2 DEF Registry
<1>6. CASE q = longer
  <2>1. p = o
    BY <1>3, <1>5, <1>6
  <2> QED
    BY <1>2, <1>3, <1>6, <2>1, AppendedRuleLast
<1>7. CASE q \in registry.policies
  BY <1>5, <1>7
<1> QED
  BY <1>4, <1>6, <1>7

\* For every configuration and policies of any length: a rule appended to a policy
\* never changes what the rules before it decide.
THEOREM AppendedRuleShadowed == Spec => AppendedRuleIsShadowed
<1>1. TypeOK =>
        [AppendRule =>
           \A p \in registry.policies, q \in registry'.policies, r \in Requests,
              c \in Classifications, m \in Modes :
              (p.id = q.id /\ MatchingRules(p, c, m, r) # {}) =>
                  GatewayVerdict(q, c, m, r) = GatewayVerdict(p, c, m, r)]_vars
  BY AppendRuleStep
<1> QED
  BY <1>1, ExplainTypeCorrect, PTL DEF AppendedRuleIsShadowed

=============================================================================
