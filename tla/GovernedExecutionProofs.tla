---------------------- MODULE GovernedExecutionProofs ----------------------
(***************************************************************************)
(* Governed execution, proved for any number of runs, documents, keys and  *)
(* edits: types, the approval of every contact, what a run leaves behind,  *)
(* and the refinements of ApprovalGate and of LeaseDirectories.            *)
(***************************************************************************)
EXTENDS GovernedExecution, WellFoundedInduction, TLAPS

-----------------------------------------------------------------------------
(* The decision operators of ConnectionPolicy, for every set of names,     *)
(* namespaces and operations and every policy of any length.               *)

\* The effective mode is a mode: a request that names none takes the profile's.
LEMMA EffectiveModeType ==
    ASSUME NEW profile \in Profile, NEW request \in Request
    PROVE  EffectiveMode(profile, request) \in Modes
BY DEF Profile, Request, EffectiveMode, Optional

\* A set of naturals that is not empty has a least element.
LEMMA LeastNatural ==
    ASSUME NEW S \in SUBSET Nat, S # {}
    PROVE  \E i \in S : \A j \in S : i <= j
<1> DEFINE Below == {ss \in Nat \X Nat : ss[1] < ss[2]}
<1>1. IsWellFoundedOn(Below, Nat)
  BY NatLessThanWellFounded, Zenon DEF OpToRel
<1>2. PICK i \in S : \A j \in S : <<j, i>> \notin Below
  <2> HIDE DEF Below
  <2> QED
    BY <1>1, WFMin
<1>3. ASSUME NEW j \in S PROVE i <= j
  <2>1. <<j, i>> \in Nat \X Nat /\ <<j, i>> \notin Below
    BY <1>2
  <2>2. ~(<<j, i>>[1] < <<j, i>>[2])
    BY <2>1
  <2> QED
    BY <2>2
<1> QED
  BY <1>3

\* When rules match, the verdict is the one of a matching rule before which no
\* other rule matches.
LEMMA FirstMatchDecides ==
    ASSUME NEW policy \in Policy, NEW class, NEW mode, NEW request,
           MatchingRules(policy, class, mode, request) # {}
    PROVE  \E i \in MatchingRules(policy, class, mode, request) :
              /\ \A j \in MatchingRules(policy, class, mode, request) : i <= j
              /\ GatewayVerdict(policy, class, mode, request) = policy.rules[i].decision
<1> DEFINE hits  == MatchingRules(policy, class, mode, request)
           first == CHOOSE i \in hits : \A j \in hits : i <= j
<1>1. hits \in SUBSET Nat
  BY DEF MatchingRules, Policy
<1>2. \E i \in hits : \A j \in hits : i <= j
  BY <1>1, LeastNatural
<1>3. first \in hits /\ \A j \in hits : first <= j
  BY <1>2
<1>4. GatewayVerdict(policy, class, mode, request) = policy.rules[first].decision
  BY DEF GatewayVerdict
<1> QED
  BY <1>3, <1>4

\* evaluate_gateway_policy returns one of the three decisions.
LEMMA GatewayVerdictType ==
    ASSUME NEW policy \in Policy, NEW class \in Classifications, NEW mode, NEW request
    PROVE  GatewayVerdict(policy, class, mode, request) \in Decisions
<1>1. CASE MatchingRules(policy, class, mode, request) = {}
  <2>1. GatewayVerdict(policy, class, mode, request) = FallbackVerdict(policy, class)
    BY <1>1 DEF GatewayVerdict
  <2>2. /\ policy.default \in Decisions
        /\ policy.overrides[class] \in Optional(Decisions)
    BY DEF Policy
  <2> QED
    BY <2>1, <2>2 DEF FallbackVerdict, Optional
<1>2. CASE MatchingRules(policy, class, mode, request) # {}
  <2>1. PICK i \in MatchingRules(policy, class, mode, request) :
            GatewayVerdict(policy, class, mode, request) = policy.rules[i].decision
    BY <1>2, FirstMatchDecides
  <2>2. policy.rules \in Seq(Rule) /\ i \in DOMAIN policy.rules
    BY <2>1 DEF Policy, MatchingRules
  <2>3. policy.rules[i] \in Rule
    BY <2>2
  <2> QED
    BY <2>1, <2>3 DEF Rule
<1> QED
  BY <1>1, <1>2

LEMMA ProfileVerdictType ==
    ASSUME NEW profile, NEW request
    PROVE  ProfileVerdict(profile, request) \in Decisions
BY DEF ProfileVerdict, Decisions

\* Combining two verdicts gives one of them.
LEMMA CombineType ==
    ASSUME NEW own \in Decisions, NEW verdict \in Decisions
    PROVE  Combine(own, verdict) \in {own, verdict}
BY DEF Decisions, Combine

\* The three ways in which evaluate_connection_profile comes to a decision: the
\* profile refuses by itself, no policy is in force, or exactly one is, and its
\* verdict is combined with the profile's.
LEMMA EvaluationCases ==
    ASSUME NEW profile \in Profile, NEW registry \in Registry, NEW request \in Request,
           EvaluateConnectionProfile(profile, registry, request).outcome # "error"
    PROVE  LET own        == ProfileVerdict(profile, request)
               decision   == EvaluateConnectionProfile(profile, registry, request)
               verdict(p) == GatewayVerdict(p, profile.classification,
                                            EffectiveMode(profile, request), request)
           IN  \/ own = "deny" /\ decision = Decide("deny", Unset, Unset)
               \/ /\ own # "deny"
                  /\ PoliciesFor(profile, registry) = {}
                  /\ decision = Decide(own, Unset, Unset)
               \/ /\ own # "deny"
                  /\ \E p \in PoliciesFor(profile, registry) :
                        /\ PoliciesFor(profile, registry) = {p}
                        /\ decision = Decide(Combine(own, verdict(p)), p.id[1], verdict(p))
<1> DEFINE own        == ProfileVerdict(profile, request)
           candidates == PoliciesFor(profile, registry)
           policy     == CHOOSE p \in candidates : TRUE
           verdict(p) == GatewayVerdict(p, profile.classification,
                                        EffectiveMode(profile, request), request)
           decision   == EvaluateConnectionProfile(profile, registry, request)
<1>1. Decide("error", Unset, Unset).outcome = "error"
  BY DEF Decide
<1>2. ~BackendMissing(profile, registry)
  BY <1>1 DEF EvaluateConnectionProfile
<1>3. CASE own = "deny"
  BY <1>2, <1>3 DEF EvaluateConnectionProfile
<1>4. CASE own # "deny"
  <2>1. ~PolicyUnresolved(profile, registry)
    BY <1>1, <1>2, <1>4 DEF EvaluateConnectionProfile
  <2>2. CASE candidates = {}
    BY <1>2, <1>4, <2>1, <2>2 DEF EvaluateConnectionProfile
  <2>3. CASE candidates # {}
    <3>1. policy \in candidates
      BY <2>3
    <3>2. \A p, q \in candidates : p = q
      <4>1. CASE profile.policyRef = Unset
        BY <2>1, <4>1 DEF PolicyUnresolved
      <4>2. CASE profile.policyRef # Unset
        BY <4>2 DEF PoliciesFor, Registry
      <4> QED
        BY <4>1, <4>2
    <3>3. candidates = {policy}
      BY <3>1, <3>2
    <3>4. decision = Decide(Combine(own, verdict(policy)), policy.id[1], verdict(policy))
      BY <1>2, <1>4, <2>1, <2>3 DEF EvaluateConnectionProfile
    <3> QED
      BY <1>4, <3>1, <3>3, <3>4
  <2> QED
    BY <2>2, <2>3
<1> QED
  BY <1>3, <1>4

LEMMA DecisionType ==
    ASSUME NEW profile \in Profile, NEW registry \in Registry, NEW request \in Request
    PROVE  EvaluateConnectionProfile(profile, registry, request) \in Decision
<1> DEFINE decision == EvaluateConnectionProfile(profile, registry, request)
<1>1. ASSUME NEW o \in Decisions, NEW i \in Optional(Names),
             NEW g \in Optional(Decisions)
      PROVE  Decide(o, i, g) \in Decision
  BY DEF Decide, Decision
<1>2. Unset \in Optional(Names) /\ Unset \in Optional(Decisions)
  BY DEF Optional
<1>3. CASE decision.outcome = "error"
  <2>1. decision = Decide("error", Unset, Unset)
    <3>1. ASSUME NEW p \in PoliciesFor(profile, registry)
          PROVE  GatewayVerdict(p, profile.classification,
                                EffectiveMode(profile, request), request) \in Decisions
      BY GatewayVerdictType DEF PoliciesFor, Registry, Profile
    <3>2. ProfileVerdict(profile, request) \in Decisions
      BY ProfileVerdictType
    <3>3. ASSUME NEW v \in Decisions
          PROVE  Combine(ProfileVerdict(profile, request), v) \in Decisions
      BY <3>2, CombineType
    <3>4. "error" \notin Decisions /\ "deny" # "error"
      BY DEF Decisions
    <3>5. ASSUME NEW o, NEW i, NEW g PROVE Decide(o, i, g).outcome = o
      BY DEF Decide
    <3> QED
      BY <1>3, <3>1, <3>2, <3>3, <3>4, <3>5 DEF EvaluateConnectionProfile
  <2> QED
    BY <1>2, <2>1 DEF Decide, Decision
<1>4. CASE decision.outcome # "error"
  <2> DEFINE own        == ProfileVerdict(profile, request)
             verdict(p) == GatewayVerdict(p, profile.classification,
                                          EffectiveMode(profile, request), request)
  <2>1. own \in Decisions /\ "deny" \in Decisions
    BY ProfileVerdictType DEF Decisions
  <2>2. ASSUME NEW p \in PoliciesFor(profile, registry)
        PROVE  Decide(Combine(own, verdict(p)), p.id[1], verdict(p)) \in Decision
    <3>1. p \in Policy /\ profile.classification \in Classifications
      BY DEF PoliciesFor, Registry, Profile
    <3>2. verdict(p) \in Decisions
      BY <3>1, GatewayVerdictType
    <3>3. Combine(own, verdict(p)) \in Decisions
      BY <2>1, <3>2, CombineType
    <3>4. p.id[1] \in Names
      BY <3>1 DEF Policy
    <3> QED
      BY <1>1, <3>2, <3>3, <3>4 DEF Optional
  <2> HIDE DEF own, verdict
  <2>3. \/ decision = Decide("deny", Unset, Unset)
        \/ decision = Decide(own, Unset, Unset)
        \/ \E p \in PoliciesFor(profile, registry) :
                decision = Decide(Combine(own, verdict(p)), p.id[1], verdict(p))
    BY <1>4, EvaluationCases DEF own, verdict
  <2> QED
    BY <1>1, <1>2, <2>1, <2>2, <2>3
<1> QED
  BY <1>3, <1>4

-----------------------------------------------------------------------------
(* Receipts.                                                               *)

LEMMA SecondsBelow ==
    ASSUME NEW t \in Nat
    PROVE  /\ WholeSeconds(t) \in Nat
           /\ WholeSeconds(t) > t - Second
<1>1. t % Second \in 0 .. (Second - 1) /\ t % Second <= t
  BY TimeAssumption
<1> QED
  BY <1>1, TimeAssumption DEF WholeSeconds

\* A receipt is good for something when it is issued: dropping the fraction of the
\* second takes less than the minute that is granted at least.
LEMMA ExpiryLater ==
    ASSUME NEW issued \in Nat, NEW minutes \in Int
    PROVE  Expiry(issued, minutes) \in Nat /\ Expiry(issued, minutes) > issued
<1> DEFINE granted == (IF minutes < 1 THEN 1 ELSE minutes) * Minute
           end     == issued + granted
<1>1. granted \in Nat /\ granted >= Minute
  BY TimeAssumption
<1>2. end \in Nat /\ end - Second >= issued
  BY <1>1, TimeAssumption
<1>3. Expiry(issued, minutes) = WholeSeconds(end)
  BY DEF Expiry
<1> HIDE DEF end
<1>4. WholeSeconds(end) \in Nat /\ WholeSeconds(end) > end - Second
  BY <1>2, SecondsBelow
<1> QED
  BY <1>2, <1>3, <1>4, TimeAssumption

\* Nor is a lease over when it is issued: it lasts a second at least.
LEMMA LeaseEndLater ==
    ASSUME now \in Nat, NEW resource, resource.leaseTtl \in Nat \ {0}
    PROVE  LeaseEnd(resource) \in Nat /\ LeaseEnd(resource) > now
<1> DEFINE ttl == resource.leaseTtl
<1>1. ttl * Second \in Nat /\ ttl * Second >= Second
  BY TimeAssumption
<1>2. WholeSeconds(now) \in Nat /\ WholeSeconds(now) > now - Second
  BY SecondsBelow
<1> QED
  BY <1>1, <1>2, TimeAssumption DEF LeaseEnd

LEMMA IssueType ==
    ASSUME NEW binding \in Binding, NEW minutes \in Int, NEW key \in Keys, NEW t \in Nat
    PROVE  /\ IssueApprovalReceipt(binding, minutes, key, t) \in Receipt
           /\ IssueApprovalReceipt(binding, minutes, key, t).signature.over
                = FieldsFor(binding, Expiry(t, minutes))
<1>1. Expiry(t, minutes) \in Nat
  BY ExpiryLater
<1>2. FieldsFor(binding, Expiry(t, minutes)) \in Fields
  BY <1>1 DEF FieldsFor, Fields, Binding, Profile
<1> QED
  BY <1>2 DEF IssueApprovalReceipt, Sign, Receipt, Signature

-----------------------------------------------------------------------------
(* The documents a run or `ccp approval issue` decides about.              *)

Docs == [profile : ProfileDocs \cup {Absent}, policy : PolicyDocs \cup {Absent}]

LEMMA RegistryType ==
    ASSUME NEW docs \in Docs
    PROVE  RegistryOf(docs) \in Registry
BY DocsAssumption DEF Docs, RegistryOf, Registry

LEMMA DecidedType ==
    ASSUME NEW docs \in Docs, NEW request \in Requests
    PROVE  /\ Decided(docs, request) \in Decision
           /\ docs.profile = Absent => Decided(docs, request).outcome = "error"
<1>1. CASE docs.profile = Absent
  BY <1>1 DEF Decided, Decide, Decision, Optional
<1>2. CASE docs.profile # Absent
  <2>1. docs.profile \in Profile /\ request \in Request
    BY <1>2, DocsAssumption DEF Docs
  <2> QED
    BY <1>2, <2>1, RegistryType, DecisionType DEF Decided
<1> QED
  BY <1>1, <1>2

LEMMA BindingType ==
    ASSUME NEW docs \in Docs, NEW request \in Requests, docs.profile # Absent
    PROVE  BindingOf(docs, request) \in Binding
<1>1. docs.profile \in Profile /\ request \in Request
  BY DocsAssumption DEF Docs
<1>2. Decided(docs, request) \in Decision
  BY DecidedType
<1>3. EffectiveMode(docs.profile, request) \in Modes
  BY <1>1, EffectiveModeType
<1> QED
  BY <1>1, <1>2, <1>3 DEF BindingOf, ConnectionApprovalBinding, Binding, Request, Decision

LEMMA FieldsType ==
    ASSUME NEW binding \in Binding, NEW expires \in Nat
    PROVE  FieldsFor(binding, expires) \in Fields
BY DEF FieldsFor, Fields, Binding, Profile

\* A run that is past loading has documents that decide.
Resolved(r) ==
    /\ seen[r] \in Docs
    /\ DecisionOf(r).outcome \in Decisions

Planable == \A r \in Runs : pc[r] = "plan" => Resolved(r)

LEMMA LoadedResolves ==
    ASSUME TypeOK, NEW r \in Runs, Loaded(r)
    PROVE  /\ seen[r] \in Docs
           /\ DecisionOf(r) \in Decision
           /\ DecisionOf(r).outcome # "error" => Resolved(r)
<1>1. seen[r] \in Docs
  BY DEF TypeOK, Loaded, Docs
<1>2. asked[r].request \in Requests
  BY DEF TypeOK
<1>3. DecisionOf(r) \in Decision
  BY <1>1, <1>2, DecidedType DEF DecisionOf
<1> QED
  BY <1>1, <1>3 DEF Resolved, Decision

LEMMA ResolvedBinding ==
    ASSUME TypeOK, NEW r \in Runs, Resolved(r)
    PROVE  /\ BindingOf(seen[r], asked[r].request) \in Binding
           /\ seen[r].profile # Absent
<1>1. asked[r].request \in Requests
  BY DEF TypeOK
<1>2. seen[r].profile # Absent
  BY <1>1, DecidedType DEF Resolved, DecisionOf, Decisions
<1> QED
  BY <1>1, <1>2, BindingType DEF Resolved

LEMMA PlanningType ==
    ASSUME NEW r \in Runs, Resolved(r)
    PROVE  /\ Planning(r) \in {"ok", "denied", "approval_required"}
           /\ Planning(r) = "ok" =>
                \/ DecisionOf(r).outcome = "allow"
                \/ /\ DecisionOf(r).outcome = "approval_required"
                   /\ receipt[r] # Absent
                   /\ Covered(r)
<1>1. DecisionOf(r).outcome \in {"allow", "approval_required", "deny"}
  BY DEF Resolved, Decisions
<1>2. CASE DecisionOf(r).outcome = "allow"
  BY <1>2 DEF Planning
<1>3. CASE DecisionOf(r).outcome = "deny"
  BY <1>3 DEF Planning
<1>4. CASE DecisionOf(r).outcome = "approval_required"
  BY <1>4 DEF Planning
<1> QED
  BY <1>1, <1>2, <1>3, <1>4

-----------------------------------------------------------------------------
(* Type correctness, with Planable.                                        *)

LEMMA EnvironmentType ==
    ASSUME TypeOK, Environment
    PROVE  TypeOK'
<1> USE DEF TypeOK, resolving, effects
<1>1. CASE Tick
  BY <1>1 DEF Tick
<1>2. CASE EditProfile
  BY <1>2 DEF EditProfile, Edit
<1>3. CASE EditPolicy
  BY <1>3, SMTT(30) DEF EditPolicy, Edit
<1>4. CASE ReplaceKey
  BY <1>4 DEF ReplaceKey, Edit
<1>5. CASE EditReceipt
  <2>1. receiptFile \in Receipt
    BY <1>5 DEF EditReceipt
  <2>2. ASSUME receiptFile' = [receiptFile EXCEPT !.fields.expires = @ + Minute]
        PROVE  receiptFile' \in Receipt
    <3>1. receiptFile.fields.expires + Minute \in Nat
      BY <2>1, TimeAssumption DEF Receipt, Fields
    <3>2. [receiptFile.fields EXCEPT !.expires = @ + Minute] \in Fields
      BY <2>1, <3>1 DEF Receipt, Fields
    <3> QED
      BY <2>1, <2>2, <3>2 DEF Receipt
  <2>3. ASSUME NEW request \in Requests, disk.profile # Absent,
               receiptFile' = [receiptFile EXCEPT !.fields =
                                 FieldsFor(BindingOf(disk, request), @.expires)]
        PROVE  receiptFile' \in Receipt
    <3>1. BindingOf(disk, request) \in Binding
      BY <2>3, BindingType DEF Docs
    <3>2. receiptFile.fields.expires \in Nat
      BY <2>1 DEF Receipt, Fields
    <3>3. FieldsFor(BindingOf(disk, request), receiptFile.fields.expires) \in Fields
      BY <3>1, <3>2, FieldsType
    <3> QED
      BY <2>1, <2>3, <3>3 DEF Receipt
  <2>4. receiptFile' \in Receipt
    BY <1>5, <2>2, <2>3 DEF EditReceipt
  <2> QED
    BY <1>5, <2>4 DEF EditReceipt, Edit
<1>6. CASE ApprovalIssue
  <2>1. PICK request \in Requests, minutes \in TtlMinutes :
          /\ Decided(disk, request).outcome = "approval_required"
          /\ unsaved' = IssueApprovalReceipt(BindingOf(disk, request), minutes, signingKey, now)
          /\ grants' = grants \cup {unsaved'.signature}
    BY <1>6 DEF ApprovalIssue
  <2>2. signingKey \in Keys
    BY <1>6 DEF ApprovalIssue, SignerConfigured
  <2>3. BindingOf(disk, request) \in Binding
    BY <2>1, DecidedType, BindingType DEF Docs
  <2>4. unsaved' \in Receipt
    BY <2>1, <2>2, <2>3, IssueType, DocsAssumption
  <2>5. unsaved'.signature \in Signature
    BY <2>4 DEF Receipt
  <2> QED
    BY <1>6, <2>1, <2>4, <2>5 DEF ApprovalIssue, Edit
<1>7. CASE SaveReceipt
  BY <1>7 DEF SaveReceipt
<1> QED
  BY <1>1, <1>2, <1>3, <1>4, <1>5, <1>6, <1>7 DEF Environment

LEMMA ResolveType ==
    ASSUME TypeOK, Planable, NEW r \in Runs, Start(r) \/ Resolve(r)
    PROVE  TypeOK'
<1> USE DEF TypeOK, environment, resolving, effects, Goto, Report, Busy, Final, Reports
<1>1. CASE Start(r)
  BY <1>1 DEF Start
<1>2. CASE LoadDocument(r)
  <2>1. PICK d \in {"profile", "policy"} : seen' = [seen EXCEPT ![r][d] = disk[d]]
    BY <1>2 DEF LoadDocument
  <2> DEFINE Seen == [profile : ProfileDocs \cup {Absent, Unread},
                      policy  : PolicyDocs \cup {Absent, Unread}]
  <2>2. [seen[r] EXCEPT ![d] = disk[d]] \in Seen
    <3>1. seen[r] \in Seen
      OBVIOUS
    <3>2. /\ d = "profile" => disk[d] \in ProfileDocs \cup {Absent}
          /\ d = "policy" => disk[d] \in PolicyDocs \cup {Absent}
      OBVIOUS
    <3>3. CASE d = "profile"
      BY <3>1, <3>2, <3>3
    <3>4. CASE d = "policy"
      BY <3>1, <3>2, <3>4
    <3> QED
      BY <3>3, <3>4
  <2> HIDE DEF Seen
  <2>3. seen' \in [Runs -> Seen]
    BY <2>1, <2>2 DEF Seen
  <2> QED
    BY <1>2, <2>3 DEF LoadDocument, Seen
<1>3. CASE ConfigurationError(r)
  BY <1>3 DEF ConfigurationError
<1>4. CASE LoadReceipt(r)
  <2>1. receipt' \in [Runs -> Receipt \cup {Absent}]
    <3>1. receipt' = receipt \/ \E given \in Receipt : receipt' = [receipt EXCEPT ![r] = given]
      BY <1>4 DEF LoadReceipt
    <3> QED
      BY <3>1
  <2>2. pc' \in [Runs -> {"idle"} \cup Busy \cup Final] /\ outcome' \in [Runs -> Reports]
    BY <1>4, ZenonT(60) DEF LoadReceipt
  <2> QED
    BY <1>4, <2>1, <2>2 DEF LoadReceipt
<1>5. CASE SkipReceipt(r)
  BY <1>5 DEF SkipReceipt
<1>6. CASE BuildPlan(r)
  <2> DEFINE usage == BindingOf(seen[r], asked[r].request)
             made  == [binding   |-> usage,
                       outcome   |-> DecisionOf(r).outcome,
                       signature |-> IF receipt[r] = Absent THEN Unset
                                     ELSE receipt[r].signature,
                       at        |-> now]
  <2>1. Resolved(r)
    BY <1>6 DEF BuildPlan, Planable
  <2>2. usage \in Binding
    BY <2>1, ResolvedBinding
  <2>3. (IF receipt[r] = Absent THEN Unset ELSE receipt[r].signature) \in Optional(Signature)
    BY DEF Receipt, Optional
  <2>4. made \in Plan
    BY <2>1, <2>2, <2>3 DEF Plan, Resolved
  <2>5. LeaseEnd(usage.resource) \in Nat
    BY <2>2, LeaseEndLater DEF Binding, Profile, TypeOK
  <2> HIDE DEF usage, made
  <2>6. /\ plan' = [plan EXCEPT ![r] = made]
        /\ leaseEnd' = IF usage.mode = "materialize"
                       THEN [leaseEnd EXCEPT ![r] = LeaseEnd(usage.resource)]
                       ELSE leaseEnd
    BY <1>6 DEF BuildPlan, usage, made
  <2>7. plan' \in [Runs -> Plan \cup {NoPlan}] /\ leaseEnd' \in [Runs -> Nat]
    BY <2>4, <2>5, <2>6
  <2> QED
    BY <1>6, <2>7 DEF BuildPlan
<1>7. CASE ResolveAgain(r)
  BY <1>7 DEF ResolveAgain, TurnToPlan, NothingSeen
<1>8. CASE ReportPlanning(r)
  <2>1. Planning(r) \in Reports
    BY <1>8, PlanningType DEF ReportPlanning, Planable
  <2> QED
    BY <1>8, <2>1 DEF ReportPlanning
<1> QED
  BY <1>1, <1>2, <1>3, <1>4, <1>5, <1>6, <1>7, <1>8 DEF Resolve

LEMMA ExecuteType ==
    ASSUME TypeOK, NEW r \in Runs, Execute(r) \/ Crash(r)
    PROVE  TypeOK'
<1> USE DEF TypeOK, environment, resolving, effects, Goto, Report, Busy, Final, Reports
<1>1. CASE RejectRun(r)
  BY <1>1 DEF RejectRun
<1>2. CASE Sweep(r)
  BY <1>2 DEF Sweep
<1>3. CASE SecretsResolved(r)
  BY <1>3 DEF SecretsResolved
<1>4. CASE SecretsFail(r)
  BY <1>4 DEF SecretsFail
<1>5. CASE WriteSecrets(r)
  BY <1>5 DEF WriteSecrets
<1>6. CASE WriteLease(r)
  BY <1>6 DEF WriteLease
<1>7. CASE PrepareFails(r)
  BY <1>7 DEF PrepareFails
<1>8. CASE CallAdapter(r)
  BY <1>8 DEF CallAdapter
<1>9. CASE AdapterReturns(r)
  BY <1>9 DEF AdapterReturns, Cleanup
<1>10. CASE AdapterRaises(r)
  BY <1>10 DEF AdapterRaises, Cleanup
<1>11. CASE SaveTrace(r)
  BY <1>11 DEF SaveTrace
<1>12. CASE TraceFails(r)
  BY <1>12 DEF TraceFails
<1>13. CASE Crash(r)
  BY <1>13 DEF Crash
<1> QED
  BY <1>1, <1>2, <1>3, <1>4, <1>5, <1>6, <1>7, <1>8, <1>9, <1>10, <1>11, <1>12, <1>13 DEF Execute

\* Only the run itself changes what it has seen, so what it resolves to stays.
LEMMA PlanableStep ==
    ASSUME TypeOK, Planable, [Next]_vars
    PROVE  Planable'
<1> SUFFICES ASSUME NEW r \in Runs, pc'[r] = "plan"
             PROVE  Resolved(r)'
  BY DEF Planable
<1>1. CASE seen'[r] = seen[r] /\ asked' = asked /\ Resolved(r)
  BY <1>1 DEF Resolved, DecisionOf
<1>2. CASE pc[r] = pc'[r] /\ seen'[r] = seen[r] /\ asked' = asked
  BY <1>1, <1>2 DEF Planable
<1>3. CASE Environment \/ UNCHANGED vars
  BY <1>2, <1>3 DEF Environment, Tick, EditProfile, EditPolicy, ReplaceKey, EditReceipt,
                    ApprovalIssue, SaveReceipt, Edit, vars, resolving
<1>4. ASSUME NEW s \in Runs, Start(s) \/ Execute(s) \/ Crash(s)
      PROVE  Resolved(r)'
  <2> USE DEF TypeOK, resolving, Goto, Report
  <2>1. /\ UNCHANGED <<seen, asked>>
        /\ \E label \in {"load", "secrets", "prepare", "lease", "execute", "answer", "trace",
                         "done", "crashed"} : pc' = [pc EXCEPT ![s] = label]
    BY <1>4 DEF Start, Execute, Crash, RejectRun, Sweep, SecretsResolved, SecretsFail,
                WriteSecrets, WriteLease, PrepareFails, CallAdapter, AdapterReturns,
                AdapterRaises, SaveTrace, TraceFails
  <2> QED
    BY <1>2, <2>1
<1>5. ASSUME NEW s \in Runs, Resolve(s)
      PROVE  Resolved(r)'
  <2>1. CASE s # r
    <3>1. pc'[r] = pc[r] /\ seen'[r] = seen[r] /\ asked' = asked
      BY <1>5, <2>1 DEF Resolve, LoadDocument, ConfigurationError, LoadReceipt, SkipReceipt,
                        BuildPlan, ResolveAgain, ReportPlanning, TypeOK, resolving, Goto, Report
    <3> QED
      BY <1>2, <3>1
  <2>2. CASE s = r /\ (LoadReceipt(r) \/ SkipReceipt(r))
    <3>1. Loaded(r) /\ DecisionOf(r).outcome # "error" /\ UNCHANGED <<seen, asked>>
      BY <2>2 DEF LoadReceipt, SkipReceipt, resolving
    <3> QED
      BY <1>1, <3>1, LoadedResolves
  <2>3. CASE s = r /\ (LoadDocument(r) \/ ConfigurationError(r) \/ BuildPlan(r)
                       \/ ResolveAgain(r) \/ ReportPlanning(r))
    <3>1. pc'[r] # "plan"
      BY <2>3 DEF LoadDocument, ConfigurationError, BuildPlan, ResolveAgain, ReportPlanning,
                  TypeOK, Goto, Report
    <3> QED
      BY <3>1
  <2> QED
    BY <1>5, <2>1, <2>2, <2>3 DEF Resolve
<1> QED
  BY <1>3, <1>4, <1>5 DEF Next

LEMMA TypeStep ==
    ASSUME TypeOK, Planable, [Next]_vars
    PROVE  TypeOK' /\ Planable'
<1>1. CASE UNCHANGED vars
  <2>1. TypeOK'
    BY <1>1 DEF vars, environment, resolving, effects, TypeOK
  <2> QED
    BY <2>1, PlanableStep
<1> QED
  BY <1>1, EnvironmentType, ResolveType, ExecuteType, PlanableStep DEF Next

LEMMA InitType == Init => TypeOK /\ Planable
BY DEF Init, TypeOK, Planable, NothingSeen, Busy, Final, Reports

\* Every reachable state of every instance is well typed.
THEOREM ExecutionTypeCorrect == Spec => []TypeOK
<1>1. Init => TypeOK /\ Planable
  BY InitType
<1>2. TypeOK /\ Planable /\ [Next]_vars => (TypeOK /\ Planable)'
  BY TypeStep
<1> QED
  BY <1>1, <1>2, PTL DEF Spec

-----------------------------------------------------------------------------
(* The inductive invariant.                                                *)

\* Wherever a receipt is, its signature was made by `ccp approval issue`: an edit
\* of the saved receipt changes its fields, never what was signed.
SignaturesIssued ==
    /\ unsaved # Absent => unsaved.signature \in grants
    /\ receiptFile \notin {Absent, Torn} => receiptFile.signature \in grants
    /\ \A r \in Runs : receipt[r] # Absent => receipt[r].signature \in grants

PlansAuthorised == \A r \in Runs : plan[r] # NoPlan => Authorised(plan[r])

\* A run has a plan from BuildPlan on, and no adapter is reached before that.
PlanFirst ==
    \A r \in Runs :
        /\ pc[r] \in {"idle", "load", "plan"} => plan[r] = NoPlan
        /\ pc[r] \in Busy \ {"load", "plan"} => plan[r] # NoPlan
        /\ r \in contacted => /\ plan[r] # NoPlan
                              /\ pc[r] \in {"answer", "trace"} \cup Final

\* A bundle is there only once it is prepared, complete only once its lease is
\* written, belongs to a plan that materializes, and is left by the finally clause
\* only if the plan says so.
BundlesOwned ==
    \A r \in Runs :
        /\ pc[r] \in {"prepare", "lease"} => Materializes(r)
        /\ bundle[r] # "none" => /\ plan[r] # NoPlan
                                 /\ Materializes(r)
                                 /\ pc[r] \in {"lease", "execute", "answer", "trace"} \cup Final
        /\ bundle[r] = "ready" => pc[r] \in {"execute", "answer", "trace"} \cup Final
        /\ bundle[r] = "ready" /\ pc[r] \in {"trace", "done"} =>
              ~plan[r].binding.resource.cleanupOnExit

\* Only a run that is done reports; a good status, or an error after a contact, has
\* its trace.
TracedFirst ==
    /\ \A r \in Runs : outcome[r] # "none" => pc[r] = "done"
    /\ ReportedContactIsTraced

IInv ==
    /\ TypeOK
    /\ Planable
    /\ SignaturesIssued
    /\ PlansAuthorised
    /\ PlanFirst
    /\ BundlesOwned
    /\ TracedFirst

\* Grants accumulate, and the environment touches no run.
LEMMA EnvironmentFrame ==
    ASSUME TypeOK, Environment \/ UNCHANGED vars
    PROVE  /\ UNCHANGED <<pc, plan, receipt, bundle, contacted, traced, outcome>>
           /\ grants \subseteq grants'
<1> USE DEF resolving, effects
<1>1. CASE Environment
  BY <1>1 DEF Environment, Tick, EditProfile, EditPolicy, ReplaceKey, EditReceipt,
              ApprovalIssue, SaveReceipt, Edit
<1>2. CASE UNCHANGED vars
  BY <1>2 DEF vars, environment
<1> QED
  BY <1>1, <1>2

\* What the actions of a run after planning leave alone.
LEMMA ExecuteFrame ==
    ASSUME NEW r \in Runs, Start(r) \/ Execute(r) \/ Crash(r)
    PROVE  UNCHANGED <<environment, resolving>>
BY DEF Start, Execute, Crash, RejectRun, Sweep, SecretsResolved, SecretsFail, WriteSecrets,
       WriteLease, PrepareFails, CallAdapter, AdapterReturns, AdapterRaises, SaveTrace,
       TraceFails

LEMMA ResolveFrame ==
    ASSUME NEW r \in Runs, Resolve(r)
    PROVE  UNCHANGED <<environment, bundle, contacted, traced>>
BY DEF Resolve, LoadDocument, ConfigurationError, LoadReceipt, SkipReceipt, BuildPlan,
       ResolveAgain, ReportPlanning, resolving, effects

LEMMA SignaturesStep ==
    ASSUME TypeOK, SignaturesIssued, [Next]_vars
    PROVE  SignaturesIssued'
<1> USE DEF SignaturesIssued
<1>1. CASE Tick \/ EditProfile \/ EditPolicy \/ ReplaceKey
  BY <1>1 DEF Tick, EditProfile, EditPolicy, ReplaceKey, Edit, resolving
<1>2. CASE EditReceipt
  <2>1. receiptFile \in Receipt
    BY <1>2 DEF EditReceipt, TypeOK
  <2>2. receiptFile'.signature = receiptFile.signature
    BY <1>2, <2>1 DEF EditReceipt, Receipt
  <2> QED
    BY <1>2, <2>2 DEF EditReceipt, Edit, resolving
<1>3. CASE ApprovalIssue
  <2>1. unsaved'.signature \in grants' /\ grants \subseteq grants'
    BY <1>3 DEF ApprovalIssue
  <2> QED
    BY <1>3, <2>1 DEF ApprovalIssue, Edit, resolving
<1>4. CASE SaveReceipt
  BY <1>4 DEF SaveReceipt, resolving
<1>5. CASE UNCHANGED vars
  BY <1>5 DEF vars, environment, resolving
<1>6. ASSUME NEW r \in Runs, Start(r) \/ Execute(r) \/ Crash(r)
      PROVE  SignaturesIssued'
  BY <1>6, ExecuteFrame DEF environment, resolving
<1>7. ASSUME NEW r \in Runs, Resolve(r)
      PROVE  SignaturesIssued'
  <2>1. CASE LoadReceipt(r)
    <3>1. \A s \in Runs : receipt'[s] \in {receipt[s], receiptFile, Absent}
      BY <2>1 DEF LoadReceipt, TypeOK
    <3>2. receiptFile \notin {Absent, Torn} \/ receipt' = receipt
      BY <2>1 DEF LoadReceipt
    <3> QED
      BY <2>1, <3>1, <3>2 DEF LoadReceipt, environment
  <2>2. CASE ResolveAgain(r)
    BY <2>2 DEF ResolveAgain, environment, TypeOK
  <2>3. CASE LoadDocument(r) \/ ConfigurationError(r) \/ SkipReceipt(r) \/ BuildPlan(r)
             \/ ReportPlanning(r)
    BY <2>3 DEF LoadDocument, ConfigurationError, SkipReceipt, BuildPlan, ReportPlanning,
                environment, resolving
  <2> QED
    BY <1>7, <2>1, <2>2, <2>3 DEF Resolve
<1> QED
  BY <1>1, <1>2, <1>3, <1>4, <1>5, <1>6, <1>7 DEF Next, Environment

\* A plan is made for what the run has resolved; if that needs an approval, under
\* a signature that covers it now.
LEMMA PlanBuilt ==
    ASSUME TypeOK, Planable, SignaturesIssued, NEW r \in Runs, BuildPlan(r)
    PROVE  /\ plan'[r] \in Plan
           /\ plan'[r] # NoPlan
           /\ plan'[r].binding = BindingOf(seen[r], asked[r].request)
           /\ plan'[r].outcome = DecisionOf(r).outcome
           /\ plan'[r].at = now
           /\ Authorised(plan'[r])
<1> DEFINE usage     == BindingOf(seen[r], asked[r].request)
           signature == IF receipt[r] = Absent THEN Unset ELSE receipt[r].signature
<1>1. Resolved(r) /\ usage \in Binding
  BY ResolvedBinding DEF BuildPlan, Planable
<1>2. signature \in Optional(Signature)
  BY DEF TypeOK, Receipt, Optional
<1>3. plan'[r] = [binding   |-> usage,
                  outcome   |-> DecisionOf(r).outcome,
                  signature |-> signature,
                  at        |-> now]
  BY DEF BuildPlan, TypeOK
<1>4. plan'[r] \in Plan
  BY <1>1, <1>2, <1>3 DEF Plan, Resolved, TypeOK
<1>5. plan'[r] # NoPlan
  BY <1>4, DocsAssumption DEF Plan
<1>6. \/ DecisionOf(r).outcome = "allow"
      \/ /\ DecisionOf(r).outcome = "approval_required"
         /\ receipt[r] # Absent
         /\ Covered(r)
  BY <1>1, PlanningType DEF BuildPlan
<1>7. CASE DecisionOf(r).outcome = "allow"
  BY <1>3, <1>4, <1>5, <1>7 DEF Authorised
<1>8. CASE /\ DecisionOf(r).outcome = "approval_required"
           /\ receipt[r] # Absent
           /\ Covered(r)
  <2>1. signature \in grants
    BY <1>8 DEF SignaturesIssued
  <2>2. /\ receipt[r].fields.binding = usage
        /\ signature = Sign(receipt[r].fields, signingKey)
        /\ now < receipt[r].fields.expires
    BY <1>8 DEF Covered, ValidReceipt
  <2>3. signature.over.binding = usage /\ now < signature.over.expires
    BY <2>2 DEF Sign
  <2> QED
    BY <1>3, <1>4, <1>5, <1>8, <2>1, <2>3 DEF Authorised
<1> QED
  BY <1>3, <1>6, <1>7, <1>8

LEMMA PlansStep ==
    ASSUME TypeOK, Planable, SignaturesIssued, PlansAuthorised, [Next]_vars
    PROVE  PlansAuthorised'
<1> USE DEF PlansAuthorised
<1>1. CASE plan' = plan /\ grants \subseteq grants'
  BY <1>1 DEF Authorised
<1>2. ASSUME NEW r \in Runs, BuildPlan(r)
      PROVE  PlansAuthorised'
  <2>1. grants' = grants /\ \A s \in Runs \ {r} : plan'[s] = plan[s]
    BY <1>2 DEF BuildPlan, environment, TypeOK
  <2>2. Authorised(plan'[r])
    BY <1>2, PlanBuilt
  <2> QED
    BY <2>1, <2>2 DEF Authorised
<1>3. ASSUME NEW r \in Runs,
             LoadDocument(r) \/ ConfigurationError(r) \/ LoadReceipt(r) \/ SkipReceipt(r)
             \/ ResolveAgain(r) \/ ReportPlanning(r)
      PROVE  plan' = plan /\ grants' = grants
  BY <1>3 DEF LoadDocument, ConfigurationError, LoadReceipt, SkipReceipt, ResolveAgain,
              ReportPlanning, environment, resolving
<1>4. ASSUME NEW r \in Runs, Start(r) \/ Execute(r) \/ Crash(r)
      PROVE  plan' = plan /\ grants' = grants
  BY <1>4, ExecuteFrame DEF environment, resolving
<1> QED
  BY <1>1, <1>2, <1>3, <1>4, EnvironmentFrame DEF Next, Resolve

LEMMA PlanFirstStep ==
    ASSUME TypeOK, Planable, SignaturesIssued, PlanFirst, [Next]_vars
    PROVE  PlanFirst'
<1> USE DEF PlanFirst, TypeOK, Goto, Report, Busy, Final, environment, resolving, effects
<1>1. CASE Environment \/ UNCHANGED vars
  BY <1>1, EnvironmentFrame
<1>2. ASSUME NEW r \in Runs, Start(r)
      PROVE  PlanFirst'
  BY <1>2 DEF Start
<1>3. ASSUME NEW r \in Runs, LoadDocument(r)
      PROVE  PlanFirst'
  BY <1>3 DEF LoadDocument
<1>4. ASSUME NEW r \in Runs, ConfigurationError(r)
      PROVE  PlanFirst'
  BY <1>4 DEF ConfigurationError
<1>5. ASSUME NEW r \in Runs, LoadReceipt(r)
      PROVE  PlanFirst'
  BY <1>5, SMTT(30) DEF LoadReceipt, Loaded
<1>6. ASSUME NEW r \in Runs, SkipReceipt(r)
      PROVE  PlanFirst'
  BY <1>6 DEF SkipReceipt, Loaded
<1>7. ASSUME NEW r \in Runs, BuildPlan(r)
      PROVE  PlanFirst'
  <2>1. plan'[r] # NoPlan
    BY <1>7, PlanBuilt
  <2> QED
    BY <1>7, <2>1 DEF BuildPlan
<1>8. ASSUME NEW r \in Runs, ResolveAgain(r)
      PROVE  PlanFirst'
  BY <1>8 DEF ResolveAgain
<1>9. ASSUME NEW r \in Runs, ReportPlanning(r)
      PROVE  PlanFirst'
  BY <1>9 DEF ReportPlanning
<1>10. ASSUME NEW r \in Runs, RejectRun(r)
      PROVE  PlanFirst'
  BY <1>10 DEF RejectRun
<1>11. ASSUME NEW r \in Runs, Sweep(r)
      PROVE  PlanFirst'
  BY <1>11 DEF Sweep
<1>12. ASSUME NEW r \in Runs, SecretsResolved(r)
      PROVE  PlanFirst'
  BY <1>12 DEF SecretsResolved
<1>13. ASSUME NEW r \in Runs, SecretsFail(r)
      PROVE  PlanFirst'
  BY <1>13 DEF SecretsFail
<1>14. ASSUME NEW r \in Runs, WriteSecrets(r)
      PROVE  PlanFirst'
  BY <1>14 DEF WriteSecrets
<1>15. ASSUME NEW r \in Runs, WriteLease(r)
      PROVE  PlanFirst'
  BY <1>15 DEF WriteLease
<1>16. ASSUME NEW r \in Runs, PrepareFails(r)
      PROVE  PlanFirst'
  BY <1>16 DEF PrepareFails
<1>17. ASSUME NEW r \in Runs, CallAdapter(r)
      PROVE  PlanFirst'
  BY <1>17 DEF CallAdapter
<1>18. ASSUME NEW r \in Runs, AdapterReturns(r)
      PROVE  PlanFirst'
  BY <1>18 DEF AdapterReturns, Cleanup
<1>19. ASSUME NEW r \in Runs, AdapterRaises(r)
      PROVE  PlanFirst'
  BY <1>19 DEF AdapterRaises, Cleanup
<1>20. ASSUME NEW r \in Runs, SaveTrace(r)
      PROVE  PlanFirst'
  BY <1>20 DEF SaveTrace
<1>21. ASSUME NEW r \in Runs, TraceFails(r)
      PROVE  PlanFirst'
  BY <1>21 DEF TraceFails
<1>22. ASSUME NEW r \in Runs, Crash(r)
      PROVE  PlanFirst'
  BY <1>22 DEF Crash
<1> QED
  BY <1>1, <1>2, <1>3, <1>4, <1>5, <1>6, <1>7, <1>8, <1>9, <1>10, <1>11, <1>12, <1>13, <1>14, <1>15, <1>16, <1>17, <1>18, <1>19, <1>20, <1>21, <1>22
  DEF Next, Resolve, Execute

LEMMA BundlesStep ==
    ASSUME TypeOK, PlanFirst, BundlesOwned, [Next]_vars
    PROVE  BundlesOwned'
<1> USE DEF BundlesOwned, PlanFirst, Materializes, TypeOK, Goto, Report, Busy, Final, environment,
        resolving, effects
<1>1. CASE Environment \/ UNCHANGED vars
  BY <1>1, EnvironmentFrame
<1>2. ASSUME NEW r \in Runs, Start(r)
      PROVE  BundlesOwned'
  BY <1>2 DEF Start
<1>3. ASSUME NEW r \in Runs, LoadDocument(r)
      PROVE  BundlesOwned'
  BY <1>3 DEF LoadDocument
<1>4. ASSUME NEW r \in Runs, ConfigurationError(r)
      PROVE  BundlesOwned'
  BY <1>4 DEF ConfigurationError, Loaded
<1>5. ASSUME NEW r \in Runs, LoadReceipt(r)
      PROVE  BundlesOwned'
  BY <1>5 DEF LoadReceipt, Loaded
<1>6. ASSUME NEW r \in Runs, SkipReceipt(r)
      PROVE  BundlesOwned'
  BY <1>6 DEF SkipReceipt, Loaded
<1>7. ASSUME NEW r \in Runs, BuildPlan(r)
      PROVE  BundlesOwned'
  BY <1>7 DEF BuildPlan
<1>8. ASSUME NEW r \in Runs, ResolveAgain(r)
      PROVE  BundlesOwned'
  BY <1>8 DEF ResolveAgain
<1>9. ASSUME NEW r \in Runs, ReportPlanning(r)
      PROVE  BundlesOwned'
  BY <1>9 DEF ReportPlanning
<1>10. ASSUME NEW r \in Runs, RejectRun(r)
      PROVE  BundlesOwned'
  BY <1>10 DEF RejectRun
<1>11. ASSUME NEW r \in Runs, Sweep(r)
      PROVE  BundlesOwned'
  BY <1>11 DEF Sweep, Stale
<1>12. ASSUME NEW r \in Runs, SecretsResolved(r)
      PROVE  BundlesOwned'
  BY <1>12 DEF SecretsResolved
<1>13. ASSUME NEW r \in Runs, SecretsFail(r)
      PROVE  BundlesOwned'
  BY <1>13 DEF SecretsFail
<1>14. ASSUME NEW r \in Runs, WriteSecrets(r)
      PROVE  BundlesOwned'
  BY <1>14 DEF WriteSecrets
<1>15. ASSUME NEW r \in Runs, WriteLease(r)
      PROVE  BundlesOwned'
  BY <1>15 DEF WriteLease
<1>16. ASSUME NEW r \in Runs, PrepareFails(r)
      PROVE  BundlesOwned'
  BY <1>16 DEF PrepareFails
<1>17. ASSUME NEW r \in Runs, CallAdapter(r)
      PROVE  BundlesOwned'
  BY <1>17 DEF CallAdapter
<1>18. ASSUME NEW r \in Runs, AdapterReturns(r)
      PROVE  BundlesOwned'
  BY <1>18 DEF AdapterReturns, Cleanup
<1>19. ASSUME NEW r \in Runs, AdapterRaises(r)
      PROVE  BundlesOwned'
  BY <1>19 DEF AdapterRaises, Cleanup
<1>20. ASSUME NEW r \in Runs, SaveTrace(r)
      PROVE  BundlesOwned'
  BY <1>20 DEF SaveTrace
<1>21. ASSUME NEW r \in Runs, TraceFails(r)
      PROVE  BundlesOwned'
  BY <1>21 DEF TraceFails
<1>22. ASSUME NEW r \in Runs, Crash(r)
      PROVE  BundlesOwned'
  BY <1>22 DEF Crash
<1> QED
  BY <1>1, <1>2, <1>3, <1>4, <1>5, <1>6, <1>7, <1>8, <1>9, <1>10, <1>11, <1>12, <1>13, <1>14, <1>15, <1>16, <1>17, <1>18, <1>19, <1>20, <1>21, <1>22
  DEF Next, Resolve, Execute

LEMMA TracedStep ==
    ASSUME TypeOK, PlanFirst, TracedFirst, [Next]_vars
    PROVE  TracedFirst'
<1> USE DEF TracedFirst, ReportedContactIsTraced, PlanFirst, TypeOK, Goto, Report, Busy, Final,
        environment, resolving, effects
<1>1. CASE Environment \/ UNCHANGED vars
  BY <1>1, EnvironmentFrame
<1>2. ASSUME NEW r \in Runs, Start(r)
      PROVE  TracedFirst'
  BY <1>2 DEF Start
<1>3. ASSUME NEW r \in Runs, LoadDocument(r)
      PROVE  TracedFirst'
  BY <1>3 DEF LoadDocument
<1>4. ASSUME NEW r \in Runs, ConfigurationError(r)
      PROVE  TracedFirst'
  BY <1>4 DEF ConfigurationError, Loaded
<1>5. ASSUME NEW r \in Runs, LoadReceipt(r)
      PROVE  TracedFirst'
  BY <1>5 DEF LoadReceipt, Loaded
<1>6. ASSUME NEW r \in Runs, SkipReceipt(r)
      PROVE  TracedFirst'
  BY <1>6 DEF SkipReceipt, Loaded
<1>7. ASSUME NEW r \in Runs, BuildPlan(r)
      PROVE  TracedFirst'
  BY <1>7 DEF BuildPlan
<1>8. ASSUME NEW r \in Runs, ResolveAgain(r)
      PROVE  TracedFirst'
  BY <1>8 DEF ResolveAgain
<1>9. ASSUME NEW r \in Runs, ReportPlanning(r)
      PROVE  TracedFirst'
  BY <1>9 DEF ReportPlanning
<1>10. ASSUME NEW r \in Runs, RejectRun(r)
      PROVE  TracedFirst'
  BY <1>10 DEF RejectRun
<1>11. ASSUME NEW r \in Runs, Sweep(r)
      PROVE  TracedFirst'
  BY <1>11 DEF Sweep, Stale
<1>12. ASSUME NEW r \in Runs, SecretsResolved(r)
      PROVE  TracedFirst'
  BY <1>12 DEF SecretsResolved
<1>13. ASSUME NEW r \in Runs, SecretsFail(r)
      PROVE  TracedFirst'
  BY <1>13 DEF SecretsFail
<1>14. ASSUME NEW r \in Runs, WriteSecrets(r)
      PROVE  TracedFirst'
  BY <1>14 DEF WriteSecrets
<1>15. ASSUME NEW r \in Runs, WriteLease(r)
      PROVE  TracedFirst'
  BY <1>15 DEF WriteLease
<1>16. ASSUME NEW r \in Runs, PrepareFails(r)
      PROVE  TracedFirst'
  BY <1>16 DEF PrepareFails
<1>17. ASSUME NEW r \in Runs, CallAdapter(r)
      PROVE  TracedFirst'
  BY <1>17 DEF CallAdapter
<1>18. ASSUME NEW r \in Runs, AdapterReturns(r)
      PROVE  TracedFirst'
  BY <1>18 DEF AdapterReturns, Cleanup
<1>19. ASSUME NEW r \in Runs, AdapterRaises(r)
      PROVE  TracedFirst'
  BY <1>19 DEF AdapterRaises, Cleanup
<1>20. ASSUME NEW r \in Runs, SaveTrace(r)
      PROVE  TracedFirst'
  BY <1>20 DEF SaveTrace
<1>21. ASSUME NEW r \in Runs, TraceFails(r)
      PROVE  TracedFirst'
  BY <1>21 DEF TraceFails
<1>22. ASSUME NEW r \in Runs, Crash(r)
      PROVE  TracedFirst'
  BY <1>22 DEF Crash
<1> QED
  BY <1>1, <1>2, <1>3, <1>4, <1>5, <1>6, <1>7, <1>8, <1>9, <1>10, <1>11, <1>12, <1>13, <1>14, <1>15, <1>16, <1>17, <1>18, <1>19, <1>20, <1>21, <1>22
  DEF Next, Resolve, Execute

LEMMA InitInvariant == Init => IInv
BY InitType, DocsAssumption
   DEF Init, IInv, SignaturesIssued, PlansAuthorised, PlanFirst, BundlesOwned, TracedFirst,
       ReportedContactIsTraced, Busy, Final

LEMMA InvariantStep == IInv /\ [Next]_vars => IInv'
BY TypeStep, SignaturesStep, PlansStep, PlanFirstStep, BundlesStep, TracedStep DEF IInv

\* IInv is inductive.
THEOREM ExecutionInvariant == Spec => []IInv
BY InitInvariant, InvariantStep, PTL DEF Spec

-----------------------------------------------------------------------------
(* The properties that the runs check.                                     *)

\* For any number of runs, edits and keys: a run contacts the connection only under
\* a plan whose approval, if it needs one, was signed for exactly what it does and
\* had not expired when it was planned.
THEOREM ContactsApproved == Spec => []ContactApproved
<1>1. IInv => ContactApproved
  BY DEF IInv, PlansAuthorised, PlanFirst, ContactApproved, TypeOK
<1> QED
  BY <1>1, ExecutionInvariant, PTL

\* For any number of runs: a contact that is reported has a trace.
THEOREM ReportedContactsTraced == Spec => []ReportedContactIsTraced
<1>1. IInv => ReportedContactIsTraced
  BY DEF IInv, TracedFirst
<1> QED
  BY <1>1, ExecutionInvariant, PTL

\* For any number of runs that sweep each other's bundles: a run that ends leaves no
\* complete bundle that its plan was to clean up.
THEOREM NoBundlesLeftBehind == Spec => []NoBundleLeftBehind
<1>1. IInv => NoBundleLeftBehind
  BY DEF IInv, BundlesOwned, NoBundleLeftBehind
<1> QED
  BY <1>1, ExecutionInvariant, PTL

-----------------------------------------------------------------------------
(* Governed execution implements ApprovalGate.                             *)

\* A binding holds all that the decision about it depends on.
LEMMA OutcomeOfBinding ==
    ASSUME NEW docs \in Docs, NEW request \in Requests,
           Decided(docs, request).outcome \in {"allow", "approval_required"}
    PROVE  UsageOutcome(BindingOf(docs, request)) = Decided(docs, request).outcome
<1> DEFINE profile    == docs.profile
           decision   == Decided(docs, request)
           binding    == BindingOf(docs, request)
           own        == ProfileVerdict(profile, request)
           candidates == PoliciesFor(profile, RegistryOf(docs))
           verdict(p) == GatewayVerdict(p, profile.classification,
                                        EffectiveMode(profile, request), request)
           same       == [access    |-> binding.access,
                          mode      |-> binding.mode,
                          operation |-> binding.operation]
<1>1. /\ profile \in Profile
      /\ request \in Request
      /\ RegistryOf(docs) \in Registry
      /\ decision = EvaluateConnectionProfile(profile, RegistryOf(docs), request)
  <2>1. profile # Absent
    BY DecidedType
  <2> QED
    BY <2>1, DocsAssumption, RegistryType DEF Docs, Decided
<1>2. ProfileVerdict(binding.resource, same) = own
  <2>1. /\ binding.resource = profile
        /\ same.access = request.access
        /\ same.mode = EffectiveMode(profile, request)
        /\ same.operation = request.operation
    BY DEF BindingOf, ConnectionApprovalBinding
  <2>2. EffectiveMode(profile, same) = EffectiveMode(profile, request)
    <3>1. same.mode \in Modes
      BY <1>1, <2>1, EffectiveModeType
    <3>2. same.mode # Unset
      BY <3>1, UnsetAssumption
    <3> QED
      BY <2>1, <3>2 DEF EffectiveMode
  <2> HIDE DEF same, binding
  <2> QED
    BY <2>1, <2>2 DEF ProfileVerdict, ProfileRefuses, ProfileWantsApproval
<1>3. binding.policy = decision.policy /\ binding.gateway = decision.gateway
  BY DEF BindingOf, ConnectionApprovalBinding
<1>4. UsageOutcome(binding) = IF decision.policy = Unset THEN own
                              ELSE Combine(own, decision.gateway)
  BY <1>2, <1>3 DEF UsageOutcome
<1> HIDE DEF own, candidates, verdict, binding
<1>5. decision.outcome \notin {"error", "deny"}
  OBVIOUS
<1>6. \/ decision = Decide("deny", Unset, Unset)
      \/ decision = Decide(own, Unset, Unset)
      \/ \E p \in candidates : decision = Decide(Combine(own, verdict(p)), p.id[1], verdict(p))
  BY <1>1, <1>5, EvaluationCases DEF own, candidates, verdict
<1>7. ASSUME NEW o, NEW i, NEW g, decision = Decide(o, i, g)
      PROVE  decision.outcome = o /\ decision.policy = i /\ decision.gateway = g
  BY <1>7 DEF Decide
<1>8. \A p \in candidates : p.id[1] # Unset
  BY <1>1, UnsetAssumption DEF candidates, PoliciesFor, Registry, Policy
<1>9. UsageOutcome(binding) = decision.outcome
  <2> HIDE DEF decision
  <2>1. CASE decision = Decide("deny", Unset, Unset)
    BY <1>5, <1>7, <2>1
  <2>2. CASE decision = Decide(own, Unset, Unset)
    BY <1>4, <1>7, <2>2
  <2>3. ASSUME NEW p \in candidates, decision = Decide(Combine(own, verdict(p)), p.id[1], verdict(p))
        PROVE  UsageOutcome(binding) = decision.outcome
    BY <1>4, <1>7, <1>8, <2>3
  <2> QED
    BY <1>6, <2>1, <2>2, <2>3
<1> QED
  BY <1>9 DEF binding

LEMMA GateInitStep == Init => Gate!GateInit
BY DEF Init, Gate!GateInit

\* The clock.
LEMMA TickAdvances ==
    ASSUME Tick
    PROVE  Gate!Advance
BY DEF Tick, Gate!Advance, resolving, effects

\* Issuing a receipt grants one approval, for a usage that needs one, that has not
\* ended.
LEMMA IssueGrants ==
    ASSUME TypeOK, ApprovalIssue
    PROVE  Gate!Grant
<1>1. PICK request \in Requests, minutes \in TtlMinutes :
        /\ Decided(disk, request).outcome = "approval_required"
        /\ unsaved' = IssueApprovalReceipt(BindingOf(disk, request), minutes, signingKey, now)
        /\ grants' = grants \cup {unsaved'.signature}
  BY DEF ApprovalIssue
<1> DEFINE usage    == BindingOf(disk, request)
           over     == unsaved'.signature.over
           approval == [usage |-> over.binding, until |-> over.expires]
<1>2. usage \in Binding /\ UsageOutcome(usage) = "approval_required"
  BY <1>1, DecidedType, BindingType, OutcomeOfBinding DEF TypeOK, Docs
<1>3. minutes \in Int /\ over = FieldsFor(usage, Expiry(now, minutes))
  BY <1>1, <1>2, IssueType, DocsAssumption DEF ApprovalIssue, SignerConfigured, TypeOK
<1>4. over.binding = usage /\ over.expires > now
  BY <1>3, ExpiryLater DEF FieldsFor, TypeOK
<1>5. /\ approval.usage \in {b \in Binding : UsageOutcome(b) = "approval_required"}
      /\ approval.until > now
  BY <1>2, <1>4
<1>6. {[usage |-> g.over.binding, until |-> g.over.expires] : g \in grants'}
        = {[usage |-> g.over.binding, until |-> g.over.expires] : g \in grants} \cup {approval}
  BY <1>1
<1>7. UNCHANGED <<now, plan, contacted>>
  BY DEF ApprovalIssue, Edit, resolving, effects
<1> HIDE DEF approval
<1> QED
  BY <1>5, <1>6, <1>7 DEF Gate!Grant

\* Building a plan admits the run, under an approval that has not ended.
LEMMA PlanAdmits ==
    ASSUME IInv, NEW r \in Runs, BuildPlan(r)
    PROVE  Gate!Admit(r)
<1> DEFINE usage   == plan'[r].binding
           shown   == [s \in Runs |-> IF plan[s] = NoPlan THEN NoPlan ELSE plan[s].binding]
           granted == {[usage |-> g.over.binding, until |-> g.over.expires] : g \in grants}
<1>1. /\ plan'[r] \in Plan
      /\ plan'[r] # NoPlan
      /\ usage = BindingOf(seen[r], asked[r].request)
      /\ plan'[r].outcome = DecisionOf(r).outcome
      /\ plan'[r].at = now
      /\ Authorised(plan'[r])
  BY PlanBuilt DEF IInv
<1>2. plan[r] = NoPlan
  BY DEF IInv, PlanFirst, BuildPlan
<1>3. /\ plan \in [Runs -> Plan \cup {NoPlan}]
      /\ plan' = [plan EXCEPT ![r] = plan'[r]]
      /\ UNCHANGED <<now, grants, contacted>>
  BY DEF IInv, TypeOK, BuildPlan, environment
<1>4. UsageOutcome(usage) = plan'[r].outcome
  <2>1. seen[r] \in Docs /\ asked[r].request \in Requests
    BY DEF IInv, TypeOK, Planable, Resolved, BuildPlan
  <2>2. DecisionOf(r).outcome \in {"allow", "approval_required"}
    BY <1>1 DEF Authorised
  <2> QED
    BY <1>1, <2>1, <2>2, OutcomeOfBinding DEF DecisionOf
<1>5. usage \in Binding \ {b \in Binding : UsageOutcome(b) = "deny"}
  BY <1>1, <1>4 DEF Plan, Authorised
<1>6. usage \in {b \in Binding : UsageOutcome(b) = "approval_required"} =>
        \E approval \in granted : approval.usage = usage /\ now < approval.until
  <2> SUFFICES ASSUME UsageOutcome(usage) = "approval_required"
               PROVE  \E approval \in granted : approval.usage = usage /\ now < approval.until
    OBVIOUS
  <2> DEFINE signature == plan'[r].signature
  <2>1. signature \in grants /\ signature.over.binding = usage /\ now < signature.over.expires
    BY <1>1, <1>4 DEF Authorised
  <2> DEFINE approval == [usage |-> signature.over.binding, until |-> signature.over.expires]
  <2>2. approval \in granted
    BY <2>1
  <2>3. approval.usage = usage /\ now < approval.until
    BY <2>1
  <2> QED
    BY <2>2, <2>3
<1>7. shown[r] = NoPlan /\ shown'[r] = usage /\ shown' = [shown EXCEPT ![r] = usage]
  BY <1>1, <1>2, <1>3
<1> HIDE DEF usage
<1> QED
  BY <1>3, <1>5, <1>6, <1>7 DEF Gate!Admit, Gate!Approved

\* Calling the adapter contacts the connection, once.
LEMMA CallContacts ==
    ASSUME IInv, NEW r \in Runs, CallAdapter(r)
    PROVE  Gate!Contact(r)
<1>1. plan[r] # NoPlan /\ r \notin contacted
  BY DEF IInv, PlanFirst, CallAdapter, Busy, Final
<1>2. plan[r].binding # NoPlan
  BY <1>1, DocsAssumption DEF IInv, TypeOK, Plan
<1> QED
  BY <1>1, <1>2 DEF CallAdapter, Gate!Contact, environment, resolving

LEMMA GateStep ==
    ASSUME IInv, [Next]_vars
    PROVE  [Gate!GateNext]_(Gate!gateVars)
<1>1. CASE UNCHANGED <<now, grants, plan, contacted>>
  BY <1>1 DEF Gate!gateVars
<1>2. CASE Environment \/ UNCHANGED vars
  <2>1. CASE EditProfile \/ EditPolicy \/ ReplaceKey \/ EditReceipt \/ SaveReceipt
             \/ UNCHANGED vars
    BY <1>1, <2>1 DEF EditProfile, EditPolicy, ReplaceKey, EditReceipt, SaveReceipt, Edit,
                      vars, environment, resolving, effects
  <2> QED
    BY <1>2, <2>1, TickAdvances, IssueGrants DEF Environment, Gate!GateNext, IInv
<1>3. ASSUME NEW r \in Runs, Start(r) \/ Resolve(r) \/ Execute(r) \/ Crash(r)
      PROVE  [Gate!GateNext]_(Gate!gateVars)
  <2>1. CASE BuildPlan(r)
    BY <2>1, PlanAdmits DEF Gate!GateNext
  <2>2. CASE CallAdapter(r)
    BY <2>2, CallContacts DEF Gate!GateNext
  <2>3. CASE LoadDocument(r) \/ ConfigurationError(r) \/ LoadReceipt(r) \/ SkipReceipt(r)
             \/ ResolveAgain(r) \/ ReportPlanning(r)
    BY <1>1, <2>3 DEF LoadDocument, ConfigurationError, LoadReceipt, SkipReceipt, ResolveAgain,
                      ReportPlanning, environment, resolving, effects
  <2>4. CASE Start(r) \/ Crash(r) \/ (Execute(r) /\ contacted' = contacted)
    BY <1>1, <2>4, ExecuteFrame DEF Start, Crash, environment, resolving, effects
  <2>5. CASE Execute(r) /\ contacted' # contacted
    BY <2>2, <2>5 DEF Execute, RejectRun, Sweep, SecretsResolved, SecretsFail, WriteSecrets,
                      WriteLease, PrepareFails, AdapterReturns, AdapterRaises, SaveTrace,
                      TraceFails, effects
  <2> QED
    BY <1>3, <2>1, <2>2, <2>3, <2>4, <2>5 DEF Resolve
<1> QED
  BY <1>2, <1>3 DEF Next

\* For any number of runs, documents, keys and edits: governed execution implements
\* the approval gate.
THEOREM GateImplemented == Spec => ImplementsApprovalGate
<1>1. IInv /\ [Next]_vars => [Gate!GateNext]_(Gate!gateVars)
  BY GateStep
<1> QED
  BY <1>1, GateInitStep, ExecutionInvariant, PTL DEF Spec, ImplementsApprovalGate, Gate!GateSpec

-----------------------------------------------------------------------------
(* Governed execution implements LeaseDirectories.                         *)

\* The step that takes one run to another label, all plans kept, takes that run to
\* the stage of the label and leaves the stages of the others and who is tidy.
LEMMA StageMoves ==
    ASSUME TypeOK, NEW r \in Runs, NEW label, Goto(r, label), plan' = plan
    PROVE  /\ Stages' = [Stages EXCEPT ![r] = StageOf(r)']
           /\ Tidy' = Tidy
<1>1. \A s \in Runs \ {r} : StageOf(s)' = StageOf(s)
  BY DEF StageOf, Goto, TypeOK, Materializes
<1>2. Stages' = [s \in Runs |-> StageOf(s)']
  BY DEF Stages
<1>3. DOMAIN Stages = Runs /\ \A s \in Runs : Stages[s] = StageOf(s)
  BY DEF Stages
<1>4. Stages' = [Stages EXCEPT ![r] = StageOf(r)']
  <2> HIDE DEF Stages, StageOf
  <2> QED
    BY <1>1, <1>2, <1>3, Zenon
<1> QED
  BY <1>4 DEF Tidy

\* Where the stage stays, and nothing else of the lease moves, nothing happens.
LEMMA StageStays ==
    ASSUME TypeOK, NEW r \in Runs, NEW label, Goto(r, label), plan' = plan,
           StageOf(r)' = StageOf(r)
    PROVE  Stages' = Stages /\ Tidy' = Tidy
<1>1. Stages' = [Stages EXCEPT ![r] = StageOf(r)'] /\ Tidy' = Tidy
  BY StageMoves
<1>2. Stages[r] = StageOf(r)
  BY DEF Stages
<1>3. [Stages EXCEPT ![r] = Stages[r]] = Stages
  BY DEF Stages
<1> QED
  BY <1>1, <1>2, <1>3

\* Nothing that a lease shows of itself.
Idle == UNCHANGED <<now, Stages, bundle, leaseEnd, Tidy>>

LEMMA IdleStutters ==
    ASSUME Idle
    PROVE  UNCHANGED Leases!leaseVars
BY DEF Idle, Leases!leaseVars

LEMMA OutsideMaps ==
    ASSUME TypeOK, Environment \/ UNCHANGED vars
    PROVE  Leases!Advance \/ UNCHANGED Leases!leaseVars
<1>1. Stages' = Stages /\ Tidy' = Tidy /\ bundle' = bundle
  BY EnvironmentFrame DEF Stages, StageOf, Materializes, Tidy
<1>2. leaseEnd' = leaseEnd
  BY DEF Environment, Tick, EditProfile, EditPolicy, ReplaceKey, EditReceipt, ApprovalIssue,
         SaveReceipt, Edit, vars, effects
<1>3. CASE Tick
  BY <1>1, <1>2, <1>3 DEF Tick, Leases!Advance
<1>4. CASE ~Tick
  <2>1. now' = now
    BY <1>4 DEF Environment, EditProfile, EditPolicy, ReplaceKey, EditReceipt, ApprovalIssue,
                SaveReceipt, Edit, vars, environment
  <2> QED
    BY <1>1, <1>2, <2>1, IdleStutters DEF Idle
<1> QED
  BY <1>3, <1>4

\* The steps of a run that only take it from one label to another: the label tells
\* what that means for its lease.
Walks(r, label) ==
    /\ Goto(r, label)
    /\ UNCHANGED <<now, plan, bundle, leaseEnd>>

LEMMA WalksIdle ==
    ASSUME TypeOK, NEW r \in Runs, NEW label, Walks(r, label), StageOf(r)' = StageOf(r)
    PROVE  UNCHANGED Leases!leaseVars
BY StageStays, IdleStutters DEF Walks, Idle

LEMMA WalksOver ==
    ASSUME TypeOK, NEW r \in Runs, Walks(r, "done"), bundle[r] # "ready",
           StageOf(r) \in {"planning", "preparing"}
    PROVE  Leases!GiveUp(r)
<1>1. StageOf(r)' = "over"
  BY DEF Walks, Goto, TypeOK, StageOf
<1>2. Stages' = [Stages EXCEPT ![r] = "over"] /\ Tidy' = Tidy
  BY <1>1, StageMoves DEF Walks
<1>3. Stages[r] = StageOf(r)
  BY DEF Stages
<1> QED
  BY <1>2, <1>3 DEF Walks, Leases!GiveUp, Leases!Enter

LEMMA CrashKills ==
    ASSUME TypeOK, NEW r \in Runs, Crash(r)
    PROVE  Leases!Kill(r)
<1>1. StageOf(r)' = "killed" /\ StageOf(r) # "killed"
  BY DEF Crash, Goto, TypeOK, StageOf, Busy
<1>2. Stages' = [Stages EXCEPT ![r] = "killed"] /\ Tidy' = Tidy
  BY <1>1, StageMoves DEF Crash, resolving
<1>3. Stages[r] = StageOf(r)
  BY DEF Stages
<1> QED
  BY <1>1, <1>2, <1>3 DEF Crash, Leases!Kill, Leases!Enter, environment, effects

\* A plan brings its lease, which does not end before it begins, and says who is to
\* clean up.
LEMMA BuildPlans ==
    ASSUME IInv, NEW r \in Runs, BuildPlan(r)
    PROVE  Leases!Plan(r)
<1>1. /\ plan \in [Runs -> Plan \cup {NoPlan}]
      /\ leaseEnd \in [Runs -> Nat]
      /\ pc[r] = "plan"
      /\ now \in Nat
      /\ pc' = [pc EXCEPT ![r] = "params"]
      /\ pc \in [Runs -> {"idle"} \cup Busy \cup Final]
  BY DEF IInv, TypeOK, BuildPlan, Goto
<1>2. \A s \in Runs \ {r} : plan'[s] = plan[s]
  BY <1>1 DEF BuildPlan
<1>3. \A s \in Runs : StageOf(s)' = StageOf(s)
  <2>1. StageOf(r) = "planning" /\ StageOf(r)' = "planning"
    BY <1>1 DEF StageOf
  <2>2. ASSUME NEW s \in Runs \ {r} PROVE StageOf(s)' = StageOf(s)
    BY <1>1, <1>2, <2>2 DEF StageOf, Materializes
  <2> QED
    BY <2>1, <2>2
<1>4. Stages' = Stages /\ Stages[r] = "planning"
  BY <1>1, <1>3 DEF Stages, StageOf
<1>5. Tidy' \ {r} = Tidy \ {r}
  BY <1>2 DEF Tidy
<1>6. /\ leaseEnd'[r] = leaseEnd[r] \/ leaseEnd'[r] >= now
      /\ leaseEnd' = [leaseEnd EXCEPT ![r] = leaseEnd'[r]]
  <2> DEFINE usage == BindingOf(seen[r], asked[r].request)
  <2>1. Resolved(r)
    BY DEF IInv, BuildPlan, Planable
  <2>2. usage \in Binding
    BY <2>1, ResolvedBinding DEF IInv
  <2>3. LeaseEnd(usage.resource) \in Nat /\ LeaseEnd(usage.resource) >= now
    BY <1>1, <2>2, LeaseEndLater DEF Binding, Profile
  <2>4. leaseEnd' = IF usage.mode = "materialize"
                    THEN [leaseEnd EXCEPT ![r] = LeaseEnd(usage.resource)]
                    ELSE leaseEnd
    BY DEF BuildPlan
  <2> HIDE DEF usage
  <2>5. PICK end \in Nat : end >= now /\ leaseEnd' \in {[leaseEnd EXCEPT ![r] = end], leaseEnd}
    BY <1>1, <2>3, <2>4
  <2> QED
    BY <1>1, <2>5
<1>7. UNCHANGED <<now, bundle>>
  BY DEF BuildPlan, environment
<1> QED
  BY <1>4, <1>5, <1>6, <1>7 DEF Leases!Plan

\* A sweep removes what is not complete and what has ended, in one step.
LEMMA SweepMaps ==
    ASSUME IInv, NEW r \in Runs, Sweep(r)
    PROVE  Leases!Sweep
<1>1. Stages' = Stages /\ Tidy' = Tidy
  <2>1. StageOf(r)' = StageOf(r)
    BY DEF IInv, TypeOK, Sweep, Goto, StageOf
  <2> QED
    BY <2>1, StageStays DEF IInv, Sweep, resolving
<1>2. bundle' = [s \in Runs |-> IF Stale(s) THEN "none" ELSE bundle[s]]
  BY DEF Sweep
<1>3. bundle' = [s \in Runs |-> bundle'[s]]
  BY <1>2
<1>4. ASSUME NEW s \in Runs, bundle'[s] # bundle[s]
      PROVE  Leases!Dwindles(s) /\ Leases!Stale(s)
  BY <1>2, <1>4 DEF Stale, Leases!Dwindles, Leases!Stale
<1>5. UNCHANGED <<now, leaseEnd>>
  BY DEF Sweep, environment
<1> QED
  BY <1>1, <1>3, <1>4, <1>5 DEF Leases!Sweep

LEMMA WriteSecretsPrepares ==
    ASSUME IInv, NEW r \in Runs, WriteSecrets(r)
    PROVE  Leases!Prepare(r)
<1>1. StageOf(r)' = "preparing" /\ StageOf(r) = "planning"
  BY DEF IInv, TypeOK, WriteSecrets, Goto, StageOf
<1>2. Stages' = [Stages EXCEPT ![r] = "preparing"] /\ Tidy' = Tidy
  BY <1>1, StageMoves DEF IInv, WriteSecrets, resolving
<1>3. Stages[r] = "planning"
  BY <1>1 DEF Stages
<1>4. bundle[r] = "none"
  BY DEF IInv, BundlesOwned, WriteSecrets, Final
<1> QED
  BY <1>2, <1>3, <1>4 DEF WriteSecrets, Leases!Prepare, Leases!Becomes, Leases!Enter, environment

LEMMA WriteLeaseCompletes ==
    ASSUME IInv, NEW r \in Runs, WriteLease(r)
    PROVE  Leases!Complete(r)
<1>1. Materializes(r) /\ plan' = plan
  BY DEF IInv, BundlesOwned, WriteLease, resolving
<1>2. StageOf(r)' = "using" /\ StageOf(r) = "preparing"
  BY <1>1 DEF IInv, TypeOK, WriteLease, Goto, StageOf, Materializes
<1>3. Stages' = [Stages EXCEPT ![r] = "using"] /\ Tidy' = Tidy
  BY <1>1, <1>2, StageMoves DEF IInv, WriteLease
<1>4. Stages[r] = "preparing"
  BY <1>2 DEF Stages
<1> QED
  BY <1>3, <1>4 DEF WriteLease, Leases!Complete, Leases!Becomes, Leases!Enter, environment

\* However the adapter ends, a run with a bundle leaves it as its plan says, and a
\* run without one had none to leave.
LEMMA AdapterEnds ==
    ASSUME IInv, NEW r \in Runs, pc[r] \in {"execute", "answer"}, Cleanup(r),
           NEW label \in {"trace", "done"}, Goto(r, label),
           UNCHANGED <<now, plan, leaseEnd>>
    PROVE  Leases!Leave(r) \/ Leases!GiveUp(r)
<1>1. plan[r] # NoPlan
  BY DEF IInv, PlanFirst, Busy
<1>2. StageOf(r)' = "over"
  BY DEF IInv, TypeOK, Goto, StageOf
<1>3. Stages' = [Stages EXCEPT ![r] = "over"] /\ Tidy' = Tidy
  BY <1>2, StageMoves DEF IInv
<1>4. CASE Materializes(r)
  <2>1. Stages[r] = "using"
    BY <1>4 DEF Stages, StageOf
  <2>2. r \in Tidy <=> plan[r].binding.resource.cleanupOnExit
    BY <1>1 DEF Tidy
  <2>3. IF r \in Tidy THEN Leases!Becomes(r, "none") ELSE bundle' = bundle
    BY <1>4, <2>2 DEF Cleanup, Leases!Becomes
  <2> QED
    BY <1>3, <2>1, <2>3 DEF Leases!Leave, Leases!Enter
<1>5. CASE ~Materializes(r)
  <2>1. Stages[r] = "planning"
    BY <1>5 DEF Stages, StageOf
  <2>2. bundle[r] = "none" /\ bundle' = bundle
    BY <1>5 DEF IInv, BundlesOwned, Cleanup
  <2> QED
    BY <1>3, <2>1, <2>2 DEF Leases!GiveUp, Leases!Enter
<1> QED
  BY <1>4, <1>5

LEMMA ResolveMaps ==
    ASSUME IInv, NEW r \in Runs, Start(r) \/ Resolve(r)
    PROVE  \/ UNCHANGED Leases!leaseVars
           \/ Leases!Plan(r)
           \/ Leases!GiveUp(r)
<1>1. TypeOK /\ pc[r] \in {"idle", "load", "plan"} /\ StageOf(r) = "planning"
  BY DEF IInv, Start, Resolve, LoadDocument, ConfigurationError, LoadReceipt, SkipReceipt,
         BuildPlan, ResolveAgain, ReportPlanning, Loaded, StageOf
<1>2. bundle[r] # "ready"
  BY <1>1 DEF IInv, BundlesOwned, Final
<1>3. CASE LoadDocument(r)
  BY <1>3, IdleStutters
  DEF LoadDocument, Idle, Stages, StageOf, Tidy, Materializes, environment, effects
<1>4. CASE BuildPlan(r)
  BY <1>4, BuildPlans
<1>5. ASSUME NEW label \in {"load", "plan"}, Walks(r, label)
      PROVE  UNCHANGED Leases!leaseVars
  <2>1. StageOf(r)' = "planning"
    BY <1>1, <1>5 DEF Walks, Goto, TypeOK, StageOf
  <2> QED
    BY <1>1, <1>5, <2>1, WalksIdle
<1>6. ASSUME Walks(r, "done") PROVE Leases!GiveUp(r)
  BY <1>1, <1>2, <1>6, WalksOver
<1>7. CASE Start(r)
  BY <1>5, <1>7 DEF Start, Walks, environment, resolving, effects
<1>8. CASE ConfigurationError(r) \/ ReportPlanning(r)
  BY <1>6, <1>8
  DEF ConfigurationError, ReportPlanning, Report, Walks, environment, resolving, effects
<1>9. CASE LoadReceipt(r) \/ SkipReceipt(r)
  <2>1. Walks(r, "plan") \/ Walks(r, "done")
    BY <1>9 DEF LoadReceipt, SkipReceipt, Report, Walks, environment, resolving, effects
  <2> QED
    BY <1>5, <1>6, <2>1
<1>10. CASE ResolveAgain(r)
  BY <1>5, <1>10 DEF ResolveAgain, Walks, environment, effects
<1> QED
  BY <1>3, <1>4, <1>7, <1>8, <1>9, <1>10 DEF Resolve

LEMMA ExecuteMaps ==
    ASSUME IInv, NEW r \in Runs, Execute(r)
    PROVE  \/ UNCHANGED Leases!leaseVars
           \/ Leases!Sweep
           \/ Leases!Prepare(r)
           \/ Leases!Complete(r)
           \/ Leases!GiveUp(r)
           \/ Leases!Leave(r)
<1>1. TypeOK
  BY DEF IInv
<1>2. UNCHANGED <<now, plan>>
  BY ExecuteFrame DEF environment, resolving
<1>3. CASE Sweep(r)
  BY <1>3, SweepMaps
<1>4. CASE WriteSecrets(r)
  BY <1>4, WriteSecretsPrepares
<1>5. CASE WriteLease(r)
  BY <1>5, WriteLeaseCompletes
<1>6. CASE AdapterReturns(r) \/ AdapterRaises(r)
  BY <1>2, <1>6, AdapterEnds DEF AdapterReturns, AdapterRaises, Report
<1>7. CASE RejectRun(r) \/ SecretsFail(r) \/ PrepareFails(r) \/ (TraceFails(r) /\ pc[r] = "secrets")
  <2>1. Walks(r, "done") /\ pc[r] \in {"params", "secrets", "prepare", "lease"}
    BY <1>2, <1>7 DEF RejectRun, SecretsFail, PrepareFails, TraceFails, Report, Walks, effects
  <2>2. StageOf(r) \in {"planning", "preparing"}
    BY <2>1 DEF StageOf
  <2>3. bundle[r] # "ready"
    BY <2>1 DEF IInv, BundlesOwned, Final
  <2> QED
    BY <1>1, <2>1, <2>2, <2>3, WalksOver
<1>8. CASE SecretsResolved(r)
  <2> DEFINE label == IF Materializes(r) THEN "prepare" ELSE "execute"
  <2>1. Walks(r, label) /\ pc[r] = "secrets"
    BY <1>2, <1>8 DEF SecretsResolved, Walks, effects
  <2>2. StageOf(r)' = StageOf(r)
    BY <1>1, <1>2, <2>1 DEF Walks, Goto, TypeOK, StageOf, Materializes
  <2> HIDE DEF label
  <2> QED
    BY <1>1, <2>1, <2>2, WalksIdle
<1>9. CASE CallAdapter(r)
  <2>1. Walks(r, "answer") /\ pc[r] = "execute"
    BY <1>2, <1>9 DEF CallAdapter, Walks
  <2>2. StageOf(r)' = StageOf(r)
    BY <1>1, <1>2, <2>1 DEF Walks, Goto, TypeOK, StageOf, Materializes
  <2> QED
    BY <1>1, <2>1, <2>2, WalksIdle
<1>10. CASE SaveTrace(r) \/ (TraceFails(r) /\ pc[r] = "trace")
  <2>1. Walks(r, "done") /\ pc[r] = "trace"
    BY <1>2, <1>10 DEF SaveTrace, TraceFails, Report, Walks, effects
  <2>2. StageOf(r)' = StageOf(r)
    BY <1>1, <2>1 DEF Walks, Goto, TypeOK, StageOf
  <2> QED
    BY <1>1, <2>1, <2>2, WalksIdle
<1>11. TraceFails(r) => pc[r] \in {"secrets", "trace"}
  BY DEF TraceFails
<1> QED
  BY <1>3, <1>4, <1>5, <1>6, <1>7, <1>8, <1>9, <1>10, <1>11 DEF Execute

LEMMA LeaseStep ==
    ASSUME IInv, [Next]_vars
    PROVE  [Leases!LeaseNext]_(Leases!leaseVars)
<1>1. CASE Environment \/ UNCHANGED vars
  BY <1>1, OutsideMaps DEF IInv, Leases!LeaseNext
<1>2. ASSUME NEW r \in Runs, Start(r) \/ Resolve(r)
      PROVE  [Leases!LeaseNext]_(Leases!leaseVars)
  BY <1>2, ResolveMaps DEF Leases!LeaseNext
<1>3. ASSUME NEW r \in Runs, Execute(r)
      PROVE  [Leases!LeaseNext]_(Leases!leaseVars)
  BY <1>3, ExecuteMaps DEF Leases!LeaseNext
<1>4. ASSUME NEW r \in Runs, Crash(r)
      PROVE  [Leases!LeaseNext]_(Leases!leaseVars)
  BY <1>4, CrashKills DEF IInv, Leases!LeaseNext
<1> QED
  BY <1>1, <1>2, <1>3, <1>4 DEF Next

LEMMA LeaseInitStep == Init => Leases!LeaseInit
<1> SUFFICES ASSUME Init PROVE Leases!LeaseInit
  OBVIOUS
<1>1. \A r \in Runs : StageOf(r) = "planning"
  BY DEF Init, StageOf
<1>2. Stages = [r \in Runs |-> "planning"]
  BY <1>1, Zenon DEF Stages
<1>3. Tidy \subseteq Runs
  BY DEF Tidy
<1> QED
  BY <1>2, <1>3 DEF Init, Leases!LeaseInit

\* For any number of runs, documents and edits: runs that sweep each other's bundles
\* in one step keep the promises of LeaseDirectories.
THEOREM LeasesImplemented == Spec => ImplementsLeaseDirectories
<1>1. IInv /\ [Next]_vars => [Leases!LeaseNext]_(Leases!leaseVars)
  BY LeaseStep
<1> QED
  BY <1>1, LeaseInitStep, ExecutionInvariant, PTL
  DEF Spec, ImplementsLeaseDirectories, Leases!LeaseSpec

=============================================================================
