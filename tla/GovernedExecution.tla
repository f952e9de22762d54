------------------------- MODULE GovernedExecution -------------------------
(***************************************************************************)
(* `ccp exec run`: from the resource files and the approval receipt to the *)
(* connection adapter and the trace (surfaces/cli_dispatch.py,             *)
(* kernel/execution.py, kernel/executor.py).                               *)
(*                                                                         *)
(* Every run is one process.  Runs share the file system with each other,  *)
(* with people who edit the resources, replace the signing key or a        *)
(* receipt, and with `ccp approval issue`: the connection profile and the  *)
(* gateway policy are two files read at two moments, the receipt a third,  *)
(* and the bundles of all runs lie in one directory that every run sweeps. *)
(* Here a sweep is one step; Materialization has its interleavings.        *)
(***************************************************************************)
EXTENDS ApprovalReceipts

CONSTANTS
    Runs,           \* invocations of `ccp exec run`
    ProfileDocs,    \* revisions of the connection profile
    PolicyDocs,     \* revisions of the gateway policy
    Requests,       \* what an invocation may ask for
    TtlMinutes,     \* what --ttl-minutes may say
    Absent,         \* no such file
    Torn,           \* a file that is being written: not JSON yet
    Unread,         \* a document this run has not loaded yet
    NoPlan,         \* no ExecutionPlan has been built
    MaxTime,        \* bound on the clock
    MaxEdits        \* bound on what happens outside the runs

ASSUME DocsAssumption ==
    /\ ProfileDocs \subseteq Profile
    /\ PolicyDocs \subseteq Policy
    /\ Requests \subseteq Request
    /\ TtlMinutes \subseteq Int
    /\ Absent \notin Profile \cup Policy \cup Receipt
    /\ Torn \notin Receipt \cup {Absent}
    /\ Unread \notin Profile \cup Policy \cup {Absent}
    /\ NoPlan \notin [binding : Binding, outcome : Decisions, signature : Optional(Signature),
                      at : Nat]
    /\ NoPlan \notin Binding
    /\ MaxTime \in Nat
    /\ MaxEdits \in Nat

VARIABLES
    now,            \* the clock
    edits,          \* how many edits have happened
    disk,           \* the resource files: one profile, one policy
    signingKey,     \* the content of the key file
    receiptFile,    \* the receipt file the runs are pointed at
    unsaved,        \* the receipt `ccp approval issue` has signed and is writing
    grants,         \* history: every signature made by `ccp approval issue`
    pc,             \* where each run is
    phase,          \* "run", or "report" once exec run has turned to exec plan
    asked,          \* each run's arguments
    seen,           \* the documents each run has loaded
    receipt,        \* the receipt each run has loaded
    plan,           \* the ExecutionPlan of each run
    bundle,         \* the lease directory of each run
    leaseEnd,       \* when that lease expires
    contacted,      \* the runs whose adapter has reached the remote system
    traced,         \* the runs with a trace record on disk
    outcome         \* what each run reported, "raised" when an exception ended it

environment == <<now, edits, disk, signingKey, receiptFile, unsaved, grants>>
resolving   == <<phase, asked, seen, receipt, plan>>
effects     == <<bundle, leaseEnd, contacted, traced>>
vars        == <<environment, pc, resolving, effects, outcome>>

Busy  == {"load", "plan", "params", "secrets", "prepare", "lease",
          "execute", "answer", "trace"}
Final == {"done", "crashed"}

Reports == {"none", "ok", "error", "denied", "approval_required", "raised"}

Plan == [binding   : Binding,
         outcome   : Decisions,
         signature : Optional(Signature),
         at        : Nat]

TypeOK ==
    /\ now \in Nat
    /\ edits \in Nat
    /\ disk \in [profile : ProfileDocs \cup {Absent}, policy : PolicyDocs \cup {Absent}]
    /\ signingKey \in Keys \cup {NoKey}
    /\ receiptFile \in Receipt \cup {Absent, Torn}
    /\ unsaved \in Receipt \cup {Absent}
    /\ grants \subseteq Signature
    /\ pc \in [Runs -> {"idle"} \cup Busy \cup Final]
    /\ phase \in [Runs -> {"run", "report"}]
    /\ asked \in [Runs -> [request : Requests, withReceipt : BOOLEAN]]
    /\ seen \in [Runs -> [profile : ProfileDocs \cup {Absent, Unread},
                          policy  : PolicyDocs \cup {Absent, Unread}]]
    /\ receipt \in [Runs -> Receipt \cup {Absent}]
    /\ plan \in [Runs -> Plan \cup {NoPlan}]
    /\ bundle \in [Runs -> {"none", "partial", "ready"}]
    /\ leaseEnd \in [Runs -> Nat]
    /\ contacted \subseteq Runs
    /\ traced \subseteq Runs
    /\ outcome \in [Runs -> Reports]

NothingSeen == [profile |-> Unread, policy |-> Unread]

Init ==
    /\ now = 0
    /\ edits = 0
    /\ disk \in [profile : ProfileDocs, policy : PolicyDocs \cup {Absent}]
    /\ signingKey \in Keys
    /\ receiptFile = Absent
    /\ unsaved = Absent
    /\ grants = {}
    /\ pc = [r \in Runs |-> "idle"]
    /\ phase = [r \in Runs |-> "run"]
    /\ asked \in [Runs -> [request : Requests, withReceipt : BOOLEAN]]
    /\ seen = [r \in Runs |-> NothingSeen]
    /\ receipt = [r \in Runs |-> Absent]
    /\ plan = [r \in Runs |-> NoPlan]
    /\ bundle = [r \in Runs |-> "none"]
    /\ leaseEnd = [r \in Runs |-> 0]
    /\ contacted = {}
    /\ traced = {}
    /\ outcome = [r \in Runs |-> "none"]

-----------------------------------------------------------------------------
(* The decision over two documents, each of which may be missing.          *)

RegistryOf(docs) == [policies |-> IF docs.policy = Absent THEN {} ELSE {docs.policy},
                     backends |-> {}]

Decided(docs, request) ==
    IF docs.profile = Absent THEN Decide("error", Unset, Unset)
    ELSE EvaluateConnectionProfile(docs.profile, RegistryOf(docs), request)

BindingOf(docs, request) ==
    ConnectionApprovalBinding(docs.profile, Decided(docs, request), request)

-----------------------------------------------------------------------------
(* Outside the runs.                                                       *)

Tick ==
    /\ now < MaxTime
    /\ now' = now + 1
    /\ UNCHANGED <<edits, disk, signingKey, receiptFile, unsaved, grants,
                   pc, resolving, effects, outcome>>

Edit ==
    /\ edits < MaxEdits
    /\ edits' = edits + 1
    /\ UNCHANGED <<now, pc, resolving, effects, outcome>>

EditProfile ==
    /\ Edit
    /\ \E doc \in (ProfileDocs \cup {Absent}) \ {disk.profile} : disk' = [disk EXCEPT !.profile = doc]
    /\ UNCHANGED <<signingKey, receiptFile, unsaved, grants>>

EditPolicy ==
    /\ Edit
    /\ \E doc \in (PolicyDocs \cup {Absent}) \ {disk.policy} :
            disk' = [disk EXCEPT !.policy = doc]
    /\ UNCHANGED <<signingKey, receiptFile, unsaved, grants>>

ReplaceKey ==
    /\ Edit
    /\ signingKey' \in (Keys \cup {NoKey}) \ {signingKey}
    /\ UNCHANGED <<disk, receiptFile, unsaved, grants>>

\* Somebody changes the fields of the saved receipt by hand.
EditReceipt ==
    /\ Edit
    /\ receiptFile \notin {Absent, Torn}
    /\ \/ receiptFile' = [receiptFile EXCEPT !.fields.expires = @ + Minute]
       \/ \E request \in Requests :
            /\ disk.profile # Absent
            /\ receiptFile' = [receiptFile EXCEPT !.fields =
                                 FieldsFor(BindingOf(disk, request), @.expires)]
    /\ UNCHANGED <<disk, signingKey, unsaved, grants>>

\* Mutant: a receipt is signed with whatever key there is.
AnyKeySigns == TRUE

SignerConfigured == signingKey # NoKey

\* `ccp approval issue --output`: only for a usage that needs an approval, and
\* only with a key.  Saving truncates the file before it writes it.
ApprovalIssue ==
    /\ Edit
    /\ unsaved = Absent
    /\ SignerConfigured
    /\ \E request \in Requests, minutes \in TtlMinutes :
        /\ Decided(disk, request).outcome = "approval_required"
        /\ LET issued == IssueApprovalReceipt(BindingOf(disk, request), minutes, signingKey, now)
           IN  /\ unsaved' = issued
               /\ grants' = grants \cup {issued.signature}
    /\ receiptFile' = Torn
    /\ UNCHANGED <<disk, signingKey>>

SaveReceipt ==
    /\ unsaved # Absent
    /\ receiptFile' = unsaved
    /\ unsaved' = Absent
    /\ UNCHANGED <<now, edits, disk, signingKey, grants, pc, resolving, effects, outcome>>

-----------------------------------------------------------------------------
(* One run: resolving.  exec run resolves everything once; if the planning  *)
(* is not ready it calls exec plan, which resolves everything again and     *)
(* whose status is the one reported.                                        *)

Goto(r, label) == pc' = [pc EXCEPT ![r] = label]

Report(r, status) ==
    /\ outcome' = [outcome EXCEPT ![r] = status]
    /\ Goto(r, "done")

Start(r) ==
    /\ pc[r] = "idle"
    /\ Goto(r, "load")
    /\ UNCHANGED <<environment, resolving, effects, outcome>>

LoadDocument(r) ==
    /\ pc[r] = "load"
    /\ \E d \in {"profile", "policy"} :
        /\ seen[r][d] = Unread
        /\ seen' = [seen EXCEPT ![r][d] = disk[d]]
    /\ UNCHANGED <<environment, pc, phase, asked, receipt, plan, effects, outcome>>

Loaded(r) == pc[r] = "load" /\ Unread \notin {seen[r].profile, seen[r].policy}

DecisionOf(r) == Decided(seen[r], asked[r].request)

ConfigurationError(r) ==
    /\ Loaded(r)
    /\ DecisionOf(r).outcome = "error"
    /\ Report(r, "error")
    /\ UNCHANGED <<environment, resolving, effects>>

LoadReceipt(r) ==
    /\ Loaded(r)
    /\ DecisionOf(r).outcome # "error"
    /\ asked[r].withReceipt
    /\ \/ /\ receiptFile \in {Absent, Torn}
          /\ Report(r, "error")
          /\ UNCHANGED receipt
       \/ /\ receiptFile \notin {Absent, Torn}
          /\ receipt' = [receipt EXCEPT ![r] = receiptFile]
          /\ Goto(r, "plan")
          /\ UNCHANGED outcome
    /\ UNCHANGED <<environment, phase, asked, seen, plan, effects>>

SkipReceipt(r) ==
    /\ Loaded(r)
    /\ DecisionOf(r).outcome # "error"
    /\ ~asked[r].withReceipt
    /\ Goto(r, "plan")
    /\ UNCHANGED <<environment, resolving, effects, outcome>>

\* Does the receipt the run has loaded cover the usage it has resolved?
\* Mutant: nobody looks at the signature.
CoveredUnsigned(r) ==
    LET usage == BindingOf(seen[r], asked[r].request)
    IN  /\ receipt[r].fields = FieldsFor(usage, receipt[r].fields.expires)
        /\ now < receipt[r].fields.expires

Covered(r) ==
    ValidReceipt(receipt[r], BindingOf(seen[r], asked[r].request), signingKey, now)

\* build_connection_execution_plan: what the planning comes to.
Planning(r) ==
    LET needed == DecisionOf(r).outcome
    IN  CASE needed = "allow"                                    -> "ok"
          [] needed = "deny"                                     -> "denied"
          [] needed = "approval_required" /\ receipt[r] = Absent -> "approval_required"
          [] needed = "approval_required" /\ receipt[r] # Absent ->
                IF Covered(r) THEN "ok" ELSE "denied"

\* A lease counts from the whole second, as a receipt does.
LeaseEnd(resource) == WholeSeconds(now) + resource.leaseTtl * Second

BuildPlan(r) ==
    /\ pc[r] = "plan"
    /\ phase[r] = "run"
    /\ Planning(r) = "ok"
    /\ LET usage == BindingOf(seen[r], asked[r].request)
       IN  /\ plan' = [plan EXCEPT ![r] =
                         [binding   |-> usage,
                          outcome   |-> DecisionOf(r).outcome,
                          signature |-> IF receipt[r] = Absent THEN Unset
                                        ELSE receipt[r].signature,
                          at        |-> now]]
           /\ leaseEnd' = IF usage.mode = "materialize"
                          THEN [leaseEnd EXCEPT ![r] = LeaseEnd(usage.resource)]
                          ELSE leaseEnd
    /\ Goto(r, "params")
    /\ UNCHANGED <<environment, phase, asked, seen, receipt, bundle, contacted, traced, outcome>>

\* Mutant: exec run calls itself.
RunAgain(r) == phase' = [phase EXCEPT ![r] = "run"]

TurnToPlan(r) == phase' = [phase EXCEPT ![r] = "report"]

\* exec run turns to exec plan.
ResolveAgain(r) ==
    /\ pc[r] = "plan"
    /\ phase[r] = "run"
    /\ Planning(r) # "ok"
    /\ TurnToPlan(r)
    /\ seen' = [seen EXCEPT ![r] = NothingSeen]
    /\ receipt' = [receipt EXCEPT ![r] = Absent]
    /\ Goto(r, "load")
    /\ UNCHANGED <<environment, asked, plan, effects, outcome>>

ReportPlanning(r) ==
    /\ pc[r] = "plan"
    /\ phase[r] = "report"
    /\ Report(r, Planning(r))
    /\ UNCHANGED <<environment, resolving, effects>>

-----------------------------------------------------------------------------
(* One run: run_governed_execution.                                        *)

\* The parameters are not a JSON object, or no adapter has the plan's name.
RejectRun(r) ==
    /\ pc[r] = "params"
    /\ Report(r, "error")
    /\ UNCHANGED <<environment, resolving, effects>>

\* Mutant: nobody looks at the end of the lease.
StaleAnyway(s) == bundle[s] # "none"

\* A bundle without lease.json goes, and one whose lease has ended.
Stale(s) == \/ bundle[s] = "partial"
            \/ bundle[s] = "ready" /\ leaseEnd[s] <= now

Sweep(r) ==
    /\ pc[r] = "params"
    /\ bundle' = [s \in Runs |-> IF Stale(s) THEN "none" ELSE bundle[s]]
    /\ Goto(r, "secrets")
    /\ UNCHANGED <<environment, resolving, leaseEnd, contacted, traced, outcome>>

Materializes(r) == plan[r].binding.mode = "materialize"

SecretsResolved(r) ==
    /\ pc[r] = "secrets"
    /\ Goto(r, IF Materializes(r) THEN "prepare" ELSE "execute")
    /\ UNCHANGED <<environment, resolving, effects, outcome>>

\* The backend raises: a failed trace is kept and the run reports an error.
SecretsFail(r) ==
    /\ pc[r] = "secrets"
    /\ traced' = traced \cup {r}
    /\ Report(r, "error")
    /\ UNCHANGED <<environment, resolving, bundle, leaseEnd, contacted>>

WriteSecrets(r) ==
    /\ pc[r] = "prepare"
    /\ bundle' = [bundle EXCEPT ![r] = "partial"]
    /\ Goto(r, "lease")
    /\ UNCHANGED <<environment, resolving, leaseEnd, contacted, traced, outcome>>

WriteLease(r) ==
    /\ pc[r] = "lease"
    /\ bundle[r] = "partial"
    /\ bundle' = [bundle EXCEPT ![r] = "ready"]
    /\ Goto(r, "execute")
    /\ UNCHANGED <<environment, resolving, leaseEnd, contacted, traced, outcome>>

\* The file system refuses, or another run has swept the directory away.
\* Nothing catches it, and what has been written stays.
PrepareFails(r) ==
    /\ pc[r] \in {"prepare", "lease"}
    /\ Report(r, "raised")
    /\ UNCHANGED <<environment, resolving, effects>>

CallAdapter(r) ==
    /\ pc[r] = "execute"
    /\ contacted' = contacted \cup {r}
    /\ Goto(r, "answer")
    /\ UNCHANGED <<environment, resolving, bundle, leaseEnd, traced, outcome>>

\* Mutant: the bundle is removed only when the adapter returns.
KeepBundle(r) == bundle' = bundle

\* The finally clause around adapter.execute.
Cleanup(r) ==
    bundle' = IF Materializes(r) /\ plan[r].binding.resource.cleanupOnExit
              THEN [bundle EXCEPT ![r] = "none"] ELSE bundle

\* The adapter returns an envelope; before any contact only an error.
AdapterReturns(r) ==
    /\ pc[r] \in {"execute", "answer"}
    /\ Cleanup(r)
    /\ Goto(r, "trace")
    /\ UNCHANGED <<environment, resolving, leaseEnd, contacted, traced, outcome>>

\* The adapter raises, before or after the contact.
AdapterRaises(r) ==
    /\ pc[r] \in {"execute", "answer"}
    /\ Cleanup(r)
    /\ Report(r, "raised")
    /\ UNCHANGED <<environment, resolving, leaseEnd, contacted, traced>>

\* Mutant: a failed envelope is reported without a trace.
SaveTraceOfSuccess(r) ==
    /\ pc[r] = "trace"
    /\ \E status \in {"ok", "error"} :
        /\ r \notin contacted => status = "error"
        /\ traced' = IF status = "ok" THEN traced \cup {r} ELSE traced
        /\ Report(r, status)
    /\ UNCHANGED <<environment, resolving, bundle, leaseEnd, contacted>>

SaveTrace(r) ==
    /\ pc[r] = "trace"
    /\ \E status \in {"ok", "error"} :
        /\ r \notin contacted => status = "error"
        /\ Report(r, status)
    /\ traced' = traced \cup {r}
    /\ UNCHANGED <<environment, resolving, bundle, leaseEnd, contacted>>

\* Saving the trace raises, of the adapter's answer or of secrets that fail.
TraceFails(r) ==
    /\ pc[r] \in {"secrets", "trace"}
    /\ Report(r, "raised")
    /\ UNCHANGED <<environment, resolving, effects>>

\* The process is killed.
Crash(r) ==
    /\ pc[r] \in Busy
    /\ Goto(r, "crashed")
    /\ UNCHANGED <<environment, resolving, effects, outcome>>

-----------------------------------------------------------------------------
Environment ==
    \/ Tick
    \/ EditProfile
    \/ EditPolicy
    \/ ReplaceKey
    \/ EditReceipt
    \/ ApprovalIssue
    \/ SaveReceipt

Resolve(r) ==
    \/ LoadDocument(r)
    \/ ConfigurationError(r)
    \/ LoadReceipt(r)
    \/ SkipReceipt(r)
    \/ BuildPlan(r)
    \/ ResolveAgain(r)
    \/ ReportPlanning(r)

Execute(r) ==
    \/ RejectRun(r)
    \/ Sweep(r)
    \/ SecretsResolved(r)
    \/ SecretsFail(r)
    \/ WriteSecrets(r)
    \/ WriteLease(r)
    \/ PrepareFails(r)
    \/ CallAdapter(r)
    \/ AdapterReturns(r)
    \/ AdapterRaises(r)
    \/ SaveTrace(r)
    \/ TraceFails(r)

Next ==
    \/ Environment
    \/ \E r \in Runs : Start(r) \/ Resolve(r) \/ Execute(r) \/ Crash(r)

Spec == Init /\ [][Next]_vars

\* A run that has started is one operating system process that nothing blocks,
\* and every wait of an adapter has a time limit.
FairSpec == Spec /\ \A r \in Runs : WF_vars(Resolve(r) \/ Execute(r))

-----------------------------------------------------------------------------
(* Properties.                                                             *)

\* The connection is contacted only under a plan; a usage that needs an approval
\* was covered, when it was planned, by a receipt that `ccp approval issue` had
\* signed for this very profile revision, request and gateway decision, and that
\* had not expired.  Edits of the resources, of the key or of the receipt file
\* between any two steps do not change that.
Authorised(p) ==
    /\ p.outcome \in {"allow", "approval_required"}
    /\ p.outcome = "approval_required" =>
         /\ p.signature \in grants
         /\ p.signature.over.binding = p.binding
         /\ p.at < p.signature.over.expires

ContactApproved == \A r \in contacted : plan[r] # NoPlan /\ Authorised(plan[r])

\* Everything a binding does not hold is irrelevant to whether its usage is open,
\* needs an approval or is refused.
UsageOutcome(b) ==
    LET own == ProfileVerdict(b.resource, [access    |-> b.access,
                                           mode      |-> b.mode,
                                           operation |-> b.operation])
    IN  IF b.policy = Unset THEN own ELSE Combine(own, b.gateway)

Gate == INSTANCE ApprovalGate WITH
    Usages     <- Binding,
    Refused    <- {b \in Binding : UsageOutcome(b) = "deny"},
    Restricted <- {b \in Binding : UsageOutcome(b) = "approval_required"},
    NoUsage    <- NoPlan,
    time       <- now,
    approvals  <- {[usage |-> g.over.binding, until |-> g.over.expires] : g \in grants},
    admitted   <- [r \in Runs |-> IF plan[r] = NoPlan THEN NoPlan ELSE plan[r].binding]

\* Governed execution implements the approval gate: whatever is edited, replaced or
\* torn between its steps, and however often exec run resolves, a run contacts the
\* connection once at most, for the one usage it was admitted with, and a usage that
\* needs an approval is admitted only while one granted for exactly it lasts.
ImplementsApprovalGate == Gate!GateSpec

\* A run that has contacted the connection and reports a status has left a trace
\* before it reports, whether the status is good or bad.
ReportedContactIsTraced ==
    \A r \in contacted : outcome[r] \in {"ok", "error"} => r \in traced

\* However a run ends short of being killed, a complete bundle it was to clean up
\* on exit is gone (the finally clause also covers an adapter that raises).
NoBundleLeftBehind ==
    \A r \in Runs : pc[r] = "done" /\ bundle[r] = "ready" =>
        ~plan[r].binding.resource.cleanupOnExit

StageOf(r) ==
    CASE pc[r] = "lease"                                    -> "preparing"
      [] pc[r] \in {"execute", "answer"} /\ Materializes(r) -> "using"
      [] pc[r] \in {"trace", "done"}                        -> "over"
      [] pc[r] = "crashed"                                  -> "killed"
      [] OTHER                                              -> "planning"

Stages == [r \in Runs |-> StageOf(r)]
Tidy   == {r \in Runs : plan[r] # NoPlan /\ plan[r].binding.resource.cleanupOnExit}

Leases == INSTANCE LeaseDirectories WITH
    time <- now, stage <- Stages, tidy <- Tidy, condemned <- {}

\* Runs whose sweeps are one step promise each other of their bundles what the file operations
\* of Materialization keep: a complete bundle whose lease runs is nobody's but its
\* run's, which leaves it as its plan says, also when the adapter raises.
ImplementsLeaseDirectories == Leases!LeaseSpec

\* Every run that starts ends: exec run turns to exec plan at most once.
EveryRunEnds == \A r \in Runs : pc[r] = "load" ~> pc[r] \in Final

\* kernel/execution.py:147 says of every plan that "governed execution must record
\* a trace for this request".  Here: a run that has contacted the connection and has
\* not been killed has left a trace.  An adapter that raises violates it.
ContactIsTraced == \A r \in contacted : pc[r] = "done" => r \in traced

=============================================================================
