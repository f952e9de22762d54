# Context Control Plane in TLA+

Models, model-checking runs and machine-checked proofs of the Context Control Plane
(`src/`), the Python program behind `ccp`: it decides whether a connection may be used,
asks for signed approvals, executes plans under time-limited leases of secrets, and keeps
traces. Every definition is translated from the code; `PROJECT.json` ("map") names the
lines of each. Paths below are relative to
`src/sdk/python/context_control_plane/`.

To use it: `tlc -config MCSecretFile.cfg MCSecretFile`, `tlapm SecretFileProofs.tla`, and
so on, in this directory.

## 1. The system

Each call of `ccp` is one operating-system process. There is no server, no lock and no
transaction: calls meet in files. That is where the hard behaviour is: one call reads
several files at several moments, several calls write into one directory, and any call can
raise or be killed between two file operations.

| Component | Code | State | Operations | Talks to |
|---|---|---|---|---|
| Connection policy | `kernel/security.py`, `kernel/gateway.py` | none: a function of one profile, the policies, one request | `evaluate_connection_profile`, `evaluate_gateway_policy` | the registry |
| Approval receipts | `kernel/approvals.py` | the signing key file, receipt files | issue, save, load, validate | planning (binding) |
| Planning and execution | `kernel/execution.py`, `kernel/executor.py`, `exec plan` and `exec run` in `surfaces/cli_dispatch.py` | a plan in memory; lease directory; trace file | resolve, plan, sweep, resolve secrets, prepare, call the adapter, clean up, trace | everything above and below |
| Materialization leases | `kernel/materialization.py` | lease directories under one temporary root | prepare, read, clean up on exit, sweep what has expired | executor, adapters |
| Secret backends | `adapters/secret_backends.py`, `kernel/secret_store.py` | one encrypted file; the OS keychain; Vault | probe, set, inspect, read, delete | executor, secret commands |
| Secret controls | `kernel/secrets.py` | none | references, leases, sanitising of outputs | planning, traces |
| Adapters | `adapters/http_json.py`, `adapters/mock.py` | none | `execute` | the remote system |
| Traces | `kernel/tracing.py` | one JSON file per trace | save, load, summarise | executor |
| Resources | `kernel/loaders.py`, `kernel/registry.py`, `kernel/resource_registry.py` | resource files on disk; documents by key in memory | load, get, list, merge of layers | every command |
| MCP resources | `kernel/mcp.py` | server and policy documents in a directory | add, disable, test, evaluate | the runtime probe |
| MCP runtime probe, proxy | `kernel/mcp_runtime.py`, `kernel/mcp_proxy.py` | a child process, a proxy thread, its records | observe, proxy, snapshot | the MCP server's process |
| Health, packs, upgrades | `kernel/health.py`, `packs.py`, `upgrade.py`, `versioning.py` | none: manifests and activation documents on disk | `build_pack_status`, `build_validation_report`, `build_doctor_report`, `build_upgrade_plan` | the registry |
| Discovery | `kernel/discovery.py`, `command_api.py`, `job_api.py` | none | static descriptions | |
| Command line | `surfaces/` | none | parsing, dispatch, rendering | all |

What makes each correct, and what is hard about it:

* **Connection policy.** Two authorities, profile and gateway, each of which may refuse or
  ask for an approval. Neither may relax the other, for any combination of documents, and
  an edit that adds a rule or a policy has only the effect it can be meant to have. The
  order of rules, the fallbacks (rule, override, default) and the choice of the policy when
  none is named are easy to get wrong in a combination no test has.
* **Approvals and execution.** What is contacted is what was approved, though profile,
  policy, receipt and key are four files that are read at four moments and `exec run` may
  read all of them twice. Expiry is truncated to seconds. A receipt file is truncated before
  it is written. Every reported contact has a trace; a run that starts ends.
* **Materialization.** Runs sweep each other's directories while they are being written,
  used and removed; all of it ignores errors.
* **Secret file.** Load, change and store of a whole file, with no lock, under a passphrase
  that each call brings with it.
* **Traces.** The same output is sanitized by two functions with two lists of keys, and again
  for each copy that is printed, stored or shown: a payload may be nested in any way. `trace
  list` reads file by file while runs cut off and fill theirs.
* **Layers.** Documents of one key come in any order from several layers; a leaf of the
  result must be decided by the layers and not by the order. A document that says nothing on
  compatibility looks like one that says `experimental`.
* **Packs.** Activations are checked in every namespace and under the pack they target, and applied
  in one namespace under their own name; versions of different lengths are compared; a plan
  is about the target and `validate` about what is installed.
* **MCP resources.** Several files may make up one server or policy, and several policies may
  target one server. `mcp add` writes two files, `mcp disable` rewrites one, `mcp list` and
  `mcp test` read them all one after the other; none of them takes a lock.
* **MCP runtime.** A child process that may ignore signals, a proxy with one thread per
  connection, time-outs, lists read by one thread while others write them, and an allowlist
  that two functions compare in two ways.

## 2. Modules

| Module | Models | Extends |
|---|---|---|
| `ConnectionPolicy` | documents, gateway verdict, profile verdict, their combination, as constant-level operators | |
| `ConnectionExplain` | `connection explain` against an editor of the resource files | `ConnectionPolicy` |
| `ApprovalReceipts` | binding, fields, signature, expiry, validity of a receipt | `ConnectionPolicy` |
| `GovernedExecution` | `exec run` and `exec plan`, `approval issue`, edits, the clock, crashes | `ApprovalReceipts` |
| `ApprovalGate` | what governed execution promises, with no files, keys or processes | |
| `Materialization` | lease directories at the grain of one file operation | |
| `LeaseDirectories` | what runs promise each other about their lease directories, with no files | |
| `SecretFile` | the encrypted-file backend at the grain of one file operation | |
| `TraceRecords` | allowlist and sanitizers, saving a trace at the grain of one file operation, `trace list`, `get`, `explain` | |
| `ResourceLayers` | the merge of layers, compatibility and provenance, as constant-level operators | |
| `PackUpgrade` | versions, ranges, dispositions of an upgrade, as constant-level operators | |
| `PackHealth` | `pack status`, `validate`, `doctor`, `upgrade plan`, `resource explain` against an editor | `ResourceLayers`, `PackUpgrade` |
| `McpRegistry` | what a directory of MCP resources means: merge, attached policy, report, as constant-level operators | |
| `McpCommands` | `mcp add`, `disable`, `list` and `test` at the grain of one file operation | `McpRegistry` |
| `McpProbe` | `mcp test --observed`: the child, the proxy and its threads, the probe | |
| `MC...` | instances for TLC: documents, requests, symmetry | the module named |
| `...Proofs` | theorems, in eight modules (section 4) | the module named |

### How state and actions correspond to the code

**ConnectionPolicy.** A `Profile`, a `Policy` and a `Rule` are the documents after parsing:
fields that the code folds into sets are sets, blank fields are `Unset`. The substring test
of `operationContains` is given by the set of operations that contain the text. A
malformed document and a dangling reference end in the same error envelope, so only the
second is modelled. `EvaluateConnectionProfile` keeps the order of
`evaluate_connection_profile`: the reference to the secret backend is resolved before
anything else, a refusal of the profile returns before a policy is looked for, and only
then is the gateway asked. Reason texts and warnings are left out.

**ConnectionExplain.** `profiles` and `registry` are the files; `PutProfile`, `AddPolicy`,
`RemovePolicy`, `AppendRule` and `ToggleBackend` are the editor; `Explain` is the command,
one step because it only reads (the reads at several moments are in `GovernedExecution`).
An edit clears `answer`, so that `answer` is always about the files as they are.

**ApprovalReceipts.** A digest is what it digests and an HMAC is the pair of key and signed
fields. The code also binds the text of the gateway's reason, so that a receipt is refused
when only that text has changed; and it refuses an empty issuer. Both are left out: the
model accepts no less than the code and its theorems are about what is accepted. `TtlMinutes`
is what `--ttl-minutes` may say, also nothing or less than nothing: the floor of one minute is in
`Expiry`.

**GovernedExecution.** `pc` follows `build_exec_run_payload` and `run_governed_execution`:
`load` (profile and policy, in either order, each at a moment of its own), `plan` (the
receipt is read, the plan is built), `params` (parameters and adapter), then the sweep,
`secrets`, `prepare`, `lease`, `execute`, `answer`, `trace`. `phase` is `"report"` once
`exec run` has turned to `exec plan`, which resolves everything again and whose status is
reported. The environment replaces documents, key and receipt between any two steps.
Taken as one moment: the validation of the receipt and the issue of the lease in
`build_connection_execution_plan`, and the two reads of `approval issue`, which is always
asked to save its receipt (`--output`). The trace directory is set, as it is by default
(`surfaces/cli.py:48-53`). A lease counts from the whole second in which it is issued, as a
receipt does (`LeaseEnd`). A run contacts the remote system at most once per call of its
adapter; what the adapter does otherwise is a status.

**Materialization.** One secret per lease, one lease directory per run. Each file operation
of preparing, reading, cleaning up and sweeping is an action; `rmtree` is two (files, then
directory) and is assumed to succeed in removing what it finds, as nothing reports
when it does not. The moment a lease is issued at has no fraction of a second while the clock of a
sweep has, so a lease may end up to a second early, but never when it is issued.

**LeaseDirectories.** A bundle is there not at all, in part or complete. Its run makes it,
uses it once it is complete and takes it away if it is to. A sweep takes away a bundle that
was condemned, at a moment when it was not complete or its lease had ended; the removal may
come long after. `Materialization` implements it with a sweep of many file operations (a
bundle is complete while `lease.json` and all secrets are there, and condemned while a sweep
is about to remove its files), `GovernedExecution` with a sweep of one step (nothing is ever
condemned). That is what makes the one step of the second module a fair picture of the many
of the first: of what either may do to the bundle of another run, both keep the same promises.
`NoBundleLeftBehind` and `ExitLeavesNothing` say of the ends of runs what the abstract `Leave` says
of this step; the runs check the refinement, and all of them are proved (section 4).

**SecretFile.** `path.exists`, the read with its decryption, the change in memory, `unlink`,
the temporary file, its content, `replace` and `chmod` are one action each. What is read
under another passphrase does not decrypt to a JSON object. `chmod` fails only when
the file is gone.

**McpRegistry, McpCommands.** Files are numbered in the order of their paths, names in
theirs: that order decides which document is merged over which and which policy comes
first. All files come from the command line, so they are of one layer (`local`) and the path
alone decides. A field of a merged document is that of the last file that sets it, which
is what the repeated merge of `_merged_document` leaves. A document keeps the fields of
`spec` that decide: `command` stands for transport, command or URL and tools, `strict`
for a sandbox profile, egress mode, sanitising and secret mode that give no warning.
`write_text` is two steps, since it cuts the file off before it writes; a write into a file
that another call has written meanwhile may leave the end of a longer text. A killed call and
one that raises an `OSError` are the same step. `mcp add` may add a server disabled (`--disabled`).
There is one namespace.

**TraceRecords.** A payload is the set of its leaves, each the sequence of keys that leads to it
and a value; `PartsOf` gives for each key the sensitive words in it, so the substring test of
`is_sensitive_key` is a test on sets. The two lists of words are those of the code. A run makes its
record (`Finish` or `Fail`), stamps it, opens its file, which empties it, fills it (`Write`) and
prints the result (`ReportStored`). It prints the record it has made and not the stamped one, as
`run_governed_execution` does. A run that is killed between the last two steps is `"unprinted"`:
its trace is there, and nobody was told. Of the
second event only the output or the reason is kept: the other fields are fixed names and
numbers. `Stop` is a kill or an `OSError`. `PutStray` and `Remove` are anybody else who uses
the directory. `listing` is a `trace list` that reads the directory file by file; `owed` is a
history variable: the traces that were complete when it began and have not been removed since.
A stray file bears only ids of its own: copies of a run's trace under another name, which a list
would show twice, are left out (`TraceAssumption`).

**ResourceLayers.** A `spec` is a function from the paths of its leaves to values, and
`DeepMerge` is `_deep_merge_mapping` on it: what the overlay says of a path, or of a beginning
or an end of it, replaces what was there. The sort of the code keeps the order of what is
equal, and so does `Sorted`. Layers other than `local` are reached through the functions of the
kernel and the tests; the command line loads all files as `local`.

**PackUpgrade, PackHealth.** A version of the core is the sequence of its parts. The version of a
pack is only ever compared as text, so `PackVersions` are numbers in the order of the texts; `pack`
and `state` of an activation are texts, so that no other leaf lies within them;
letter case and spaces around them are left out, and a text of spaces only is `" "`. A comparison
that meets a part that is no number raises, and `Raised` is what the command then does. The editor puts and
removes manifests and activations and installs another core; a command loads the manifests
(`LoadManifests`) and at a later moment the activations (`Report`, `Plan`), since the code reads
them so. `calm` says that the files have not changed since the command began and `forecast` is
the last plan that was made for the manifests as they are; both are history variables. Each
document of `activations` is one load of a file, so that a file may be loaded twice.

**McpProbe.** `pc` follows `observe_mcp_runtime` from the plan to the end of the `finally`
clause; `BuildPlanRaises` is a proxy that cannot be started or a sandbox profile that cannot be
written. A thread of the proxy is a record in `conn`: the destination it will be asked for,
and where it is; `"locked"` is between the two appends of `record_destination`, where it
holds the proxy's lock. The probe reads the two lists in two steps and without the lock, as
`snapshot` does. A host is a name or an address, and `Below` is the suffix test on
domains. `lsof` shows any part of what the child has connected to; of a line the code
takes the last word, which for TCP is the state ("(ESTABLISHED)"). The sandbox profile,
the temporary directory, the file paths that are observed and the bytes that are relayed are
left out. `refused` is a history variable: what had been refused when the snapshot began.

## 3. Runs

| Run | Instance | Checks | Size |
|---|---|---|---|
| `connection_explain` | 6 profiles under 2 names, 4 policies, 2 rules of which at most 2 per policy, 1 backend, 6 requests | types; the decision is the strictest voice; a reveal needs an approval; appended rules are shadowed; added policies never loosen | 48,600 states |
| `approvals` | 1 run, 2 profiles, 2 policies, 2 requests, 2 keys, 2 edits, time to 3, a second and a minute of 2 ticks, approvals for 0 or 1 minute | types; a contact is approved; `ApprovalGate` is implemented; every run ends | 289,612 |
| `shared_execution` | 2 runs (symmetric), 2 profiles, 1 policy, 1 key, 1 edit, time to 2, a second and a minute of 2 ticks | a reported contact is traced; `LeaseDirectories` is implemented | 366,537 |
| `materialization` | 2 runs (symmetric), leases of 1 second, which is 2 ticks, time to 3 | types; a sweep removes what is due and spares what is complete; `LeaseDirectories` is implemented | 430,376 |
| `secret_file` | 3 calls (symmetric), 2 secrets, 1 value, 2 passphrases | types; the file changes only from what was read; a call alone is atomic | 1,533,032 |
| `mcp_probe` | 5 policies and none, 2 destinations, 2 connections, direct connections by UDP and TCP | types; nothing is left behind; what is refused is reported, what is admitted is not; the probe ends | 929,292 |
| `mcp_commands` | 3 calls (symmetric) out of 7 requests, 4 directories, 6 paths, 2 names | types; disabled stays disabled; an added policy governs; a report was true; files on hand are kept | 1,562,085 |
| `pack_health` | 4 manifests of 2 packs (at most 2 installed), 7 activations (at most 3 loaded), 2 namespaces, 2 core versions, 5 requests | types; the state and each leaf are the last word of the layers; compatibility and provenance; healthy is in effect; ranges compare numbers; a plan foretells what validate says | 965,600 |
| `trace_records` | 2 runs, 2 plans, 1 stray file, 2 edits, time to 2 | types; nothing secret is kept; what is returned is what is kept; a list misses nothing | 1,916,803 |
| `untraced_contact`, `lost_update`, `mcp_proxied` | as above; `lost_update` with 1 passphrase | one expectation each that the code does not meet (section 5) | |

Why these bounds are enough for what is asked. *connection_explain*: two policies make the
reference ambiguous, two rules make an order, the two profiles under one name differ in
every check that leads to a different branch; the proofs cover the rest. *approvals*: two
edits are the fewest that issue a receipt and then change what it is about; time 3 passes
the end of the shortest approval; a minute of two ticks and a second of two make the
truncation visible, and an approval for 0 minutes needs the floor of one. *shared_execution*, *materialization*: a second run is needed to be in
the way, and a lease must be able to end while its run is busy; a lease that is issued within a second
ends early by the fraction. *secret_file*: the third
call begins while two others are at odds. *mcp_probe*: the policies differ in mode, in
letter case, in ports and in local entries, so that the two comparisons of the allowlist
disagree where they can; two threads are needed for one to hold the lock that the other
wants while the lists are read. *mcp_commands*: the third call is the one that reads or disables
while two others write; the directories hold a server in two files, a policy of another
name that targets it, a policy without its server, and a policy that makes no profile.
*pack_health*: three activations make a lowest, a middle and a highest; they differ in layer, in
origin within a layer, in namespace and in target; a leaf of one is a mapping of another; 0.9 and
0.10 are where numbers and texts compare differently. *trace_records*: payloads nest a
sensitive key under a harmless one and in an array; two runs and a stray file are enough for a
list to meet a file that is cut off before, between and after whole ones; one plan has an allowlist
and a kept trace, the other neither.
`MaxTime`, `MaxEdits` and `MaxRules` bound
only the environment. Symmetry is used in runs without liveness only. Deadlock is not
checked where all calls may be over.

**Fairness.** `EveryRunEnds` and `ProbeEnds` need it. `EveryRunEnds` assumes weak fairness of
each run's own steps. A run that has started is a process nothing blocks (no lock is ever taken) and each wait of an
adapter has a time limit. Nothing is assumed of the environment or of runs that
have not started. `ProbeEnds` assumes weak fairness of the probe's own steps: every
wait for the child and every call of `lsof` has a time limit, and `shutdown()` waits only for
a loop that looks twice a second. Nothing is assumed of the child or of the threads.

## 4. Proofs

For all values of the constants that satisfy the named `ASSUME`s (marker values are not
real ones; documents are documents; a second is not longer than a minute). The proofs are
of `Spec`, and so hold of `FairSpec`.

* `ConnectionExplainProofs`: `TypeOK`, `DecisionIsStrictest`, `RevealNeedsApproval`,
  `AppendedRuleIsShadowed`, `AddedPolicyNeverLoosens`. The invariant says in addition
  that an answer is that of `EvaluateConnectionProfile` over the files as they are; the
  properties are then facts about the operators: which rule decides, what a verdict can be,
  that a policy that is found is the only one. `GovernedExecutionProofs` proves those of these
  lemmas again that it needs.
* `GovernedExecutionProofs`: `TypeOK`, `ContactApproved`, `ReportedContactIsTraced`,
  `NoBundleLeftBehind` and the refinements of `ApprovalGate` and of `LeaseDirectories`. None
  of them is inductive. `IInv` adds where every signature that verifies comes from (a receipt on disk, being saved or
  loaded may have edited fields, but its signature is one that `approval issue`
  made over fields it computed), that a plan was authorised at the moment it was
  made, that a run past the point `params` has a plan, and at which points a bundle can be
  there. The first refinement maps each step
  to a step of the gate or a stutter: an issued receipt is a grant (that its expiry is in
  the future needs the lemma that truncation takes less than a minute), a built plan is
  an admission, the adapter's call is the contact. In the second, an adapter that returns
  or raises leaves a complete bundle as the plan says, and every other end of a run comes
  at a point where `IInv` says that there is none.
* `SecretFileProofs`: `TypeOK`, `ChangedFromWhatWasRead`, `AtomicAlone`. `IInv` adds where
  the payload of a call comes from at each point of its code, that a call is silent until
  it ends, and that as long as a call is alone, the file is what it was when the call
  began, until its own write.
* `McpProbeProofs`: `TypeOK`, `NothingLeftBehind`, `RefusedIsReported` and
  `AdmittedIsNoViolation`. `IInv` adds where a refused destination is at each point of the
  probe (in the second list, in what was read, in the report), that the second list holds
  nothing that the allowlist admits, and that the child is gone before the proxy is
  closed. A lemma relates the two comparisons: an entry in lower case by which the proxy
  admits a destination is one by which the probe finds it covered.
* `MaterializationProofs`: `TypeOK`, `SweepRemovesWhatIsDue`, `SweepSparesCompleteBundles`,
  `ExitLeavesNothing`, for any number of runs that sweep each other. `IInv` adds that once its
  owner has written `lease.json`, a lease directory only loses files: what a sweep knew of it
  when it listed it (`due`, `spared`) therefore stays true while it judges one after the other.
  The refinement of `LeaseDirectories` needs `MInv` besides, which ties the moment of a listing,
  the content of a directory and the exit of its run together: what a sweep comes to
  condemn had no complete `lease.json`, or its lease had ended when the sweep listed it and so has
  ended now. A removal is then one that the abstract sweep may make, however late it comes.
* `TraceRecordsProofs`: `SanitizingOnceIsEnough`, on the operators, says that sanitizing what is
  sanitized changes nothing. It rests on two facts: the words of the trace list are among
  those of the secrets list, and a path that is cut off after its first sensitive key has no
  other. `NothingSecretIsKept` and `WhatIsReturnedIsKept` follow with an invariant on what
  each run holds at each point; `TypeOK` has an invariant of its own. For `ListMissesNothing`,
  `ListInv` says where each trace is that was complete when the list began: in a file still
  to be read, or among the records that were read, which are finitely many and one
  for each name; the answer lists these in order.
* `PackHealthProofs`: all that the run checks. The merge of the layers is a recursive function on a
  sorted sequence; what it leaves at a leaf is shown from the place of the last document
  that says anything there, on from which nothing changes it (`IntervalInduction`, itself
  proved from the least counterexample). `AnswerInv` says that an answer
  given while the files were at rest is that of the files, whatever was loaded when; the
  properties are then facts about the operators. `RangesCompareNumbers` is about versions of at most
  three parts below 100 (`ShortVersions`), since its reference reads a version as one
  number; the versions of the run are such versions.
* `McpCommandsProofs`: `TypeOK`, `DisabledStays`, `AddedPolicyGoverns`, `ExistingFilesKept` and
  `ReportWasTrue`, for any number of calls and any directory. `IInv` says, of the directory
  there was at first, what each file may have become and that what a call has read is one of those, so that a path
  keeps the kind and the name of its document; that what a calm add has found missing is
  still missing until it writes; and that a disable has read all there is. The disable has
  then written the last of all files of its server, which has the last word. Assumed of the
  paths: any set of them has a last one, which finitely many files always have. For
  `ReportWasTrue`, `TInv` adds what a call will have read if nothing more happens (`Expected`):
  with one other call writing, that is the directory as it is, or as it was at a moment
  since, and then the writer has nothing more to write to a file still to be read. An add
  fits into this because it writes the server's file first while
  `<name>.policy.json` is read first, its path being the smaller (`CommandsAssumption`).

Only model-checked: `EveryRunEnds` and `ProbeEnds`, which are liveness under fairness.

## 5. Where the code differs from what is said of it

1. `untraced_contact`: `kernel/execution.py:147` says of every plan that "governed execution
   must record a trace for this request". An adapter that raises after the remote system
   has acted ends the run without one: `kernel/executor.py:170` has a `finally`, which
   cleans up, and no `except`.
2. `lost_update`: "secret value stored in encrypted local file backend"
   (`adapters/secret_backends.py:291`) is answered to each of two overlapping sets of
   different secrets under one passphrase, of which one is then not in the file. `SetsAreKept`
   judges only runs in which every call is a set: no other operation is needed for this.
3. `mcp_proxied`: `kernel/mcp_runtime.py:493` says of a violation that the "observed outbound
   destination ... is not covered by the egress allowlist". The destination is the last word
   of a line of `lsof` (`kernel/mcp_runtime.py:442`), which for TCP is the state: a server that
   only uses the proxy the probe has given it, for covered destinations, is reported with
   "(ESTABLISHED)" while its connection to the proxy is open.

Facts that a reader of the models should know, and that contradict no text of the repository:

* A command that does not start returns before the clause that closes the proxy
  (`kernel/mcp_runtime.py:90`), and a sandbox profile that cannot be written raises before it
  (`kernel/mcp_runtime.py:247`).
* Two overlapping `mcp add` of one name both answer OK (`kernel/mcp.py:502`), after which a server
  may be enabled again that was disabled. One that is killed between its two files leaves a server
  without a policy, and a second add is refused; `AddedPolicyGoverns` is about adds that answered OK.
* `exec run` that is refused at its first planning turns to `exec plan`
  (`surfaces/cli_dispatch.py:1305`), which loads everything again: if a receipt or a policy has
  changed in between, it answers OK with nothing executed and nothing traced.
* A set that another call overtakes between `replace` and `chmod` may report an error although it
  took effect (`adapters/secret_backends.py:787`). `ChangedFromWhatWasRead` is about the file and not
  about what is reported; `AtomicAlone` is about both, for a call that is alone.
* A sweep removes each directory without a complete `lease.json`, also one that another run is
  preparing (`kernel/materialization.py:134`).
* The switch of a plan that asks for sanitized output changes nothing: its list of words is
  contained in the one that is always applied. The reason of a failed event is sanitized by
  its keys alone, so `NothingSecretIsKept` speaks of secret-looking values in outputs only. A
  trace file that is not UTF-8 makes `trace list` fail, since only `TraceLoadError` is caught
  (`kernel/tracing.py:207`).
* An activation is applied by the name of its document in the namespace `default`, and checked in
  all namespaces by the pack it targets (`kernel/health.py:152-188`): a report may be healthy with an
  activation in another namespace that has no effect, which `HealthyIsInEffect` does not exclude. A blank state means
  disabled. An unknown default state of a manifest is reported only if an activation is
  about it. `dependsOn` is not looked at.
* The target of a plan is compared as text (`kernel/upgrade.py:117`): from 0.1 to 0.1.0, packs with
  migrations are for review. A part of a version that is no number is a `ValueError` that
  nothing in the report catches. `validate` never finds a migration to review, since it plans from the
  installed version to itself.
* A document that says `experimental` is taken for one that is silent
  (`kernel/registry.py:78-83`).

## 6. Not modelled

Reason texts, warnings, layouts, argument parsing; HTTP details of the adapters; the clients
of Vault and of the OS keychain (external services: for execution, resolving secrets succeeds
or raises); discovery and the data classes of commands and jobs (static); the parsing of
malformed documents and manifests, where one error ends the load; capabilities that documents
list; `dependsOn` of packs, which is read and printed only. File permissions are kept as steps that
can fail, not as state.

## 7. What is left

1. An abstract specification of the secret file (a map that one call changes at a time), which
   `SecretFile` implements as long as calls do not overlap; `AtomicAlone` says this of each call.
2. The clients of Vault and of the keychain, with the service as an external module.
