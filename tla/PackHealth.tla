----------------------------- MODULE PackHealth -----------------------------
(***************************************************************************)
(* `ccp pack status`, `validate`, `doctor`, `upgrade plan` and `resource   *)
(* explain` over pack manifests and PackActivation documents that somebody *)
(* edits (kernel/health.py, surfaces/cli_dispatch.py).  A report loads the *)
(* manifests first and the activations afterwards.                         *)
(*                                                                         *)
(* An issue is its level, its code and what it is about.  Names and states *)
(* are without letter case and spaces around them; " " is the text that    *)
(* has nothing else in it.  Where the spec of an activation names its pack *)
(* or its state, it has a text there and not a mapping.                    *)
(***************************************************************************)
EXTENDS ResourceLayers, PackUpgrade

CONSTANTS
    Activations,        \* the PackActivation files that may be put in place
    Default,            \* the namespace "default"
    Requests,           \* what a caller may ask
    CoreVersions,       \* the versions of the core that may be installed
    MaxManifests, MaxActivations,   \* bounds on what is installed
    None

Reports == {"status", "validate", "doctor"}

Request ==
    [op : Reports] \cup [op : {"plan"}, target : Version \cup {Unset}] \cup
    [op : {"explain"}, name : Names, namespace : Namespaces]

ASSUME HealthAssumption ==
    /\ Activations \subseteq Document
    /\ \A c, d \in Activations : c.provenance.source = d.provenance.source => c = d
    /\ PackNames \subseteq Names
    /\ Default \in Namespaces
    /\ \A p \in SpecPaths, q \in {<<"pack">>, <<"state">>} : Within(p, q) => p = q
    /\ Requests \subseteq Request
    /\ CoreVersions \subseteq Version
    /\ \A v \in CoreVersions : Numeric(v)
    /\ MaxManifests \in Nat /\ MaxActivations \in Nat
    /\ None \notin Requests /\ \A ms \in SUBSET Manifests : ms # None

VARIABLES
    manifests,      \* the pack.json files
    activations,    \* the activation documents, in the order they are loaded in
    core,           \* the installed version of the core
    request,        \* what is being asked, or None
    loaded,         \* the manifests the command has read, or None
    calm,           \* whether the files are as they were when the command began
    answer,         \* what was printed, about the files as they are if calm; or None
    forecast        \* the last upgrade plan for these manifests, or None

files == <<manifests, activations, core>>
vars == <<files, request, loaded, calm, answer, forecast>>

-----------------------------------------------------------------------------
(* build_pack_status.                                                      *)

\* Mutant: a blank state is kept.
AsWritten(state) == state

Normalized(state) == IF state \in {"", " "} THEN "disabled" ELSE state

At(d, path, other) == IF path \in DOMAIN d.spec THEN d.spec[path] ELSE other

Target(d) == LET pack == At(d, <<"pack">>, d.name) IN IF pack = "" THEN d.name ELSE pack

State(d, default) == Normalized(At(d, <<"state">>, default))

\* get_resource: by name, in the default namespace.
ActivationOf(docs, m) ==
    IF Found(docs, m.name, Default) THEN {MergedDocument(docs, m.name, Default)} ELSE {}

PackStatus(docs, m) ==
    [pack  |-> m,
     state |-> IF ActivationOf(docs, m) = {} THEN Normalized(m.default)
               ELSE State(CHOOSE d \in ActivationOf(docs, m) : TRUE, m.default)]

Issue(level, code, about) == [level |-> level, code |-> code, about |-> about]

ManifestIssues(ms) ==
    {Issue("error", "duplicate-pack-manifest", m) : m \in
        {m \in ms : \E n \in ms : /\ n.name = m.name
                                  /\ \/ n.version < m.version
                                     \/ n.version = m.version /\ n.source < m.source}}

\* Mutant: the name of the document is not compared with its target.
UnnamedIssues(ms, docs) ==
    LET listed == {MergedDocument(docs, k[1], k[2]) : k \in Keys(docs)}
    IN  {Issue("error", "invalid-pack-activation", d) : d \in {d \in listed : Target(d) = " "}}
        \cup
        {Issue("error", "unknown-pack-activation", d) : d \in
            {d \in listed : Target(d) # " " /\ \A m \in ms : m.name # Target(d)}}

\* list_resources: of every namespace.
ActivationIssues(ms, docs) ==
    LET listed == {MergedDocument(docs, k[1], k[2]) : k \in Keys(docs)}
    IN  {Issue("error", "invalid-pack-activation", d) : d \in {d \in listed : Target(d) = " "}}
        \cup
        {Issue("warning", "pack-activation-name-mismatch", d) : d \in
            {d \in listed : Target(d) \notin {" ", d.name}}}
        \cup
        {Issue("error", "unknown-pack-activation", d) : d \in
            {d \in listed : Target(d) # " " /\ \A m \in ms : m.name # Target(d)}}

\* The state of a manifest that no activation is about is not looked at.
StateIssues(ms, docs) ==
    {Issue("error", "invalid-pack-activation-state", m) : m \in
        {m \in ms : /\ ActivationOf(docs, m) # {}
                    /\ PackStatus(docs, m).state \notin {"enabled", "disabled"}}}

StatusIssues(ms, docs) ==
    ManifestIssues(ms) \cup ActivationIssues(ms, docs) \cup StateIssues(ms, docs)

\* build_validation_report: the plan from this version to itself.
UpgradeIssues(ms, version) ==
    {Issue("error", "pack-core-incompatible", m) :
        m \in WithDisposition(ms, version, version, "blocked")}
    \cup
    {Issue("warning", "pack-migration-review", m) :
        m \in WithDisposition(ms, version, version, "manual")}

-----------------------------------------------------------------------------
(* The envelopes.                                                          *)

Raised == [kind |-> "raised"]

ReportOn(op, ms, docs, version) ==
    LET issues == StatusIssues(ms, docs) \cup
                      (IF op = "status" THEN {} ELSE UpgradeIssues(ms, version))
    IN  IF op # "status" /\ PlanRaises(ms, version) THEN Raised
        ELSE [kind    |-> op,
              status  |-> {PackStatus(docs, m) : m \in ms},
              issues  |-> issues,
              ok      |-> \A i \in issues : i.level # "error",
              healthy |-> op = "doctor" /\ issues = {}]

EffectiveTarget(target, version) == IF target = Unset THEN version ELSE target

PlanFor(ms, version, target) ==
    IF PlanRaises(ms, target) THEN Raised
    ELSE [kind    |-> "plan", target |-> target,
          blocked |-> WithDisposition(ms, version, target, "blocked"),
          manual  |-> WithDisposition(ms, version, target, "manual"),
          auto    |-> WithDisposition(ms, version, target, "auto")]

ExplainResource(docs, name, namespace) ==
    IF ~Found(docs, name, namespace) THEN [kind |-> "not found"]
    ELSE [kind |-> "explain", document |-> MergedDocument(docs, name, namespace)]

Kind == IF answer = None THEN "none" ELSE answer.kind

-----------------------------------------------------------------------------

Init ==
    /\ manifests = {}
    /\ activations = <<>>
    /\ core \in CoreVersions
    /\ request = None
    /\ loaded = None
    /\ calm = TRUE
    /\ answer = None
    /\ forecast = None

-----------------------------------------------------------------------------
(* An editor of the files, and the installation of another core.           *)

\* What was printed is now of the past; a command that runs may be misled.
Edited ==
    /\ answer' = None
    /\ calm' = (request = None)
    /\ UNCHANGED <<request, loaded>>

PutManifest ==
    \E m \in Manifests \ manifests :
        /\ Cardinality(manifests) < MaxManifests
        /\ manifests' = manifests \cup {m}
        /\ forecast' = None
        /\ UNCHANGED <<activations, core>>
        /\ Edited

RemoveManifest ==
    \E m \in manifests :
        /\ manifests' = manifests \ {m}
        /\ forecast' = None
        /\ UNCHANGED <<activations, core>>
        /\ Edited

\* The file is loaded after the others; it may be one that is already loaded.
PutActivation ==
    \E d \in Activations :
        /\ Len(activations) < MaxActivations
        /\ activations' = Append(activations, d)
        /\ UNCHANGED <<manifests, core, forecast>>
        /\ Edited

RemoveActivation ==
    \E i \in DOMAIN activations :
        /\ activations' = Without(activations, activations[i])
        /\ UNCHANGED <<manifests, core, forecast>>
        /\ Edited

InstallCore ==
    \E v \in CoreVersions \ {core} :
        /\ core' = v
        /\ UNCHANGED <<manifests, activations, forecast>>
        /\ Edited

-----------------------------------------------------------------------------
(* The commands.                                                           *)

\* load_pack_manifests comes first.
LoadManifests ==
    \E r \in Requests :
        /\ request = None /\ r.op # "explain"
        /\ request' = r
        /\ loaded' = manifests
        /\ calm' = TRUE
        /\ answer' = None
        /\ UNCHANGED <<files, forecast>>

\* load_activation_inputs and the report.
Report ==
    /\ request # None /\ request.op \in Reports
    /\ answer' = ReportOn(request.op, loaded, activations, core)
    /\ request' = None
    /\ loaded' = None
    /\ UNCHANGED <<files, calm, forecast>>

Plan ==
    /\ request # None /\ request.op = "plan"
    /\ answer' = PlanFor(loaded, core, EffectiveTarget(request.target, core))
    /\ forecast' = IF calm /\ answer'.kind = "plan"
                    THEN [target |-> answer'.target, blocked |-> answer'.blocked] ELSE None
    /\ request' = None
    /\ loaded' = None
    /\ UNCHANGED <<files, calm>>

Explain ==
    \E r \in Requests :
        /\ request = None /\ r.op = "explain"
        /\ answer' = ExplainResource(activations, r.name, r.namespace)
        /\ calm' = TRUE
        /\ UNCHANGED <<files, request, loaded, forecast>>

Next ==
    \/ PutManifest
    \/ RemoveManifest
    \/ PutActivation
    \/ RemoveActivation
    \/ InstallCore
    \/ LoadManifests
    \/ Report
    \/ Plan
    \/ Explain

Spec == Init /\ [][Next]_vars

-----------------------------------------------------------------------------
(* Properties.                                                             *)

Statuses == (DefaultStates \cup Values) \ {"", " "}

TypeOK ==
    /\ manifests \subseteq Manifests
    /\ activations \in Seq(Activations)
    /\ core \in CoreVersions
    /\ request \in Requests \cup {None}
    /\ loaded \in (SUBSET Manifests) \cup {None}
    /\ (request = None) <=> (loaded = None)
    /\ calm \in BOOLEAN
    /\ Kind \in Reports \cup {"none", "raised", "plan", "explain", "not found"}
    /\ Kind \in Reports =>
        /\ \A s \in answer.status : s.pack \in Manifests /\ s.state \in Statuses
        /\ \A i \in answer.issues : i.level \in {"error", "warning"}

Documents(docs, name, namespace) == {docs[i] : i \in Variants(docs, name, namespace)}

\* The variants of a key that say something on a path, and the one that has the last word.
Saying(docs, name, namespace, path) ==
    {d \in Documents(docs, name, namespace) : \E p \in DOMAIN d.spec : Within(p, path)}

LastWord(docs, name, namespace, path) ==
    CHOOSE d \in Saying(docs, name, namespace, path) :
        \A e \in Saying(docs, name, namespace, path) : ~Precedes(d.provenance, e.provenance)

\* The state that a report gives a pack is that of the activation of its name, in the default
\* namespace, that has the last word on it, whatever the order the files were given in;
\* the manifest decides only if none of them says anything (get_resource in build_pack_status).
StateIsLastWord ==
    calm /\ Kind \in Reports =>
        \A s \in answer.status :
            LET saying == Saying(activations, s.pack.name, Default, <<"state">>)
                last == LastWord(activations, s.pack.name, Default, <<"state">>)
            IN  s.state = IF saying = {} THEN s.pack.default
                          ELSE Normalized(last.spec[<<"state">>])

\* When doctor finds nothing, what was asked for is in effect: the packs have different
\* names and fit the core, and each activation in the default namespace, which
\* means the pack of its name, is the reason why this pack is on or off.  Nothing of the
\* kind holds for the other namespaces, whose activations are checked and not applied.
HealthyIsInEffect ==
    calm /\ Kind = "doctor" => (answer.healthy =>
        /\ \A m, n \in manifests : m.name = n.name => m = n
        /\ \A m \in manifests :
            m.requires \subseteq Capabilities /\ SatisfiesRange(core, m.core)
        /\ \A i \in DOMAIN activations : activations[i].namespace = Default =>
            LET name == activations[i].name
                pack == MergedDocument(activations, name, Default)
            IN  \E s \in answer.status :
                    /\ s.pack.name = name
                    /\ Target(pack) = name
                    /\ s.state = State(pack, s.pack.default)
                    /\ s.state \in {"enabled", "disabled"})

\* Every leaf of an effective document is what the document with the last word on it says,
\* and no such word is lost: the merge of _deep_merge_mapping, taken layer by layer
\* and mapping by mapping, is decided by layer, origin and source alone.
LayersDecide ==
    Kind = "explain" =>
        LET doc == answer.document
            said == UNION {DOMAIN d.spec : d \in
                        Documents(activations, doc.name, doc.namespace)}
        IN  doc.spec =
                [p \in {q \in said :
                            q \in DOMAIN LastWord(activations, doc.name, doc.namespace, q).spec}
                    |-> LastWord(activations, doc.name, doc.namespace, p).spec[p]]

\* A document that says nothing on compatibility changes nothing of it, wherever it stands
\* among the layers (_merge_compatibility): the stability is that of the last one
\* that says anything.
CompatibilityIsLastWord ==
    Kind = "explain" =>
        LET doc == answer.document
            saying == {d \in Documents(activations, doc.name, doc.namespace) :
                            ~Silent(d.compatibility)}
        IN  doc.compatibility.stability =
                IF saying = {} THEN "experimental"
                ELSE (CHOOSE d \in saying : \A e \in saying :
                        ~Precedes(d.provenance, e.provenance)).compatibility.stability

\* The provenance of an effective document starts with the document that has the last word,
\* names every file the document is made of and no other, and goes from
\* the highest layer to the lowest (_ordered_provenance).
ProvenanceIsComplete ==
    Kind = "explain" =>
        LET doc == answer.document
            made == {d.provenance : d \in Documents(activations, doc.name, doc.namespace)}
        IN  /\ ToSet(doc.provenance) = made
            /\ \A p \in made : ~Precedes(doc.provenance[1], p)
            /\ \A i, j \in DOMAIN doc.provenance : i < j =>
                   LayerPriority(doc.provenance[i].layer) >= LayerPriority(doc.provenance[j].layer)

\* Versions of at most three parts below 100 as one number.
Number(v) == 10000 * PartAt(v, 1) + 100 * PartAt(v, 2) + PartAt(v, 3)

Compares(v, c) ==
    CASE c.op = ">=" -> Number(v) >= Number(c.version)
      [] c.op = "<=" -> Number(v) <= Number(c.version)
      [] c.op = ">"  -> Number(v) > Number(c.version)
      [] c.op = "<"  -> Number(v) < Number(c.version)
      [] c.op = "==" -> Number(v) = Number(c.version)
      [] OTHER       -> FALSE

\* A plan blocks exactly the packs that want a capability the core has not, or whose range
\* does not hold of the target read as a number, so that 0.1 and 0.1.0 are one
\* version and 0.10 comes after 0.9 (_compare_versions, _satisfies_range).
RangesCompareNumbers ==
    calm /\ Kind = "plan" =>
        answer.blocked =
            {m \in manifests : \/ ~(m.requires \subseteq Capabilities)
                               \/ \E i \in DOMAIN m.core : ~Compares(answer.target, m.core[i])}

\* What an upgrade plan says is blocked is what validate calls incompatible once that core
\* is installed, if the manifests are still the same (build_upgrade_plan is
\* used with a target by the one and without by the other).
PlanForetells ==
    /\ forecast # None
    /\ calm /\ Kind \in {"validate", "doctor"}
    /\ forecast.target = core
    => {i.about : i \in {i \in answer.issues : i.code = "pack-core-incompatible"}}
           = forecast.blocked

=============================================================================
