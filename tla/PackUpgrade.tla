----------------------------- MODULE PackUpgrade -----------------------------
(***************************************************************************)
(* Pack manifests against a version of the core (kernel/packs.py and       *)
(* kernel/upgrade.py).                                                     *)
(*                                                                         *)
(* A version is the sequence of its parts; NotANumber is a part that int() *)
(* refuses, as in 0.3.x or 1.0rc1.  A requirement is a sequence of         *)
(* comparisons.                                                            *)
(***************************************************************************)
EXTENDS Naturals, Sequences, FiniteSets

CONSTANTS
    PackNames,
    PackVersions,       \* numbers in the order of the texts
    Manifests,          \* the manifest files that may be installed
    Capabilities,       \* list_core_capabilities and those of the registry
    NotANumber

Part == Nat \cup {NotANumber}

Version == Seq(Part)

Operators == {">=", "<=", ">", "<", "=="}

Comparison == [op : Operators \cup {"other"}, version : Version]

DefaultStates == {"enabled", "disabled", "maybe"}

Manifest == [name : PackNames, version : PackVersions, source : Nat,
             default : DefaultStates, requires : SUBSET STRING,
             core : Seq(Comparison), migrations : BOOLEAN]

ASSUME ManifestsAssumption ==
    /\ PackVersions \subseteq Nat
    /\ Manifests \subseteq Manifest
    /\ \A m, n \in Manifests : m.source = n.source => m = n
    /\ Capabilities \subseteq STRING
    /\ NotANumber \notin Nat

-----------------------------------------------------------------------------
(* _version_tuple and _compare_versions.                                   *)

Numeric(v) == \A i \in DOMAIN v : v[i] # NotANumber

\* The shorter version goes on with zeros.
PartAt(v, i) == IF i \in DOMAIN v THEN v[i] ELSE 0

\* Mutant: the shorter version is the smaller one.
UnpaddedEarlier(v, w) ==
    \/ \E i \in DOMAIN v \cap DOMAIN w :
          v[i] < w[i] /\ \A j \in 1 .. i - 1 : v[j] = w[j]
    \/ Len(v) < Len(w) /\ \A j \in DOMAIN v : v[j] = w[j]

Earlier(v, w) ==
    \E i \in DOMAIN v \cup DOMAIN w :
        /\ PartAt(v, i) < PartAt(w, i)
        /\ \A j \in 1 .. i - 1 : PartAt(v, j) = PartAt(w, j)

-----------------------------------------------------------------------------
(* _satisfies_range: the comparisons are looked at in turn, up to the      *)
(* first that fails or raises.                                             *)

Raises(v, c) == c.op \in Operators /\ ~(Numeric(v) /\ Numeric(c.version))

Holds(v, c) ==
    CASE c.op = ">=" -> ~Earlier(v, c.version)
      [] c.op = "<=" -> ~Earlier(c.version, v)
      [] c.op = ">"  -> Earlier(c.version, v)
      [] c.op = "<"  -> Earlier(v, c.version)
      [] c.op = "==" -> ~Earlier(v, c.version) /\ ~Earlier(c.version, v)
      [] OTHER       -> FALSE

Stops(v, c) == Raises(v, c) \/ ~Holds(v, c)

SatisfiesRange(v, core) == \A i \in DOMAIN core : ~Stops(v, core[i])

RangeRaises(v, core) ==
    \E i \in DOMAIN core : Raises(v, core[i]) /\ \A j \in 1 .. i - 1 : ~Stops(v, core[j])

-----------------------------------------------------------------------------
(* build_upgrade_plan from one version to another.                         *)

\* Mutant: the range is only looked at for the version that is installed.
CurrentBlocked(m, current, target) ==
    ~(m.requires \subseteq Capabilities) \/ ~SatisfiesRange(current, m.core)

Blocked(m, current, target) ==
    ~(m.requires \subseteq Capabilities) \/ ~SatisfiesRange(target, m.core)

Disposition(m, current, target) ==
    IF Blocked(m, current, target) THEN "blocked"
    ELSE IF target # current /\ m.migrations THEN "manual" ELSE "auto"

PlanRaises(manifests, target) == \E m \in manifests : RangeRaises(target, m.core)

WithDisposition(manifests, current, target, disposition) ==
    {m \in manifests : Disposition(m, current, target) = disposition}

=============================================================================
