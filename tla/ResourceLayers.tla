--------------------------- MODULE ResourceLayers ---------------------------
(***************************************************************************)
(* What a list of resource documents means (kernel/registry.py): the       *)
(* documents of one key are merged from the lowest to the highest layer,   *)
(* and the result says where it came from.                                 *)
(*                                                                         *)
(* The spec of a document is given by its leaves: a function from paths    *)
(* (sequences of keys) to values.  No path of it is the beginning of       *)
(* another, since a key holds a value or a mapping.  Mappings with nothing *)
(* in them are left out, and so are metadata, which are merged in the same *)
(* way.  Sources are numbers in the order of the file names.               *)
(***************************************************************************)
EXTENDS Naturals, FiniteSets, SequencesExt

CONSTANTS
    Names, Namespaces, Sources,
    SpecPaths,      \* the paths that documents may set
    Values,         \* what they may set them to
    Versions,       \* what compatibility fields may say
    Unset

Layers == {"builtin", "common", "pack", "workspace", "user", "local", "other"}

LayerPriority(layer) ==
    CASE layer = "builtin" -> 10 [] layer = "common" -> 20 [] layer = "pack" -> 30
      [] layer = "workspace" -> 40 [] layer = "user" -> 50 [] layer = "local" -> 60
      [] OTHER -> 0

Provenance == [source : Sources, layer : Layers, native : BOOLEAN]

Stabilities == {"experimental", "beta", "stable"}

Compatibility == [introduced : Versions \cup {Unset}, deprecated : Versions \cup {Unset},
                  replaced : Versions \cup {Unset}, stability : Stabilities]

SpecLeaves == UNION {[paths -> Values] : paths \in SUBSET SpecPaths}

Document == [name : Names, namespace : Namespaces, spec : SpecLeaves,
             compatibility : Compatibility, provenance : Provenance]

ASSUME LayersAssumption ==
    /\ Sources \subseteq Nat
    /\ SpecPaths \subseteq Seq(STRING)
    /\ Unset \notin Versions \cup Values

-----------------------------------------------------------------------------
(* Precedence.                                                             *)

NativeScore(entry) == IF entry.native THEN 1 ELSE 0

Precedes(p, q) ==
    \/ LayerPriority(p.layer) < LayerPriority(q.layer)
    \/ /\ LayerPriority(p.layer) = LayerPriority(q.layer)
       /\ \/ NativeScore(p) < NativeScore(q)
          \/ NativeScore(p) = NativeScore(q) /\ p.source < q.source

\* Provenance is listed with the sources of one layer in ascending order.
ListedBefore(p, q) ==
    \/ LayerPriority(p.layer) > LayerPriority(q.layer)
    \/ /\ LayerPriority(p.layer) = LayerPriority(q.layer)
       /\ \/ NativeScore(p) > NativeScore(q)
          \/ NativeScore(p) = NativeScore(q) /\ p.source < q.source

\* What is at the given positions, in the order that sorted() gives them: it keeps that of
\* what is equal.
Sorted(seq, positions, Before(_, _)) ==
    LET order == CHOOSE f \in [1 .. Cardinality(positions) -> positions] :
                    \A i, j \in DOMAIN f : i < j =>
                        \/ Before(seq[f[i]], seq[f[j]])
                        \/ ~Before(seq[f[j]], seq[f[i]]) /\ f[i] < f[j]
    IN  [k \in DOMAIN order |-> seq[order[k]]]

Without(seq, x) ==
    Sorted(seq, {i \in DOMAIN seq : seq[i] # x}, LAMBDA a, b : FALSE)

\* Where the documents of a key are.
Variants(docs, name, namespace) ==
    {i \in DOMAIN docs : docs[i].name = name /\ docs[i].namespace = namespace}

\* Mutant: in the order they were registered in.
AsRegistered(docs, variants) == Sorted(docs, variants, LAMBDA c, d : FALSE)

Ordered(docs, variants) ==
    Sorted(docs, variants, LAMBDA c, d : Precedes(c.provenance, d.provenance))

-----------------------------------------------------------------------------
(* The merge.                                                              *)

Within(p, q) == IsPrefix(p, q) \/ IsPrefix(q, p)

\* Mutant: dict.update, a mapping is replaced and not merged.
ShallowMerge(base, overlay) ==
    overlay @@ [p \in {b \in DOMAIN base : \A q \in DOMAIN overlay : b[1] # q[1]} |-> base[p]]

\* What the overlay says of a path, or of anything on the way to it, replaces it.
DeepMerge(base, overlay) ==
    LET left == {p \in DOMAIN base : \A q \in DOMAIN overlay : ~Within(p, q)}
    IN  [p \in left \cup DOMAIN overlay |->
            IF p \in DOMAIN overlay THEN overlay[p] ELSE base[p]]

\* merged[n] is what the n lowest documents make together.
MergedSpec(ordered) ==
    LET merged[n \in 0 .. Len(ordered)] ==
            IF n = 0 THEN <<>> ELSE DeepMerge(merged[n - 1], ordered[n].spec)
    IN  merged[Len(ordered)]

Or(value, other) == IF value = Unset THEN other ELSE value

Silent(c) ==
    /\ c.introduced = Unset /\ c.deprecated = Unset /\ c.replaced = Unset
    /\ c.stability = "experimental"

\* Mutant: the stability of the last document counts, said or not.
LastStability(below, above) ==
    [introduced |-> Or(above.introduced, below.introduced),
     deprecated |-> Or(above.deprecated, below.deprecated),
     replaced   |-> Or(above.replaced, below.replaced),
     stability  |-> above.stability]

OverlayCompatibility(below, above) ==
    [introduced |-> Or(above.introduced, below.introduced),
     deprecated |-> Or(above.deprecated, below.deprecated),
     replaced   |-> Or(above.replaced, below.replaced),
     stability  |-> IF Silent(above) THEN below.stability ELSE above.stability]

MergedCompatibility(ordered) ==
    LET merged[n \in 1 .. Len(ordered)] ==
            IF n = 1 THEN ordered[1].compatibility
            ELSE OverlayCompatibility(merged[n - 1], ordered[n].compatibility)
    IN  merged[Len(ordered)]

\* Mutant: in the order of the provenance alone.
ListedProvenance(ordered) ==
    LET provenance == [i \in DOMAIN ordered |-> ordered[i].provenance]
    IN  Sorted(provenance, DOMAIN provenance, ListedBefore)

\* The one that decides, then the others.
OrderedProvenance(ordered) ==
    LET provenance == [i \in DOMAIN ordered |-> ordered[i].provenance]
        winner     == Last(provenance)
    IN  <<winner>> \o Without(Sorted(provenance, DOMAIN provenance, ListedBefore), winner)

\* get_resource for a key that has a document.
MergedDocument(docs, name, namespace) ==
    LET ordered == Ordered(docs, Variants(docs, name, namespace))
    IN  [name |-> name, namespace |-> namespace, spec |-> MergedSpec(ordered),
         compatibility |-> MergedCompatibility(ordered),
         provenance |-> OrderedProvenance(ordered)]

Keys(docs) == {<<docs[i].name, docs[i].namespace>> : i \in DOMAIN docs}

Found(docs, name, namespace) == <<name, namespace>> \in Keys(docs)

=============================================================================
