---------------------------- MODULE McpRegistry -----------------------------
(***************************************************************************)
(* What a directory of MCP resources means: the documents of one server or *)
(* policy merged (kernel/registry.py), the policy attached to a server and *)
(* the report on it (kernel/mcp.py).                                       *)
(*                                                                         *)
(* A document is its kind, its name and the fields of spec that decide; a  *)
(* command stands for the transport, the command or URL and the tools.     *)
(* There is one namespace.                                                 *)
(***************************************************************************)
EXTENDS Naturals, FiniteSets

CONSTANTS
    Names,          \* numbers in the order of the names
    Paths,          \* numbers in the order of the paths
    Commands,
    Startable,      \* the commands that are on PATH
    Tiers,          \* the trust tiers
    Trusted,        \* those that give no warning
    Quarantined,    \* the tier of a server without one
    BadTier,        \* any other word
    Unset, Absent, Empty, Garbled, None

Fields == {"command", "enabled", "targets", "tier", "strict"}

ResourceSpec == [command : Commands \cup {Unset},
         enabled : BOOLEAN \cup {Unset},
         targets : (SUBSET Names) \cup {Unset},
         tier    : Tiers \cup {BadTier, Unset},
         strict  : BOOLEAN \cup {Unset}]

Document == [kind : {"McpServer", "McpPolicy"}, name : Names, spec : ResourceSpec]

Damaged == {Empty, Garbled}

Content == Document \cup Damaged \cup {Absent}

Directory == [Paths -> Content]

Request ==
    [op : {"list"}] \cup [op : {"test", "disable"}, name : Names] \cup
    [op : {"add"}, name : Names, command : Commands, enabled : BOOLEAN,
     tier : Tiers \cup {BadTier}]

ASSUME RegistryAssumption ==
    /\ Names \subseteq Nat
    /\ Paths \subseteq Nat
    /\ \A paths \in SUBSET Paths : paths # {} => \E p \in paths : \A q \in paths : q <= p
    /\ Trusted \subseteq Tiers
    /\ Quarantined \in Tiers \ Trusted
    /\ Unset \notin Tiers \cup {BadTier} \cup BOOLEAN
    /\ None \notin Names
    /\ {Absent, Empty, Garbled} \cap Document = {}
    /\ Absent \notin Damaged

-----------------------------------------------------------------------------
(* InMemoryResourceRegistry: the documents of one key are merged field by  *)
(* field, the one with the last path over the others.                      *)

Documents(view) == {p \in Paths : view[p] \notin Damaged \cup {Absent}}

Variants(view, kind, name) ==
    {p \in Documents(view) : view[p].kind = kind /\ view[p].name = name}

LastOf(paths) == CHOOSE p \in paths : \A q \in paths : q <= p

Field(view, kind, name, f) ==
    LET setters == {p \in Variants(view, kind, name) : view[p].spec[f] # Unset}
    IN  IF setters = {} THEN Unset
        ELSE view[LastOf(setters)].spec[f]

\* Mutant: the first path decides where a change goes.
WinnerFirst(view, name) ==
    LET variants == Variants(view, "McpServer", name)
    IN  CHOOSE p \in variants : \A q \in variants : p <= q

Winner(view, name) == LastOf(Variants(view, "McpServer", name))

-----------------------------------------------------------------------------
(* McpServerProfile, McpPolicyProfile, resolve_mcp_policy and the report.  *)

Servers(view) == {n \in Names : Variants(view, "McpServer", n) # {}}

Policies(view) == {m \in Names : Variants(view, "McpPolicy", m) # {}}

ServerMalformed(view, n) == Field(view, "McpServer", n, "command") = Unset

PoliciesMalformed(view) ==
    \E m \in Policies(view) : Field(view, "McpPolicy", m, "tier") = BadTier

Enabled(view, n) == Field(view, "McpServer", n, "enabled") # FALSE

Targeting(view, n) ==
    {m \in Policies(view) :
        \/ m = n
        \/ /\ Field(view, "McpPolicy", m, "targets") # Unset
           /\ n \in Field(view, "McpPolicy", m, "targets")}

\* Mutant: the first policy that targets the server.
AttachedFirst(view, n) ==
    IF Targeting(view, n) = {} THEN None
    ELSE CHOOSE m \in Targeting(view, n) : \A k \in Targeting(view, n) : m <= k

\* The policy of the server's name, or the first that targets it.
Attached(view, n) ==
    IF Targeting(view, n) = {} THEN None
    ELSE IF n \in Targeting(view, n) THEN n
    ELSE CHOOSE m \in Targeting(view, n) : \A k \in Targeting(view, n) : m <= k

Tier(view, n) ==
    LET tier == Field(view, "McpPolicy", Attached(view, n), "tier")
    IN  IF Attached(view, n) = None \/ tier = Unset THEN Quarantined ELSE tier

Starts(view, n) ==
    Enabled(view, n) /\ Field(view, "McpServer", n, "command") \in Startable

\* Something in the documents makes build_mcp_test_report warn.
Warned(view, n) ==
    \/ Attached(view, n) = None
    \/ Tier(view, n) \notin Trusted
    \/ Field(view, "McpPolicy", Attached(view, n), "strict") # TRUE
    \/ n \notin Targeting(view, n) /\ Cardinality(Targeting(view, n)) > 1

Health(view, n) ==
    IF ~Starts(view, n) THEN "blocked"
    ELSE IF Warned(view, n) THEN "attention_needed" ELSE "safe"

Report(view, n) ==
    [name |-> n, enabled |-> Enabled(view, n), policy |-> Attached(view, n),
     tier |-> Tier(view, n), health |-> Health(view, n)]

Asked(view, request) ==
    IF request.op = "list" THEN Servers(view) ELSE Servers(view) \cap {request.name}

\* Nothing is reported when a document does not make a profile.
Reports(view, request) ==
    IF \/ \E n \in Asked(view, request) : ServerMalformed(view, n)
       \/ PoliciesMalformed(view)
    THEN {}
    ELSE {Report(view, n) : n \in Asked(view, request)}

=============================================================================
