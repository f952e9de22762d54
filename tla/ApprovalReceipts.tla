-------------------------- MODULE ApprovalReceipts --------------------------
(***************************************************************************)
(* Approval receipts: kernel/approvals.py, and the binding that            *)
(* kernel/execution.py makes of a connection usage.                        *)
(*                                                                         *)
(* A digest is as good as what it digests, so the binding digest is the    *)
(* binding, and an HMAC under a key is the pair of the key and the fields  *)
(* it signs: two of them are equal only if both parts are.                 *)
(*                                                                         *)
(* Time is counted in ticks.  The stamps of a receipt carry whole seconds  *)
(* only (_format_timestamp drops the microseconds).                        *)
(***************************************************************************)
EXTENDS ConnectionPolicy, Integers

CONSTANTS
    Second,         \* ticks in a second
    Minute,         \* ticks in a minute
    Keys,           \* HMAC keys the signer's key file may hold
    NoKey           \* no key configured: signing and verifying raise ValueError

ASSUME TimeAssumption ==
    /\ Second \in Nat \ {0}
    /\ Minute \in Nat
    /\ Second <= Minute

ASSUME KeyAssumption == NoKey \notin Keys

\* What one approval is about: the connection document, the request and the
\* gateway's part in the decision.
Binding == [access    : Accesses,
            mode      : Modes,
            operation : Operations,
            policy    : Optional(Names),
            gateway   : Optional(Decisions),
            resource  : Profile]

ConnectionApprovalBinding(profile, decision, request) ==
    [access    |-> request.access,
     mode      |-> EffectiveMode(profile, request),
     operation |-> request.operation,
     policy    |-> decision.policy,
     gateway   |-> decision.gateway,
     resource  |-> profile]

-----------------------------------------------------------------------------
Fields == [name      : Names,
           namespace : Namespaces,
           access    : Accesses,
           mode      : Modes,
           operation : Operations,
           binding   : Binding,
           expires   : Nat]

Signature == [key : Keys, over : Fields]

Receipt == [fields : Fields, signature : Signature]

Sign(fields, key) == [key |-> key, over |-> fields]

WholeSeconds(t) == t - (t % Second)

\* Mutant: ttl_minutes has no floor.
ExpiryWithoutFloor(issued, ttlMinutes) == WholeSeconds(issued + ttlMinutes * Minute)

\* ttl_minutes below one counts as one.
Expiry(issued, ttlMinutes) ==
    WholeSeconds(issued + (IF ttlMinutes < 1 THEN 1 ELSE ttlMinutes) * Minute)

FieldsFor(binding, expires) ==
    [name      |-> binding.resource.name,
     namespace |-> binding.resource.namespace,
     access    |-> binding.access,
     mode      |-> binding.mode,
     operation |-> binding.operation,
     binding   |-> binding,
     expires   |-> expires]

IssueApprovalReceipt(binding, ttlMinutes, key, issued) ==
    LET fields == FieldsFor(binding, Expiry(issued, ttlMinutes))
    IN  [fields |-> fields, signature |-> Sign(fields, key)]

\* Mutant: the digest of the binding is not compared.
ValidWithoutBinding(receipt, binding, key, now) ==
    LET f == receipt.fields
    IN  /\ f.name = binding.resource.name
        /\ f.namespace = binding.resource.namespace
        /\ f.access = binding.access
        /\ f.mode = binding.mode
        /\ f.operation = binding.operation
        /\ key # NoKey
        /\ receipt.signature = Sign(f, key)
        /\ now < f.expires

\* The fields must name the usage, be those that were signed, under the key in
\* place now, and not be expired.
ValidReceipt(receipt, binding, key, now) ==
    LET f == receipt.fields
    IN  /\ f.name = binding.resource.name
        /\ f.namespace = binding.resource.namespace
        /\ f.access = binding.access
        /\ f.mode = binding.mode
        /\ f.operation = binding.operation
        /\ f.binding = binding
        /\ key # NoKey
        /\ receipt.signature = Sign(f, key)
        /\ now < f.expires

=============================================================================
