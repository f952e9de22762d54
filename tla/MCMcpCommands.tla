--------------------------- MODULE MCMcpCommands ----------------------------
(* Two names, m and n, and the files a, m.policy, m.server, n.policy,      *)
(* n.server, z in this order; the calls are about n.                       *)
EXTENDS McpCommands, TLC

CONSTANTS Trust, Quarantine, Npx, Missing

m == 1
n == 2

MCPaths      == 1 .. 6
MCServerPath == (m :> 3) @@ (n :> 5)
MCPolicyPath == (m :> 2) @@ (n :> 4)

Nothing ==
    [command |-> Unset, enabled |-> Unset, targets |-> Unset, tier |-> Unset, strict |-> Unset]

Server(spec) == [kind |-> "McpServer", name |-> n, spec |-> spec]

Policy(name, spec) == [kind |-> "McpPolicy", name |-> name, spec |-> spec]

Holding(some) == some @@ [p \in MCPaths |-> Absent]

Broad == Policy(m, [Nothing EXCEPT !.targets = {n}, !.tier = Trust, !.strict = TRUE])

\* An empty directory; a server in two files, the second without a command, and a policy
\* of another name that targets it; a policy without its server; a policy of no tier.
MCDirectories ==
    {Holding(<<>>),
     Holding((1 :> Server([Nothing EXCEPT !.command = Npx])) @@
             (2 :> Broad) @@
             (6 :> Server([Nothing EXCEPT !.enabled = TRUE]))),
     Holding((2 :> Broad) @@ (4 :> Policy(n, [Nothing EXCEPT !.tier = Quarantine]))),
     Holding((1 :> Server([Nothing EXCEPT !.command = Missing])) @@
             (2 :> Policy(m, [Nothing EXCEPT !.tier = BadTier])))}

AddN(command, enabled, tier) ==
    [op |-> "add", name |-> n, command |-> command, enabled |-> enabled, tier |-> tier]

MCRequests ==
    {[op |-> "list"], [op |-> "test", name |-> n], [op |-> "disable", name |-> n],
     AddN(Npx, TRUE, Quarantine), AddN(Missing, TRUE, Trust), AddN(Npx, FALSE, Trust),
     AddN(Npx, TRUE, BadTier)}

CallSymmetry == Permutations(Calls)
=============================================================================
