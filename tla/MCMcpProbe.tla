----------------------------- MODULE MCMcpProbe -----------------------------
(* A vendor's API below its domain, another site, and the local host.      *)
EXTENDS McpProbe, TLC

Api    == "api.vendor"
Vendor == "vendor"
Other  == "other"

MCHosts == {Api, Vendor, Other, "localhost"}

MCBelow == {<<Api, Vendor>>}

To(host, port) == [host |-> host, port |-> port]

MCTargets == {To(Api, 80), To(Other, 443)}

Allow(entries) == [mode |-> "allowlist", allow |-> entries]

Listed(host, upper, port) == [host |-> host, upper |-> upper, port |-> port]

MCPolicies ==
    {[mode |-> "deny", allow |-> {}],
     Allow({Listed("localhost", FALSE, NoPort)}),
     Allow({Listed(Vendor, FALSE, 443), Listed("localhost", FALSE, AnyPort)}),
     Allow({Listed(Vendor, FALSE, AnyPort)}),
     Allow({Listed(Vendor, TRUE, NoPort)})}

ConnSymmetry == Permutations(Conns)
=============================================================================
