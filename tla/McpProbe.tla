------------------------------ MODULE McpProbe ------------------------------
(***************************************************************************)
(* `ccp mcp test --observed` of a stdio server (kernel/mcp_runtime.py): the *)
(* probe starts the server's command as a child, watches it for a moment,  *)
(* ends it and reports.  Under an egress allowlist with external entries   *)
(* the child is pointed at a proxy (kernel/mcp_proxy.py) in the probe's    *)
(* process, with one thread per connection; the probe reads the proxy's    *)
(* two lists while those threads write them.                               *)
(*                                                                         *)
(* The child may also make connections that do not go through the proxy;   *)
(* lsof shows those that are open, the one to the proxy among them.  Of a  *)
(* line of lsof the probe takes the last word: the address for UDP, and    *)
(* for TCP the state, which lsof puts behind the address in parentheses.   *)
(***************************************************************************)
CONSTANTS
    Hosts,          \* host names, in lower case
    Local,          \* localhost, 127.0.0.1
    TcpState,       \* "(ESTABLISHED)" and its like
    Below,          \* <<g, h>>: g is a name below the domain h
    Ports,
    AnyPort,        \* a star for a port
    NoPort,         \* an entry without a port
    Policies,       \* the egress policies a server may have
    NoPolicy,       \* no McpPolicy is attached
    Targets,        \* the destinations the child may ask for
    Conns           \* the connections the child can make to the proxy

Address == [host : Hosts, port : Ports]

StateWord == [host |-> TcpState, port |-> NoPort]

Destination == Address \cup {StateWord}

\* An entry of spec.egress_policy.allow, and whether it has a letter in upper case.
Entry == [host : Hosts, upper : BOOLEAN, port : Ports \cup {AnyPort, NoPort}]

\* The modes inherit and unspecified do what open does.
Policy == [mode : {"deny", "allowlist", "open"}, allow : SUBSET Entry]

ASSUME ProbeAssumption ==
    /\ Local \in Hosts
    /\ Below \subseteq Hosts \X Hosts
    /\ TcpState \notin Hosts
    /\ AnyPort \notin Ports
    /\ NoPort \notin Ports
    /\ Policies \subseteq Policy
    /\ NoPolicy \notin Policy
    /\ Targets \subseteq Address

-----------------------------------------------------------------------------
(* The allowlist, which the proxy and the probe compare each in its way.   *)

Covers(domain, host) == host = domain \/ <<host, domain>> \in Below

\* mcp_proxy._matches_allowlist.
ProxyMatches(d, entry) ==
    /\ Covers(entry.host, d.host)
    /\ entry.port \in {AnyPort, NoPort, d.port}

\* Mutant: the ports are compared as they are written.
ProbeMatchesPort(d, entry) ==
    /\ Covers(entry.host, d.host)
    /\ ~entry.upper
    /\ entry.port = d.port

\* mcp_runtime._destination_matches_allowlist: no regard to ports, but to case.
ProbeMatches(d, entry) == Covers(entry.host, d.host) /\ ~entry.upper

IsLocal(entry) == entry.host = Local /\ (entry.port = NoPort => ~entry.upper)

External(policy) == {e \in policy.allow : ~IsLocal(e)}

WantsProxy(policy) ==
    /\ policy # NoPolicy
    /\ policy.mode = "allowlist"
    /\ External(policy) # {}

Admits(policy, d) == \E e \in External(policy) : ProxyMatches(d, e)

EvaluateEgress(policy, destinations) ==
    {d \in destinations :
        \/ policy = NoPolicy
        \/ policy # NoPolicy /\ policy.mode = "deny"
        \/ /\ policy # NoPolicy
           /\ policy.mode = "allowlist"
           /\ \A e \in policy.allow : ~ProbeMatches(d, e)}

-----------------------------------------------------------------------------
VARIABLES
    policy,         \* what is attached to the server
    pc,             \* where observe_mcp_runtime is
    result,         \* how it has ended
    failing,        \* an exception is on its way through the finally clause
    child,          \* the server's process
    proxy,
    conn,           \* the thread of each connection: where it is, what it is asked for
    direct,         \* what lsof has to show of the connections past the proxy
    requested,      \* the proxy's two lists
    blocked,
    polled,         \* what the probe has read so far
    shown,
    known,
    report,
    refused         \* history: what was refused when the snapshot began

probe == <<pc, result, failing>>
lists == <<requested, blocked>>
read  == <<polled, shown, known, report, refused>>
vars  == <<policy, probe, child, proxy, conn, direct, lists, read>>

Labels == {"plan", "spawn", "watch", "lsof", "requested", "blocked", "judge",
           "terminate", "termWait", "killWait", "close", "done"}

Watching == {"watch", "lsof", "requested", "blocked", "judge"}

TypeOK ==
    /\ policy \in Policies \cup {NoPolicy}
    /\ pc \in Labels
    /\ result \in {"none", "not_planned", "not_started", "reported", "raised", "timeout"}
    /\ failing \in BOOLEAN
    /\ child \in {"none", "running", "ok", "failed"}
    /\ proxy \in {"none", "listening", "closed"}
    /\ conn \in [Conns -> [at : {"idle", "open", "locked", "refused", "relay", "closed"},
                           to : Address]]
    /\ direct \subseteq Destination
    /\ requested \subseteq Address
    /\ blocked \subseteq requested
    /\ polled \in {"none", "running", "ok", "failed"}
    /\ shown \subseteq Destination
    /\ known \subseteq Address
    /\ report \in [destinations : SUBSET Destination, violations : SUBSET Destination]
    /\ refused \subseteq Address

Init ==
    /\ policy \in Policies \cup {NoPolicy}
    /\ pc = "plan"
    /\ result = "none"
    /\ failing = FALSE
    /\ child = "none"
    /\ proxy = "none"
    /\ conn \in [Conns -> [at : {"idle"}, to : Targets]]
    /\ direct = {}
    /\ requested = {}
    /\ blocked = {}
    /\ polled = "none"
    /\ shown = {}
    /\ known = {}
    /\ report = [destinations |-> {}, violations |-> {}]
    /\ refused = {}

-----------------------------------------------------------------------------
(* The server's process, and the proxy's threads.                          *)

\* By UDP or by TCP.
AskDirectly ==
    /\ child = "running"
    /\ \E d \in (Targets \cup {StateWord}) \ direct : direct' = direct \cup {d}
    /\ UNCHANGED <<policy, probe, child, proxy, conn, lists, read>>

\* Of itself, or by the probe's signals.
ChildExits ==
    /\ child = "running"
    /\ child' \in {"ok", "failed"}
    /\ UNCHANGED <<policy, probe, proxy, conn, direct, lists, read>>

Locked == \E k \in Conns : conn[k].at = "locked"

Move(k, place) == conn' = [conn EXCEPT ![k].at = place]

Connect(k) ==
    /\ child = "running"
    /\ proxy = "listening"
    /\ conn[k].at = "idle"
    /\ Move(k, "open")
    /\ UNCHANGED <<policy, probe, child, proxy, direct, lists, read>>

\* Mutant: a refused destination goes to the second list only.
RecordAdmitted(k) ==
    /\ conn[k].at = "open"
    /\ ~Locked
    /\ requested' = IF Admits(policy, conn[k].to) THEN requested \cup {conn[k].to} ELSE requested
    /\ Move(k, IF Admits(policy, conn[k].to) THEN "relay" ELSE "locked")
    /\ UNCHANGED <<policy, probe, child, proxy, direct, blocked, read>>

\* record_destination takes the proxy's lock and appends to the first list, and
\* for a destination that is not allowed then to the second.
RecordRequested(k) ==
    /\ conn[k].at = "open"
    /\ ~Locked
    /\ requested' = requested \cup {conn[k].to}
    /\ Move(k, IF Admits(policy, conn[k].to) THEN "relay" ELSE "locked")
    /\ UNCHANGED <<policy, probe, child, proxy, direct, blocked, read>>

RecordBlocked(k) ==
    /\ conn[k].at = "locked"
    /\ blocked' = blocked \cup {conn[k].to}
    /\ Move(k, "refused")
    /\ UNCHANGED <<policy, probe, child, proxy, direct, requested, read>>

\* No request line, a broken connection, the end of the relay.
ThreadEnds(k) ==
    /\ conn[k].at \in {"open", "relay"}
    /\ Move(k, "closed")
    /\ UNCHANGED <<policy, probe, child, proxy, direct, lists, read>>

-----------------------------------------------------------------------------
(* observe_mcp_runtime.                                                    *)

BuildPlan ==
    /\ pc = "plan"
    /\ proxy' = IF WantsProxy(policy) THEN "listening" ELSE proxy
    /\ pc' = "spawn"
    /\ UNCHANGED <<policy, result, failing, child, conn, direct, lists, read>>

\* The proxy cannot be started, or, when it listens, the sandbox profile cannot be
\* written: the exception leaves before there is anything to clean up with.
BuildPlanRaises ==
    /\ pc = "plan"
    /\ proxy' \in {proxy} \cup IF WantsProxy(policy) THEN {"listening"} ELSE {}
    /\ result' = "not_planned"
    /\ pc' = "done"
    /\ UNCHANGED <<policy, failing, child, conn, direct, lists, read>>

Spawn ==
    /\ pc = "spawn"
    /\ child' = "running"
    /\ pc' = "watch"
    /\ UNCHANGED <<policy, result, failing, proxy, conn, direct, lists, read>>

\* The command is not there or does not start.  The proxy goes on listening.
SpawnFails ==
    /\ pc = "spawn"
    /\ result' = "not_started"
    /\ pc' = "done"
    /\ UNCHANGED <<policy, failing, child, proxy, conn, direct, lists, read>>

\* time.sleep, then process.poll().
Poll ==
    /\ pc = "watch"
    /\ polled' = child
    /\ pc' = "lsof"
    /\ UNCHANGED <<policy, result, failing, child, proxy, conn, direct, lists,
                   shown, known, report, refused>>

ProxyInUse == \E k \in Conns : conn[k].at \in {"open", "locked", "relay"}

\* The connections lsof shows of a child that runs: of those it has made, the ones
\* that are open.  Where lsof does not work there are none.
CollectNetworkDestinations ==
    /\ pc = "lsof"
    /\ shown' \in SUBSET (direct \cup IF ProxyInUse THEN {StateWord} ELSE {})
    /\ child # "running" => shown' = {}
    /\ pc' = IF proxy = "none" THEN "judge" ELSE "requested"
    /\ UNCHANGED <<policy, result, failing, child, proxy, conn, direct, lists,
                   polled, known, report, refused>>

\* proxy.snapshot() copies one list and then the other, without the lock.
SnapshotRequested ==
    /\ pc = "requested"
    /\ shown' = shown \cup requested
    /\ refused' = {conn[k].to : k \in {j \in Conns : conn[j].at = "refused"}}
    /\ pc' = "blocked"
    /\ UNCHANGED <<policy, result, failing, child, proxy, conn, direct, lists,
                   polled, known, report>>

\* Mutant: the proxy is asked only about a child that is still there.
SnapshotOfRunning ==
    /\ pc = "blocked"
    /\ known' = IF polled = "running" THEN blocked ELSE {}
    /\ pc' = "judge"
    /\ UNCHANGED <<policy, result, failing, child, proxy, conn, direct, lists,
                   polled, shown, report, refused>>

SnapshotBlocked ==
    /\ pc = "blocked"
    /\ known' = blocked
    /\ pc' = "judge"
    /\ UNCHANGED <<policy, result, failing, child, proxy, conn, direct, lists,
                   polled, shown, report, refused>>

Judge ==
    /\ pc = "judge"
    /\ report' = [destinations |-> shown,
                  violations   |-> EvaluateEgress(policy, shown) \cup known]
    /\ pc' = "terminate"
    /\ UNCHANGED <<policy, result, failing, child, proxy, conn, direct, lists,
                   polled, shown, known, refused>>

\* Whatever is raised while the child is watched goes through the finally clause.
WatchRaises ==
    /\ pc \in Watching
    /\ failing' = TRUE
    /\ pc' = "terminate"
    /\ UNCHANGED <<policy, result, child, proxy, conn, direct, lists, read>>

-----------------------------------------------------------------------------
(* The finally clause: _terminate_process, then proxy.close().             *)

Terminate ==
    /\ pc = "terminate"
    /\ pc' = IF child = "running" THEN "termWait" ELSE "close"
    /\ UNCHANGED <<policy, result, failing, child, proxy, conn, direct, lists, read>>

\* Mutant: the wait has no time limit.
TermWaitForEver ==
    /\ pc = "termWait"
    /\ child # "running"
    /\ pc' = "close"
    /\ UNCHANGED <<policy, result, failing, child, proxy, conn, direct, lists, read>>

\* The child has gone within a second, or the time is up and it is killed.
TermWait ==
    /\ pc = "termWait"
    /\ \/ child # "running" /\ pc' = "close"
       \/ child = "running" /\ pc' = "killWait"
    /\ UNCHANGED <<policy, result, failing, child, proxy, conn, direct, lists, read>>

KillWait ==
    /\ pc = "killWait"
    /\ child # "running"
    /\ pc' = "close"
    /\ UNCHANGED <<policy, result, failing, child, proxy, conn, direct, lists, read>>

\* The second wait raises, and the proxy is not closed.
KillTimesOut ==
    /\ pc = "killWait"
    /\ child = "running"
    /\ result' = "timeout"
    /\ pc' = "done"
    /\ UNCHANGED <<policy, failing, child, proxy, conn, direct, lists, read>>

\* Mutant: the proxy is closed only when there is a report.
CloseAfterReport == proxy' = IF proxy = "listening" /\ ~failing THEN "closed" ELSE proxy

CloseProxy == proxy' = IF proxy = "listening" THEN "closed" ELSE proxy

Close ==
    /\ pc = "close"
    /\ CloseProxy
    /\ result' = IF failing THEN "raised" ELSE "reported"
    /\ pc' = "done"
    /\ UNCHANGED <<policy, failing, child, conn, direct, lists, read>>

-----------------------------------------------------------------------------
Probe ==
    \/ BuildPlan
    \/ BuildPlanRaises
    \/ Spawn
    \/ SpawnFails
    \/ Poll
    \/ CollectNetworkDestinations
    \/ SnapshotRequested
    \/ SnapshotBlocked
    \/ Judge
    \/ WatchRaises
    \/ Terminate
    \/ TermWait
    \/ KillWait
    \/ KillTimesOut
    \/ Close

Child == AskDirectly \/ ChildExits

Thread(k) == Connect(k) \/ RecordRequested(k) \/ RecordBlocked(k) \/ ThreadEnds(k)

Next == Probe \/ Child \/ \E k \in Conns : Thread(k)

Spec == Init /\ [][Next]_vars

\* The probe's own thread: nothing it calls waits without a time limit, and
\* shutdown() only waits for a loop that looks twice a second.
FairSpec == Spec /\ WF_vars(Probe)

-----------------------------------------------------------------------------
(* Properties.                                                             *)

\* However the watching of a started child ends, with a report or an exception,
\* neither the child nor the proxy is left behind; only a kill that takes longer
\* than a second leaves them (_terminate_process, McpAllowlistProxy.close).
NothingLeftBehind ==
    result \in {"reported", "raised"} => child # "running" /\ proxy # "listening"

\* A destination the proxy had refused when its lists were read is a violation in
\* the report, whether or not the child still ran or lsof worked.
RefusedIsReported == result = "reported" => refused \subseteq report.violations

LowerCase == policy # NoPolicy => \A e \in policy.allow : ~e.upper

\* The proxy and the probe compare the allowlist in different ways; as long as it
\* is in lower case, what the proxy lets through is no violation for the probe.
AdmittedIsNoViolation ==
    (result = "reported" /\ proxy = "closed" /\ LowerCase) =>
        \A k \in Conns : conn[k].at = "relay" =>
            conn[k].to \notin report.violations

\* A probe ends, whatever the child does.
ProbeEnds == pc = "plan" ~> pc = "done"

\* kernel/mcp_runtime.py:493 says of a violation that the "observed outbound
\* destination ... is not covered by the egress allowlist".  Here: a server that uses
\* the proxy alone, and only for destinations that an entry of its allowlist covers,
\* has no violation.  What lsof shows of its connection to the proxy violates it.
CoveredHasNoViolation ==
    (/\ result = "reported"
     /\ policy # NoPolicy
     /\ policy.mode = "allowlist"
     /\ direct = {}
     /\ \A k \in Conns : conn[k].at = "idle" \/
            \E e \in policy.allow : ProbeMatches(conn[k].to, e) /\ ProxyMatches(conn[k].to, e))
    => report.violations = {}

=============================================================================
