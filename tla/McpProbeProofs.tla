--------------------------- MODULE McpProbeProofs ---------------------------
(***************************************************************************)
(* The observed MCP probe, proved for any number of connections, policies  *)
(* and destinations.  Its invariant says where a refused destination is at *)
(* each point of the probe, that the proxy's second list holds nothing the *)
(* allowlist admits, and what the finally clause has done so far.          *)
(***************************************************************************)
EXTENDS McpProbe, TLAPS

Starting == {"plan", "spawn"}
Ending   == {"terminate", "termWait", "killWait", "close"}

\* A result is there when the probe is over.  Before the proxy is closed the child is
\* gone, and it does not come back.
EndInv ==
    /\ pc = "done" <=> result # "none"
    /\ pc \in Starting => child = "none"
    /\ pc \in Starting \cup Watching => ~failing
    /\ pc = "close" => child # "running"
    /\ result = "reported" => ~failing
    /\ result \in {"reported", "raised"} => child # "running" /\ proxy # "listening"

\* What was refused when the snapshot began is on its way into the report.
RefusedInv ==
    /\ \A k \in Conns : conn[k].at = "locked" => conn[k].to \in requested
    /\ \A k \in Conns : conn[k].at = "refused" => conn[k].to \in blocked
    /\ pc \in Starting \cup {"watch", "lsof", "requested"} => refused = {}
    /\ pc = "blocked" => refused \subseteq blocked
    /\ pc = "judge" => refused \subseteq known
    /\ (pc \in Ending \cup {"done"} /\ ~failing /\ result # "not_started") =>
           refused \subseteq report.violations

\* The proxy refuses what the allowlist does not admit, and only that.
AdmitInv ==
    /\ proxy # "none" => WantsProxy(policy)
    /\ \A k \in Conns : conn[k].at = "relay" => Admits(policy, conn[k].to)
    /\ \A k \in Conns : conn[k].at = "locked" => ~Admits(policy, conn[k].to)
    /\ \A d \in blocked : ~Admits(policy, d)
    /\ known \subseteq blocked
    /\ \A d \in report.violations :
           \/ d \in blocked
           \/ d \in EvaluateEgress(policy, report.destinations)

IInv == TypeOK /\ EndInv /\ RefusedInv /\ AdmitInv

-----------------------------------------------------------------------------
\* As long as the allowlist is in lower case, an entry by which the proxy admits a
\* destination is one by which the probe finds it covered, whatever the ports.
LEMMA AdmittedIsCovered ==
    ASSUME LowerCase, WantsProxy(policy), NEW d, Admits(policy, d), NEW S
    PROVE  d \notin EvaluateEgress(policy, S)
<1>1. PICK e \in External(policy) : ProxyMatches(d, e)
  BY DEF Admits
<1>2. e \in policy.allow /\ ProbeMatches(d, e)
  BY <1>1 DEF External, ProxyMatches, ProbeMatches, LowerCase, WantsProxy
<1>3. QED
  BY <1>2 DEF EvaluateEgress, WantsProxy

\* The probe, the proxy and the child are not there initially.
LEMMA InitInv == Init => IInv
<1>. SUFFICES ASSUME Init PROVE IInv
  OBVIOUS
<1>1. conn \in [Conns -> [at : {"idle", "open", "locked", "refused", "relay", "closed"},
                        to : Address]]
  BY ProbeAssumption DEF Init
<1>2. TypeOK
  BY <1>1 DEF Init, TypeOK, Labels
<1>3. QED
  BY <1>2 DEF Init, IInv, EndInv, RefusedInv, AdmitInv, Starting, Watching, Ending

\* Every step keeps the types, and the second list within the first.
LEMMA TypeStep ==
    ASSUME IInv, Next
    PROVE  TypeOK'
<1>. USE DEF IInv, TypeOK, Labels, probe, lists, read
<1>1. CASE BuildPlan
  BY <1>1 DEF BuildPlan
<1>2. CASE Spawn
  BY <1>2 DEF Spawn
<1>3. CASE SpawnFails
  BY <1>3 DEF SpawnFails
<1>4. CASE Poll
  BY <1>4 DEF Poll
<1>5. CASE CollectNetworkDestinations
  <2>1. StateWord \in Destination
    BY DEF Destination
  <2>2. shown' \subseteq Destination
    BY <1>5, <2>1 DEF CollectNetworkDestinations
  <2>3. QED
    BY <1>5, <2>2 DEF CollectNetworkDestinations
<1>6. CASE SnapshotRequested
  BY <1>6 DEF SnapshotRequested, Destination
<1>7. CASE SnapshotBlocked
  BY <1>7 DEF SnapshotBlocked
<1>8. CASE Judge
  <2>1. EvaluateEgress(policy, shown) \cup known \subseteq Destination
    BY DEF EvaluateEgress, Destination
  <2>2. report' \in [destinations : SUBSET Destination, violations : SUBSET Destination]
    BY <1>8, <2>1 DEF Judge
  <2>3. QED
    BY <1>8, <2>2 DEF Judge
<1>9. CASE WatchRaises
  BY <1>9 DEF WatchRaises
<1>10. CASE Terminate
  BY <1>10 DEF Terminate
<1>11. CASE TermWait
  BY <1>11 DEF TermWait
<1>12. CASE KillWait
  BY <1>12 DEF KillWait
<1>13. CASE KillTimesOut
  BY <1>13 DEF KillTimesOut
<1>14. CASE Close
  BY <1>14 DEF Close, CloseProxy
<1>15. CASE AskDirectly
  BY <1>15, ProbeAssumption DEF AskDirectly, Destination
<1>16. CASE ChildExits
  BY <1>16 DEF ChildExits
<1>17. ASSUME NEW k \in Conns, Connect(k)
     PROVE  TypeOK'
  BY <1>17 DEF Connect, Move
<1>18. ASSUME NEW k \in Conns, RecordRequested(k)
     PROVE  TypeOK'
  BY <1>18 DEF RecordRequested, Move
<1>19. ASSUME NEW k \in Conns, RecordBlocked(k)
     PROVE  TypeOK'
  BY <1>19 DEF RecordBlocked, Move, RefusedInv
<1>20. ASSUME NEW k \in Conns, ThreadEnds(k)
     PROVE  TypeOK'
  BY <1>20 DEF ThreadEnds, Move
<1>21. CASE BuildPlanRaises
  BY <1>21 DEF BuildPlanRaises
<1>22. QED
  BY <1>1, <1>2, <1>3, <1>4, <1>5, <1>6, <1>7, <1>8, <1>9, <1>10, <1>11, <1>12,
     <1>13, <1>14, <1>15, <1>16, <1>17, <1>18, <1>19, <1>20, <1>21 DEF Next, Probe, Child, Thread

\* Every step keeps what the finally clause has done.
LEMMA EndStep ==
    ASSUME IInv, Next
    PROVE  EndInv'
<1>. USE DEF IInv, TypeOK, EndInv, Starting, Watching, probe, lists, read
<1>1. CASE BuildPlan
  BY <1>1 DEF BuildPlan
<1>2. CASE Spawn
  BY <1>2 DEF Spawn
<1>3. CASE SpawnFails
  BY <1>3 DEF SpawnFails
<1>4. CASE Poll
  BY <1>4 DEF Poll
<1>5. CASE CollectNetworkDestinations
  BY <1>5 DEF CollectNetworkDestinations
<1>6. CASE SnapshotRequested
  BY <1>6 DEF SnapshotRequested
<1>7. CASE SnapshotBlocked
  BY <1>7 DEF SnapshotBlocked
<1>8. CASE Judge
  BY <1>8 DEF Judge
<1>9. CASE WatchRaises
  BY <1>9 DEF WatchRaises
<1>10. CASE Terminate
  BY <1>10 DEF Terminate
<1>11. CASE TermWait
  BY <1>11 DEF TermWait
<1>12. CASE KillWait
  BY <1>12 DEF KillWait
<1>13. CASE KillTimesOut
  BY <1>13 DEF KillTimesOut
<1>14. CASE Close
  BY <1>14 DEF Close, CloseProxy
<1>15. CASE AskDirectly
  BY <1>15 DEF AskDirectly
<1>16. CASE ChildExits
  BY <1>16 DEF ChildExits
<1>17. ASSUME NEW k \in Conns, Connect(k)
     PROVE  EndInv'
  BY <1>17 DEF Connect, Move
<1>18. ASSUME NEW k \in Conns, RecordRequested(k)
     PROVE  EndInv'
  BY <1>18 DEF RecordRequested, Move
<1>19. ASSUME NEW k \in Conns, RecordBlocked(k)
     PROVE  EndInv'
  BY <1>19 DEF RecordBlocked, Move
<1>20. ASSUME NEW k \in Conns, ThreadEnds(k)
     PROVE  EndInv'
  BY <1>20 DEF ThreadEnds, Move
<1>21. CASE BuildPlanRaises
  BY <1>21 DEF BuildPlanRaises
<1>22. QED
  BY <1>1, <1>2, <1>3, <1>4, <1>5, <1>6, <1>7, <1>8, <1>9, <1>10, <1>11, <1>12,
     <1>13, <1>14, <1>15, <1>16, <1>17, <1>18, <1>19, <1>20, <1>21 DEF Next, Probe, Child, Thread

\* Every step keeps the way of a refused destination into the report.
LEMMA RefusedStep ==
    ASSUME IInv, Next
    PROVE  RefusedInv'
<1>. USE DEF IInv, TypeOK, EndInv, RefusedInv, Starting, Watching, Ending, probe, lists, read
<1>1. CASE BuildPlan
  BY <1>1 DEF BuildPlan
<1>2. CASE Spawn
  BY <1>2 DEF Spawn
<1>3. CASE SpawnFails
  BY <1>3 DEF SpawnFails
<1>4. CASE Poll
  BY <1>4 DEF Poll
<1>5. CASE CollectNetworkDestinations
  BY <1>5 DEF CollectNetworkDestinations
<1>6. CASE SnapshotRequested
  BY <1>6 DEF SnapshotRequested
<1>7. CASE SnapshotBlocked
  BY <1>7 DEF SnapshotBlocked
<1>8. CASE Judge
  BY <1>8 DEF Judge
<1>9. CASE WatchRaises
  BY <1>9 DEF WatchRaises
<1>10. CASE Terminate
  BY <1>10 DEF Terminate
<1>11. CASE TermWait
  BY <1>11 DEF TermWait
<1>12. CASE KillWait
  BY <1>12 DEF KillWait
<1>13. CASE KillTimesOut
  BY <1>13 DEF KillTimesOut
<1>14. CASE Close
  BY <1>14 DEF Close, CloseProxy
<1>15. CASE AskDirectly
  BY <1>15 DEF AskDirectly
<1>16. CASE ChildExits
  BY <1>16 DEF ChildExits
<1>17. ASSUME NEW k \in Conns, Connect(k)
     PROVE  RefusedInv'
  BY <1>17 DEF Connect, Move
<1>18. ASSUME NEW k \in Conns, RecordRequested(k)
     PROVE  RefusedInv'
  BY <1>18 DEF RecordRequested, Move
<1>19. ASSUME NEW k \in Conns, RecordBlocked(k)
     PROVE  RefusedInv'
  BY <1>19 DEF RecordBlocked, Move
<1>20. ASSUME NEW k \in Conns, ThreadEnds(k)
     PROVE  RefusedInv'
  BY <1>20 DEF ThreadEnds, Move
<1>21. CASE BuildPlanRaises
  BY <1>21 DEF BuildPlanRaises
<1>22. QED
  BY <1>1, <1>2, <1>3, <1>4, <1>5, <1>6, <1>7, <1>8, <1>9, <1>10, <1>11, <1>12,
     <1>13, <1>14, <1>15, <1>16, <1>17, <1>18, <1>19, <1>20, <1>21 DEF Next, Probe, Child, Thread

\* Every step keeps what the lists hold.
LEMMA AdmitStep ==
    ASSUME IInv, Next
    PROVE  AdmitInv'
<1>. USE DEF IInv, TypeOK, AdmitInv, probe, lists, read
<1>1. CASE BuildPlan
  BY <1>1 DEF BuildPlan
<1>2. CASE Spawn
  BY <1>2 DEF Spawn
<1>3. CASE SpawnFails
  BY <1>3 DEF SpawnFails
<1>4. CASE Poll
  BY <1>4 DEF Poll
<1>5. CASE CollectNetworkDestinations
  BY <1>5 DEF CollectNetworkDestinations
<1>6. CASE SnapshotRequested
  BY <1>6 DEF SnapshotRequested
<1>7. CASE SnapshotBlocked
  BY <1>7 DEF SnapshotBlocked
<1>8. CASE Judge
  BY <1>8 DEF Judge
<1>9. CASE WatchRaises
  BY <1>9 DEF WatchRaises
<1>10. CASE Terminate
  BY <1>10 DEF Terminate
<1>11. CASE TermWait
  BY <1>11 DEF TermWait
<1>12. CASE KillWait
  BY <1>12 DEF KillWait
<1>13. CASE KillTimesOut
  BY <1>13 DEF KillTimesOut
<1>14. CASE Close
  BY <1>14 DEF Close, CloseProxy
<1>15. CASE AskDirectly
  BY <1>15 DEF AskDirectly
<1>16. CASE ChildExits
  BY <1>16 DEF ChildExits
<1>17. ASSUME NEW k \in Conns, Connect(k)
     PROVE  AdmitInv'
  BY <1>17 DEF Connect, Move
<1>18. ASSUME NEW k \in Conns, RecordRequested(k)
     PROVE  AdmitInv'
  BY <1>18 DEF RecordRequested, Move
<1>19. ASSUME NEW k \in Conns, RecordBlocked(k)
     PROVE  AdmitInv'
  BY <1>19 DEF RecordBlocked, Move
<1>20. ASSUME NEW k \in Conns, ThreadEnds(k)
     PROVE  AdmitInv'
  BY <1>20 DEF ThreadEnds, Move
<1>21. CASE BuildPlanRaises
  BY <1>21 DEF BuildPlanRaises
<1>22. QED
  BY <1>1, <1>2, <1>3, <1>4, <1>5, <1>6, <1>7, <1>8, <1>9, <1>10, <1>11, <1>12,
     <1>13, <1>14, <1>15, <1>16, <1>17, <1>18, <1>19, <1>20, <1>21 DEF Next, Probe, Child, Thread

LEMMA Invariance == Spec => []IInv
<1>1. IInv /\ [Next]_vars => IInv'
  <2>1. ASSUME IInv, UNCHANGED vars
        PROVE  IInv'
    BY <2>1 DEF vars, probe, lists, read, IInv, TypeOK, EndInv, RefusedInv, AdmitInv
  <2>2. QED
    BY <2>1, TypeStep, EndStep, RefusedStep, AdmitStep DEF IInv
<1>2. QED
  BY <1>1, InitInv, PTL DEF Spec

-----------------------------------------------------------------------------
\* Every value the probe and the proxy keep is of its kind, and the proxy lists no
\* destination as blocked that it does not list as requested.
THEOREM ProbeTypeCorrect == Spec => []TypeOK
<1>1. IInv => TypeOK
  BY DEF IInv
<1>2. QED
  BY <1>1, Invariance, PTL

\* A probe of a started child that ends, with a report or an exception, leaves neither
\* the child nor the proxy, except when the kill takes too long.
THEOREM ProbeLeavesNothing == Spec => []NothingLeftBehind
<1>1. IInv => NothingLeftBehind
  BY DEF IInv, EndInv, NothingLeftBehind
<1>2. QED
  BY <1>1, Invariance, PTL

\* What the proxy had refused when its lists were read is a violation in the report.
THEOREM RefusalsReported == Spec => []RefusedIsReported
<1>1. IInv => RefusedIsReported
  BY DEF IInv, EndInv, RefusedInv, RefusedIsReported
<1>2. QED
  BY <1>1, Invariance, PTL

\* For every allowlist in lower case: the probe does not report what the proxy lets
\* through, although the two compare the list in different ways.
THEOREM AdmittedNotReported == Spec => []AdmittedIsNoViolation
<1>1. IInv => AdmittedIsNoViolation
  <2>1. SUFFICES ASSUME IInv, proxy = "closed", LowerCase,
                        NEW k \in Conns, conn[k].at = "relay"
                 PROVE  conn[k].to \notin report.violations
    BY DEF AdmittedIsNoViolation
  <2>2. WantsProxy(policy) /\ Admits(policy, conn[k].to)
    BY <2>1 DEF IInv, AdmitInv
  <2>3. conn[k].to \notin EvaluateEgress(policy, report.destinations)
    BY <2>1, <2>2, AdmittedIsCovered
  <2>4. QED
    BY <2>1, <2>2, <2>3 DEF IInv, AdmitInv
<1>2. QED
  BY <1>1, Invariance, PTL

=============================================================================
