---------------------------- MODULE ApprovalGate ----------------------------
(***************************************************************************)
(* What governed execution promises, without resource files, receipts,     *)
(* keys or processes: approvals are granted for one exact usage and for a  *)
(* limited time; a usage is admitted if it is open to everybody or one of  *)
(* its approvals has not ended; a run contacts the connection only for the *)
(* one usage it was admitted with, and only once.                          *)
(***************************************************************************)
EXTENDS Naturals

CONSTANTS
    Runs,           \* who asks
    Usages,         \* exact connection usages
    Refused,        \* the usages nobody gets
    Restricted,     \* the usages that need an approval
    NoUsage         \* not a usage: nothing admitted yet

VARIABLES
    time,
    approvals,      \* every approval granted so far
    admitted,       \* the usage each run was admitted with
    contacted       \* the runs that have contacted the connection

gateVars == <<time, approvals, admitted, contacted>>

GateInit ==
    /\ approvals = {}
    /\ admitted = [r \in Runs |-> NoUsage]
    /\ contacted = {}
    /\ time = 0

Advance ==
    /\ time' = time + 1
    /\ UNCHANGED <<approvals, admitted, contacted>>

\* An approval is worth something when it is granted.
Grant ==
    /\ \E approval \in approvals' :
        /\ approvals' = approvals \cup {approval}
        /\ approval.usage \in Restricted
        /\ approval.until > time
    /\ UNCHANGED <<time, admitted, contacted>>

Approved(usage) ==
    \E approval \in approvals : approval.usage = usage /\ time < approval.until

Admit(r) ==
    /\ admitted[r] = NoUsage
    /\ LET usage == admitted'[r]
       IN  /\ usage \in Usages \ Refused
           /\ usage \in Restricted => Approved(usage)
           /\ admitted' = [admitted EXCEPT ![r] = usage]
    /\ UNCHANGED <<time, approvals, contacted>>

Contact(r) ==
    /\ admitted[r] # NoUsage
    /\ r \notin contacted
    /\ contacted' = contacted \cup {r}
    /\ UNCHANGED <<time, approvals, admitted>>

GateNext ==
    \/ Advance
    \/ Grant
    \/ \E r \in Runs : Admit(r) \/ Contact(r)

GateSpec == GateInit /\ [][GateNext]_gateVars

=============================================================================
