-------------------------- MODULE LeaseDirectories --------------------------
(***************************************************************************)
(* What runs promise each other about their lease directories, with no     *)
(* files in them: a run makes its own bundle, uses it only once it is      *)
(* complete, and takes it away again if it is to; a sweep may take away    *)
(* the bundle of anybody, but only one that was condemned, at a moment at  *)
(* which it was not complete or its lease had ended.                       *)
(*                                                                         *)
(* A sweep may be long: what it condemns it may remove much later.         *)
(* Materialization, where a sweep is one file operation after the other,   *)
(* and GovernedExecution, where it is one step, both implement this.       *)
(***************************************************************************)
EXTENDS Naturals

CONSTANT Runs

VARIABLES
    time,
    stage,          \* where each run is
    bundle,         \* what there is of its bundle
    leaseEnd,       \* when its lease ends
    tidy,           \* the runs that are to clean up on exit
    condemned       \* the bundles that some sweep is about to remove

leaseVars == <<time, stage, bundle, leaseEnd, tidy, condemned>>

LeaseInit ==
    /\ time = 0
    /\ stage = [r \in Runs |-> "planning"]
    /\ bundle = [r \in Runs |-> "none"]
    /\ leaseEnd = [r \in Runs |-> 0]
    /\ tidy \subseteq Runs
    /\ condemned = {}

Enter(r, s) == stage' = [stage EXCEPT ![r] = s]

Becomes(r, b) == bundle' = [bundle EXCEPT ![r] = b]

Advance ==
    /\ time' = time + 1
    /\ UNCHANGED <<stage, bundle, leaseEnd, tidy, condemned>>

\* The lease is issued before anything is written, and has not ended then.
Plan(r) ==
    /\ stage[r] = "planning"
    /\ leaseEnd'[r] = leaseEnd[r] \/ leaseEnd'[r] >= time
    /\ leaseEnd' = [leaseEnd EXCEPT ![r] = leaseEnd'[r]]
    /\ tidy' \ {r} = tidy \ {r}
    /\ UNCHANGED <<time, stage, bundle, condemned>>

-----------------------------------------------------------------------------
(* The owner.                                                              *)

Prepare(r) ==
    /\ stage[r] = "planning"
    /\ bundle[r] = "none"
    /\ Becomes(r, "partial")
    /\ Enter(r, "preparing")
    /\ UNCHANGED <<time, leaseEnd, tidy, condemned>>

Complete(r) ==
    /\ stage[r] = "preparing"
    /\ bundle[r] = "partial"
    /\ Becomes(r, "ready")
    /\ \E s \in {"preparing", "using"} : Enter(r, s)
    /\ UNCHANGED <<time, leaseEnd, tidy, condemned>>

Use(r) ==
    /\ stage[r] = "preparing"
    /\ bundle[r] = "ready"
    /\ Enter(r, "using")
    /\ UNCHANGED <<time, bundle, leaseEnd, tidy, condemned>>

\* A run that ends before it has used its bundle leaves no complete one.
GiveUp(r) ==
    /\ stage[r] \in {"planning", "preparing"}
    /\ bundle[r] # "ready"
    /\ Enter(r, "over")
    /\ UNCHANGED <<time, bundle, leaseEnd, tidy, condemned>>

Clear(r) ==
    /\ stage[r] = "using"
    /\ r \in tidy
    /\ bundle[r] = "ready"
    /\ Becomes(r, "partial")
    /\ UNCHANGED <<time, stage, leaseEnd, tidy, condemned>>

Leave(r) ==
    /\ stage[r] = "using"
    /\ IF r \in tidy THEN Becomes(r, "none") ELSE bundle' = bundle
    /\ Enter(r, "over")
    /\ UNCHANGED <<time, leaseEnd, tidy, condemned>>

-----------------------------------------------------------------------------
(* Sweeps and kills.                                                       *)

Stale(l) == bundle[l] # "ready" \/ leaseEnd[l] <= time

Dwindles(l) ==
    \/ bundle[l] = "ready" /\ bundle'[l] \in {"partial", "none"}
    \/ bundle[l] = "partial" /\ bundle'[l] = "none"

Sweep ==
    /\ bundle' = [l \in Runs |-> bundle'[l]]
    /\ \A l \in Runs : bundle'[l] # bundle[l] =>
          Dwindles(l) /\ (l \in condemned \/ Stale(l))
    /\ condemned' \subseteq Runs
    /\ \A l \in condemned' \ condemned : Stale(l)
    /\ UNCHANGED <<time, stage, leaseEnd, tidy>>

\* What a killed run was about to remove it does not remove.
Kill(r) ==
    /\ stage[r] # "killed"
    /\ Enter(r, "killed")
    /\ condemned' \subseteq condemned
    /\ UNCHANGED <<time, bundle, leaseEnd, tidy>>

LeaseNext ==
    \/ Advance
    \/ Sweep
    \/ \E r \in Runs :
          \/ Plan(r)
          \/ Prepare(r)
          \/ Complete(r)
          \/ Use(r)
          \/ GiveUp(r)
          \/ Clear(r)
          \/ Leave(r)
          \/ Kill(r)

LeaseSpec == LeaseInit /\ [][LeaseNext]_leaseVars

=============================================================================
