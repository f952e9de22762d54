--------------------------- MODULE Materialization ---------------------------
(***************************************************************************)
(* Materialized secrets (kernel/materialization.py, as kernel/executor.py  *)
(* and adapters/http_json.py use it).  Each run writes its secret into a   *)
(* lease directory of its own; all lease directories have one parent,      *)
(* which every run sweeps before it prepares its own.  Nothing locks: the  *)
(* steps of different runs interleave at every file operation.             *)
(***************************************************************************)
EXTENDS Naturals

CONSTANTS
    Runs,           \* executions; the lease directory of a run has its name
    NoRun,
    Second,         \* ticks in a second
    Ttl,            \* how many seconds a lease lasts
    MaxTime         \* bound on the clock

ASSUME ConstantsAssumption ==
    /\ NoRun \notin Runs
    /\ Second \in Nat \ {0}
    /\ Ttl \in Nat \ {0}
    /\ MaxTime \in Nat

VARIABLES
    now,
    policy,         \* spec.materialization of each run: cleanupOnExit, cleanupOnRead
    dir,            \* the lease directories: is it there, its secret, its lease.json
    expires,        \* the end of each lease, fixed when the run was planned
    pc,             \* where each run is
    found,          \* lease directories each run's sweep has listed and not yet judged
    target,         \* the lease directory each run's rmtree is working on
    listedAt,       \* the clock of each run's sweep
    due,            \* history: what a sweep has to remove
    spared,         \* history: what it must not
    returned        \* history: the runs whose adapter was called

vars == <<now, policy, dir, expires, pc, found, target, listedAt, due, spared, returned>>

Labels == {"idle", "list", "judge", "unlink", "rmdir",
           "mkdir", "secret", "chmod", "create", "fill", "seal",
           "use", "exit", "exitRmdir", "done", "crashed"}

\* lease.json: not there, opened for writing, complete.
Directory == [exists : BOOLEAN, secret : BOOLEAN, lease : {"absent", "empty", "written"}]

NoDirectory == [exists |-> FALSE, secret |-> FALSE, lease |-> "absent"]

TypeOK ==
    /\ now \in Nat
    /\ policy \in [Runs -> [onExit : BOOLEAN, onRead : BOOLEAN]]
    /\ dir \in [Runs -> Directory]
    /\ expires \in [Runs -> Nat]
    /\ pc \in [Runs -> Labels]
    /\ found \in [Runs -> SUBSET Runs]
    /\ target \in [Runs -> Runs \cup {NoRun}]
    /\ listedAt \in [Runs -> Nat]
    /\ due \in [Runs -> SUBSET Runs]
    /\ spared \in [Runs -> SUBSET Runs]
    /\ returned \subseteq Runs

Init ==
    /\ now = 0
    /\ policy \in [Runs -> [onExit : BOOLEAN, onRead : BOOLEAN]]
    /\ dir = [r \in Runs |-> NoDirectory]
    /\ expires = [r \in Runs |-> 0]
    /\ pc = [r \in Runs |-> "idle"]
    /\ found = [r \in Runs |-> {}]
    /\ target = [r \in Runs |-> NoRun]
    /\ listedAt = [r \in Runs |-> 0]
    /\ due = [r \in Runs |-> {}]
    /\ spared = [r \in Runs |-> {}]
    /\ returned = {}

Goto(r, label) == pc' = [pc EXCEPT ![r] = label]

sweep == <<found, target, listedAt, due, spared>>

Tick ==
    /\ now < MaxTime
    /\ now' = now + 1
    /\ UNCHANGED <<policy, dir, expires, pc, sweep, returned>>

\* Mutant: the time to live is counted backwards.
LeaseEndBefore(t) == t - Ttl * Second

\* The time a lease is issued at has no fraction of a second; the sweep's clock has.
LeaseEnd(t) == t - (t % Second) + Ttl * Second

\* The plan of the run: its lease starts here, before anything is written.
IssueLease(r) ==
    /\ pc[r] = "idle"
    /\ expires' = [expires EXCEPT ![r] = LeaseEnd(now)]
    /\ Goto(r, "list")
    /\ UNCHANGED <<now, policy, dir, sweep, returned>>

-----------------------------------------------------------------------------
(* cleanup_expired_materializations.                                       *)

\* The owner of l is past the point where it writes to l.
NotPreparing(l) == pc[l] \notin {"mkdir", "secret", "chmod", "create", "fill"}

Lapsed(l, t) == dir[l].lease = "written" /\ expires[l] <= t

\* The clock is read, then the parent directory.
ListLeases(r) ==
    /\ pc[r] = "list"
    /\ found' = [found EXCEPT ![r] = {l \in Runs : dir[l].exists}]
    /\ listedAt' = [listedAt EXCEPT ![r] = now]
    /\ due' = [due EXCEPT ![r] =
                {l \in Runs : /\ dir[l].exists
                              /\ NotPreparing(l)
                              /\ dir[l].lease = "written" => Lapsed(l, now)}]
    /\ spared' = [spared EXCEPT ![r] =
                {l \in Runs : dir[l].lease = "written" /\ ~Lapsed(l, now)}]
    /\ Goto(r, "judge")
    /\ UNCHANGED <<now, policy, dir, expires, target, returned>>

\* Mutant: a lease that ends now, and a lease.json that cannot be read, stay.
CondemnedLate(r, l) ==
    \/ dir[l].lease = "absent"
    \/ dir[l].lease = "written" /\ expires[l] < listedAt[r]

\* Mutant: the time a lease was made counts, not the time it ends.
CondemnedOld(r, l) ==
    \/ dir[l].lease # "written"
    \/ expires[l] - Ttl * Second <= listedAt[r]

\* No lease.json, one that cannot be read, or one whose lease has ended.
Condemned(r, l) ==
    \/ dir[l].lease # "written"
    \/ expires[l] <= listedAt[r]

Judge(r) ==
    /\ pc[r] = "judge"
    /\ \E l \in found[r] :
        /\ found' = [found EXCEPT ![r] = @ \ {l}]
        /\ \/ /\ Condemned(r, l)
              /\ target' = [target EXCEPT ![r] = l]
              /\ Goto(r, "unlink")
           \/ /\ ~Condemned(r, l)
              /\ UNCHANGED <<target, pc>>
    /\ UNCHANGED <<now, policy, dir, expires, listedAt, due, spared, returned>>

SweepEnds(r) ==
    /\ pc[r] = "judge"
    /\ found[r] = {}
    /\ Goto(r, "mkdir")
    /\ UNCHANGED <<now, policy, dir, expires, sweep, returned>>

\* shutil.rmtree(ignore_errors=True): unlink what is listed, then rmdir, which
\* does nothing to a directory that has a new file by then.
Unlinked(d) == [d EXCEPT !.secret = FALSE, !.lease = "absent"]

Removed(d) == IF d.secret \/ d.lease # "absent" THEN d ELSE NoDirectory

RmtreeFiles(r) ==
    /\ pc[r] = "unlink"
    /\ dir' = [dir EXCEPT ![target[r]] = Unlinked(@)]
    /\ Goto(r, "rmdir")
    /\ UNCHANGED <<now, policy, expires, sweep, returned>>

RmtreeDirectory(r) ==
    /\ pc[r] = "rmdir"
    /\ dir' = [dir EXCEPT ![target[r]] = Removed(@)]
    /\ target' = [target EXCEPT ![r] = NoRun]
    /\ Goto(r, "judge")
    /\ UNCHANGED <<now, policy, expires, found, listedAt, due, spared, returned>>

-----------------------------------------------------------------------------
(* prepare_materialization_bundle.  Each step can find the directory or the *)
(* file gone; the exception ends the run and what is there stays there.    *)

MakeDirectory(r) ==
    /\ pc[r] = "mkdir"
    /\ dir' = [dir EXCEPT ![r].exists = TRUE]
    /\ Goto(r, "secret")
    /\ UNCHANGED <<now, policy, expires, sweep, returned>>

WriteSecret(r) ==
    /\ pc[r] = "secret"
    /\ dir[r].exists
    /\ dir' = [dir EXCEPT ![r].secret = TRUE]
    /\ Goto(r, "chmod")
    /\ UNCHANGED <<now, policy, expires, sweep, returned>>

ChmodSecret(r) ==
    /\ pc[r] = "chmod"
    /\ dir[r].secret
    /\ Goto(r, "create")
    /\ UNCHANGED <<now, policy, dir, expires, sweep, returned>>

CreateLeaseFile(r) ==
    /\ pc[r] = "create"
    /\ dir[r].exists
    /\ dir' = [dir EXCEPT ![r].lease = "empty"]
    /\ Goto(r, "fill")
    /\ UNCHANGED <<now, policy, expires, sweep, returned>>

\* The write goes to the open file, which may have been unlinked meanwhile.
FillLeaseFile(r) ==
    /\ pc[r] = "fill"
    /\ dir' = [dir EXCEPT ![r].lease = IF @ = "empty" THEN "written" ELSE @]
    /\ Goto(r, "seal")
    /\ UNCHANGED <<now, policy, expires, sweep, returned>>

ChmodLeaseFile(r) ==
    /\ pc[r] = "seal"
    /\ dir[r].lease # "absent"
    /\ Goto(r, "use")
    /\ UNCHANGED <<now, policy, dir, expires, sweep, returned>>

PrepareRaises(r) ==
    /\ \/ pc[r] \in {"secret", "create"} /\ ~dir[r].exists
       \/ pc[r] = "chmod" /\ ~dir[r].secret
       \/ pc[r] = "seal" /\ dir[r].lease = "absent"
    /\ Goto(r, "done")
    /\ UNCHANGED <<now, policy, dir, expires, sweep, returned>>

-----------------------------------------------------------------------------
(* The adapter's turn, and the finally clause of run_governed_execution.   *)

\* Mutant: cleanup on exit only after an adapter that found its secret.
AfterUseIfRead(r) == Goto(r, IF policy[r].onExit /\ dir[r].secret THEN "exit" ELSE "done")

AfterUse(r) == Goto(r, IF policy[r].onExit THEN "exit" ELSE "done")

\* read_materialized_secret_from_context; without the file it raises, which ends
\* the adapter but not the finally clause.
UseSecret(r) ==
    /\ pc[r] = "use"
    /\ dir' = IF policy[r].onRead THEN [dir EXCEPT ![r].secret = FALSE] ELSE dir
    /\ returned' = returned \cup {r}
    /\ AfterUse(r)
    /\ UNCHANGED <<now, policy, expires, sweep>>

\* cleanup_materialization_bundle.
ExitFiles(r) ==
    /\ pc[r] = "exit"
    /\ dir' = [dir EXCEPT ![r] = Unlinked(@)]
    /\ Goto(r, "exitRmdir")
    /\ UNCHANGED <<now, policy, expires, sweep, returned>>

ExitDirectory(r) ==
    /\ pc[r] = "exitRmdir"
    /\ dir' = [dir EXCEPT ![r] = Removed(@)]
    /\ Goto(r, "done")
    /\ UNCHANGED <<now, policy, expires, sweep, returned>>

Crash(r) ==
    /\ pc[r] \notin {"idle", "done", "crashed"}
    /\ Goto(r, "crashed")
    /\ UNCHANGED <<now, policy, dir, expires, sweep, returned>>

Step(r) ==
    \/ ListLeases(r)
    \/ Judge(r)
    \/ SweepEnds(r)
    \/ RmtreeFiles(r)
    \/ RmtreeDirectory(r)
    \/ MakeDirectory(r)
    \/ WriteSecret(r)
    \/ ChmodSecret(r)
    \/ CreateLeaseFile(r)
    \/ FillLeaseFile(r)
    \/ ChmodLeaseFile(r)
    \/ PrepareRaises(r)
    \/ UseSecret(r)
    \/ ExitFiles(r)
    \/ ExitDirectory(r)

Next == Tick \/ \E r \in Runs : IssueLease(r) \/ Step(r) \/ Crash(r)

Spec == Init /\ [][Next]_vars

-----------------------------------------------------------------------------
(* Properties.                                                             *)

\* When a sweep ends, no secret is left of a lease that had ended when it listed
\* the directory, nor of a bundle that a killed or failed run had left incomplete.
SweepRemovesWhatIsDue ==
    \A r \in Runs : pc[r] = "judge" /\ found[r] = {} => \A l \in due[r] : ~dir[l].secret

\* A sweep removes no file of a bundle that was complete, its lease running, when
\* the sweep listed the directory (its owner, or a sweep that listed it earlier, may
\* have emptied it since): only bundles in preparation are at risk.
SweepSparesCompleteBundles ==
    \A r \in Runs : pc[r] = "unlink" /\ target[r] \in spared[r] =>
        ~dir[target[r]].secret /\ dir[target[r]].lease = "absent"

\* A run whose adapter was called and that is to clean up on exit leaves no lease
\* directory behind, also if a sweep of another run works on the same directory.
ExitLeavesNothing ==
    \A r \in returned : pc[r] = "done" /\ policy[r].onExit => dir[r] = NoDirectory

Holds(d) == CASE ~d.exists                       -> "none"
              [] d.exists /\ d.lease # "written" -> "partial"
              [] d.exists /\ d.lease = "written" -> "ready"

StageAt(label) ==
    CASE label \in {"idle", "list", "judge", "unlink", "rmdir", "mkdir"} -> "planning"
      [] label \in {"secret", "chmod", "create", "fill", "seal"}         -> "preparing"
      [] label \in {"use", "exit", "exitRmdir"}                          -> "using"
      [] label = "done"                                                  -> "over"
      [] label = "crashed"                                               -> "killed"

Stages  == [r \in Runs |-> StageAt(pc[r])]
Bundles == [r \in Runs |-> Holds(dir[r])]
Tidy    == {r \in Runs : policy[r].onExit}
Doomed  == {l \in Runs : \E r \in Runs : pc[r] \in {"unlink", "rmdir"} /\ target[r] = l}

Leases == INSTANCE LeaseDirectories WITH
    time <- now, stage <- Stages, bundle <- Bundles, leaseEnd <- expires,
    tidy <- Tidy, condemned <- Doomed

\* File operation by file operation, preparing, sweeping and cleaning up implement what runs
\* promise each other: in particular, no complete bundle dwindles whose lease still runs,
\* unless it was condemned before it was complete; a run that comes back from its
\* adapter ends with its bundle as it is to be left.
ImplementsLeaseDirectories == Leases!LeaseSpec

=============================================================================
