----------------------- MODULE MaterializationProofs -----------------------
(***************************************************************************)
(* For any number of runs that sweep, prepare and clean up in one parent   *)
(* directory, whatever is killed or fails: a sweep removes what was due    *)
(* when it listed the directory, it takes no file of a bundle that was     *)
(* complete and running, and a run that cleans up on exit leaves nothing.  *)
(*                                                                         *)
(* None of the three is inductive.  They rest on one asymmetry: once its   *)
(* owner has written lease.json, a lease directory only loses files, so    *)
(* what a sweep knew of it when it listed it stays true.                   *)
(*                                                                         *)
(* From this it follows that the file operations, in whatever order they   *)
(* interleave, implement LeaseDirectories.                                 *)
(***************************************************************************)
EXTENDS Materialization, TLAPS

\* Where a run does not write to its lease directory any more.
Late == {"seal", "use", "exit", "exitRmdir", "done", "crashed"}

\* Where it has not written to it yet.
Before == {"idle", "list", "judge", "unlink", "rmdir", "mkdir"}

Sweeping == {"judge", "unlink", "rmdir"}

Returned == {"exit", "exitRmdir", "done", "crashed"}

\* A lease directory is there only after its owner has made it, and is complete only
\* after its owner has written all of it.
Placed(l) ==
    /\ dir[l].exists => pc[l] \notin Before
    /\ dir[l].lease = "written" => pc[l] \in Late

\* What a sweep has found to be running stays complete, or is emptied as a whole.
Spares(r) ==
    \A l \in spared[r] :
        /\ expires[l] > listedAt[r]
        /\ pc[l] \in Late
        /\ dir[l].lease = "written" \/ (dir[l].lease = "absent" /\ ~dir[l].secret)
        /\ pc[r] = "unlink" /\ target[r] = l => dir[l].lease = "absent"

\* What a sweep has found to be due stays due until its secret is gone.
Removes(r) ==
    \A l \in due[r] :
        /\ pc[l] \in Late
        /\ dir[l].lease = "written" => expires[l] <= listedAt[r]
        /\ pc[r] \in Sweeping =>
             l \in found[r] \/ ~dir[l].secret \/ (pc[r] = "unlink" /\ target[r] = l)

\* A run that has come back from its adapter cleans up, or has.
CleansUp(r) ==
    /\ r \in returned => pc[r] \in Returned
    /\ pc[r] = "exitRmdir" => ~dir[r].secret /\ dir[r].lease = "absent"
    /\ r \in returned /\ pc[r] = "done" /\ policy[r].onExit => dir[r] = NoDirectory

IInv ==
    /\ TypeOK
    /\ \A l \in Runs : Placed(l)
    /\ \A r \in Runs : Spares(r) /\ Removes(r) /\ CleansUp(r)

-----------------------------------------------------------------------------
\* A lease lasts a second at least, so it is not over when it is issued, although its
\* time of issue is rounded down.
LEMMA LeaseEndLater ==
    ASSUME NEW t \in Nat
    PROVE  LeaseEnd(t) \in Nat /\ LeaseEnd(t) > t
<1>1. Ttl * Second \in Nat /\ Ttl * Second >= Second
  BY ConstantsAssumption
<1>2. t % Second \in 0 .. (Second - 1) /\ t % Second <= t
  BY ConstantsAssumption
<1>. QED  BY <1>1, <1>2, ConstantsAssumption DEF LeaseEnd

LEMMA InitInv ==
    ASSUME Init
    PROVE  IInv
  BY DEF Init, IInv, TypeOK, Directory, NoDirectory, Labels, Placed, Spares, Removes,
         CleansUp, Sweeping, Before

\* A directory stays one when files are removed.
LEMMA DirectoryClosed ==
    /\ NoDirectory \in Directory
    /\ \A d \in Directory :
         /\ Unlinked(d) \in Directory
         /\ Removed(d) \in Directory
         /\ Unlinked(d).exists = d.exists /\ ~Unlinked(d).secret /\ Unlinked(d).lease = "absent"
         /\ Removed(d) = d \/ Removed(d) = NoDirectory
         /\ ~d.secret /\ d.lease = "absent" => Removed(d) = NoDirectory
    /\ Unlinked(NoDirectory) = NoDirectory
    /\ Removed(NoDirectory) = NoDirectory
<1>1. NoDirectory \in Directory
  BY DEF Directory, NoDirectory
<1>2. ASSUME NEW d \in Directory
      PROVE  /\ Unlinked(d) \in Directory
             /\ Unlinked(d).exists = d.exists /\ ~Unlinked(d).secret /\ Unlinked(d).lease = "absent"
  BY DEF Directory, Unlinked
<1>3. Unlinked(NoDirectory) = NoDirectory
  <2>1. ASSUME NEW d \in Directory, d.secret = FALSE, d.lease = "absent"
        PROVE  [d EXCEPT !.secret = FALSE, !.lease = "absent"] = d
    BY <2>1 DEF Directory
  <2>2. NoDirectory.secret = FALSE /\ NoDirectory.lease = "absent"
    BY DEF NoDirectory
  <2>. QED  BY <1>1, <2>1, <2>2 DEF Unlinked
<1>4. ASSUME NEW d
      PROVE  /\ Removed(d) = d \/ Removed(d) = NoDirectory
             /\ ~d.secret /\ d.lease = "absent" => Removed(d) = NoDirectory
  BY DEF Removed
<1>5. Removed(NoDirectory) = NoDirectory
  BY DEF Removed
<1>6. ASSUME NEW d \in Directory
      PROVE  Removed(d) \in Directory
  BY <1>1, <1>4
<1>. QED  BY <1>1, <1>2, <1>3, <1>4, <1>5, <1>6

LEMMA TypeKept ==
    ASSUME TypeOK, [Next]_vars
    PROVE  TypeOK'
<1>1. CASE Tick
  BY <1>1 DEF Tick, TypeOK, sweep
<1>2. CASE UNCHANGED vars
  BY <1>2 DEF vars, TypeOK
<1>3. ASSUME NEW r \in Runs, Step(r) \/ IssueLease(r) \/ Crash(r)
      PROVE  pc' \in [Runs -> Labels]
  <2>1. \A label \in Labels : Goto(r, label) => pc' \in [Runs -> Labels]
    BY DEF Goto, TypeOK
  <2>2. CASE Judge(r)
    BY <2>1, <2>2 DEF Judge, TypeOK, Labels
  <2>3. CASE UseSecret(r)
    BY <2>1, <2>3 DEF UseSecret, AfterUse, Labels
  <2>4. CASE IssueLease(r) \/ ListLeases(r) \/ SweepEnds(r) \/ RmtreeFiles(r) \/ RmtreeDirectory(r)
    BY <2>1, <2>4 DEF IssueLease, ListLeases, SweepEnds, RmtreeFiles, RmtreeDirectory, Labels
  <2>5. CASE \/ MakeDirectory(r) \/ WriteSecret(r) \/ ChmodSecret(r) \/ CreateLeaseFile(r)
             \/ FillLeaseFile(r) \/ ChmodLeaseFile(r) \/ PrepareRaises(r)
    BY <2>1, <2>5 DEF MakeDirectory, WriteSecret, ChmodSecret, CreateLeaseFile, FillLeaseFile,
                      ChmodLeaseFile, PrepareRaises, Labels
  <2>6. CASE ExitFiles(r) \/ ExitDirectory(r) \/ Crash(r)
    BY <2>1, <2>6 DEF ExitFiles, ExitDirectory, Crash, Labels
  <2>. QED  BY <1>3, <2>2, <2>3, <2>4, <2>5, <2>6 DEF Step
<1>4. ASSUME NEW r \in Runs, Step(r) \/ IssueLease(r) \/ Crash(r)
      PROVE  dir' \in [Runs -> Directory]
  <2> dir \in [Runs -> Directory]
    BY DEF TypeOK
  <2>1. CASE RmtreeFiles(r) \/ RmtreeDirectory(r)
    <3>1. PICK l : dir' = [dir EXCEPT ![l] = Unlinked(dir[l])] \/ dir' = [dir EXCEPT ![l] = Removed(dir[l])]
      BY <2>1 DEF RmtreeFiles, RmtreeDirectory
    <3>. QED  BY <3>1, DirectoryClosed
  <2>2. CASE ExitFiles(r) \/ ExitDirectory(r)
    <3>1. dir' = [dir EXCEPT ![r] = Unlinked(dir[r])] \/ dir' = [dir EXCEPT ![r] = Removed(dir[r])]
      BY <2>2 DEF ExitFiles, ExitDirectory
    <3>. QED  BY <3>1, DirectoryClosed
  <2>3. CASE MakeDirectory(r) \/ WriteSecret(r)
    <3>1. PICK made \in {"exists", "secret"} : dir' = [dir EXCEPT ![r] = [@ EXCEPT ![made] = TRUE]]
      BY <2>3 DEF MakeDirectory, WriteSecret
    <3>2. [dir[r] EXCEPT ![made] = TRUE] \in Directory
      BY DEF TypeOK, Directory
    <3>. QED  BY <3>1, <3>2 DEF TypeOK
  <2>4. CASE CreateLeaseFile(r)
    BY <2>4 DEF CreateLeaseFile, TypeOK, Directory
  <2>5. CASE FillLeaseFile(r)
    BY <2>5, ZenonT(60) DEF FillLeaseFile, TypeOK, Directory
  <2>6. CASE UseSecret(r)
    BY <2>6 DEF UseSecret, TypeOK, Directory
  <2>7. CASE UNCHANGED dir
    BY <2>7 DEF TypeOK
  <2>. QED  BY <1>4, <2>1, <2>2, <2>3, <2>4, <2>5, <2>6, <2>7
            DEF Step, IssueLease, Crash, ListLeases, Judge, SweepEnds, ChmodSecret,
                ChmodLeaseFile, PrepareRaises
<1>5. ASSUME NEW r \in Runs, Step(r) \/ IssueLease(r) \/ Crash(r)
      PROVE  /\ now' = now /\ policy' = policy
             /\ expires' \in [Runs -> Nat]
             /\ returned' \subseteq Runs
  <2>1. CASE IssueLease(r)
    BY <2>1, LeaseEndLater DEF IssueLease, TypeOK
  <2>2. CASE Step(r) \/ Crash(r)
    BY <2>2 DEF Step, Crash, ListLeases, Judge, SweepEnds, RmtreeFiles, RmtreeDirectory,
                MakeDirectory, WriteSecret, ChmodSecret, CreateLeaseFile, FillLeaseFile,
                ChmodLeaseFile, PrepareRaises, UseSecret, ExitFiles, ExitDirectory, TypeOK
  <2>. QED  BY <1>5, <2>1, <2>2
<1>6. ASSUME NEW r \in Runs, Step(r) \/ IssueLease(r) \/ Crash(r)
      PROVE  /\ found' \in [Runs -> SUBSET Runs]
             /\ target' \in [Runs -> Runs \cup {NoRun}]
             /\ listedAt' \in [Runs -> Nat]
             /\ due' \in [Runs -> SUBSET Runs]
             /\ spared' \in [Runs -> SUBSET Runs]
  <2>1. CASE ListLeases(r)
    BY <2>1 DEF ListLeases, TypeOK
  <2>2. CASE Judge(r)
    BY <2>2 DEF Judge, TypeOK
  <2>3. CASE RmtreeDirectory(r)
    BY <2>3 DEF RmtreeDirectory, TypeOK
  <2>4. CASE UNCHANGED sweep
    BY <2>4 DEF sweep, TypeOK
  <2>. QED  BY <1>6, <2>1, <2>2, <2>3, <2>4
            DEF Step, IssueLease, Crash, SweepEnds, RmtreeFiles, MakeDirectory, WriteSecret,
                ChmodSecret, CreateLeaseFile, FillLeaseFile, ChmodLeaseFile, PrepareRaises,
                UseSecret, ExitFiles, ExitDirectory
<1>7. ASSUME NEW r \in Runs, Step(r) \/ IssueLease(r) \/ Crash(r)
      PROVE  TypeOK'
  BY <1>3, <1>4, <1>5, <1>6, <1>7 DEF TypeOK
<1>. QED  BY <1>1, <1>2, <1>7 DEF Next

\* How a step changes a lease directory: its owner writes to it, or files are taken out.
Loses(d, e) ==
    /\ e.exists => d.exists
    /\ e.secret => d.secret
    /\ e.lease = d.lease \/ (e.lease = "absent" /\ ~e.secret)
    /\ d = NoDirectory => e = NoDirectory

Writes(r) ==
    MakeDirectory(r) \/ WriteSecret(r) \/ CreateLeaseFile(r) \/ FillLeaseFile(r)

\* Every file that is taken out of a directory is only taken out of it.
LEMMA LosingIsLosing ==
    ASSUME NEW d \in Directory
    PROVE  /\ Loses(d, d)
           /\ Loses(d, Unlinked(d))
           /\ Loses(d, Removed(d))
           /\ Loses(d, [d EXCEPT !.secret = FALSE])
           /\ NoDirectory.lease = "absent" /\ ~NoDirectory.secret /\ ~NoDirectory.exists
<1>1. NoDirectory.lease = "absent" /\ NoDirectory.secret = FALSE /\ NoDirectory.exists = FALSE
  BY DEF NoDirectory
<1>2. Loses(d, d)
  BY DEF Loses
<1>3. Loses(d, Unlinked(d))
  BY DirectoryClosed DEF Loses
<1>4. Loses(d, Removed(d))
  BY <1>1, <1>2, DirectoryClosed DEF Loses, Removed
<1>5. Loses(d, [d EXCEPT !.secret = FALSE])
  <2>1. /\ [d EXCEPT !.secret = FALSE].exists = d.exists
        /\ [d EXCEPT !.secret = FALSE].secret = FALSE
        /\ [d EXCEPT !.secret = FALSE].lease = d.lease
    BY DEF Directory
  <2>2. d = NoDirectory => [d EXCEPT !.secret = FALSE] = NoDirectory
    <3>1. ASSUME d.secret = FALSE
          PROVE  [d EXCEPT !.secret = FALSE] = d
      BY <3>1 DEF Directory
    <3>. QED  BY <1>1, <3>1
  <2>. QED  BY <2>1, <2>2 DEF Loses
<1>. QED  BY <1>1, <1>2, <1>3, <1>4, <1>5

\* Only the owner of a lease directory writes to it; what else a step does to it.
LEMMA DirectoryMoves ==
    ASSUME TypeOK, [Next]_vars, NEW l \in Runs
    PROVE  \/ Writes(l)
           \/ dir'[l] = dir[l]
           \/ dir'[l] = Unlinked(dir[l])
           \/ dir'[l] = Removed(dir[l])
           \/ dir'[l] = [dir[l] EXCEPT !.secret = FALSE]
<1> SUFFICES ASSUME ~Writes(l), dir'[l] # dir[l]
             PROVE  \/ dir'[l] = Unlinked(dir[l])
                    \/ dir'[l] = Removed(dir[l])
                    \/ dir'[l] = [dir[l] EXCEPT !.secret = FALSE]
  OBVIOUS
<1>1. ASSUME NEW r \in Runs, RmtreeFiles(r) \/ ExitFiles(r)
      PROVE  dir'[l] = Unlinked(dir[l])
  <2>1. PICK m : dir' = [dir EXCEPT ![m] = Unlinked(@)]
    BY <1>1 DEF RmtreeFiles, ExitFiles
  <2>. QED  BY <2>1 DEF TypeOK
<1>2. ASSUME NEW r \in Runs, RmtreeDirectory(r) \/ ExitDirectory(r)
      PROVE  dir'[l] = Removed(dir[l])
  <2>1. PICK m : dir' = [dir EXCEPT ![m] = Removed(@)]
    BY <1>2 DEF RmtreeDirectory, ExitDirectory
  <2>. QED  BY <2>1 DEF TypeOK
<1>3. ASSUME NEW r \in Runs, UseSecret(r)
      PROVE  dir'[l] = [dir[l] EXCEPT !.secret = FALSE]
  <2>1. dir' = dir \/ dir' = [dir EXCEPT ![r].secret = FALSE]
    BY <1>3 DEF UseSecret
  <2>. QED  BY <2>1 DEF TypeOK
<1>4. ASSUME NEW r \in Runs, Writes(r)
      PROVE  FALSE
  <2>1. l # r
    BY <1>4
  <2>. QED  BY <1>4, <2>1 DEF Writes, MakeDirectory, WriteSecret, CreateLeaseFile, FillLeaseFile, TypeOK
<1>5. ~UNCHANGED dir
  OBVIOUS
<1>. QED  BY <1>1, <1>2, <1>3, <1>4, <1>5
          DEF Next, Step, Writes, Tick, IssueLease, Crash, ListLeases, Judge, SweepEnds,
              ChmodSecret, ChmodLeaseFile, PrepareRaises, vars

LEMMA OnlyLoses ==
    ASSUME TypeOK, [Next]_vars, NEW l \in Runs
    PROVE  Writes(l) \/ Loses(dir[l], dir'[l])
<1>1. dir[l] \in Directory
  BY DEF TypeOK
<1>. QED  BY <1>1, DirectoryMoves, LosingIsLosing

\* What a step of one run leaves alone of another.
LEMMA OthersStay ==
    ASSUME TypeOK, [Next]_vars, NEW l \in Runs, ~(Step(l) \/ IssueLease(l) \/ Crash(l))
    PROVE  /\ pc'[l] = pc[l] /\ expires'[l] = expires[l] /\ (l \in returned' => l \in returned)
           /\ found'[l] = found[l] /\ target'[l] = target[l]
           /\ listedAt'[l] = listedAt[l] /\ due'[l] = due[l] /\ spared'[l] = spared[l]
<1>1. ASSUME NEW r \in Runs, Step(r) \/ IssueLease(r) \/ Crash(r)
      PROVE  /\ pc'[l] = pc[l]
             /\ expires'[l] = expires[l]
             /\ l \in returned' => l \in returned
  <2>1. r # l
    BY <1>1
  <2>2. \A label : Goto(r, label) => pc'[l] = pc[l]
    BY <2>1 DEF Goto, TypeOK
  <2>3. pc'[l] = pc[l]
    BY <1>1, <2>2
       DEF Step, IssueLease, Crash, ListLeases, Judge, SweepEnds, RmtreeFiles,
           RmtreeDirectory, MakeDirectory, WriteSecret, ChmodSecret, CreateLeaseFile,
           FillLeaseFile, ChmodLeaseFile, PrepareRaises, UseSecret, AfterUse, ExitFiles,
           ExitDirectory
  <2>. QED  BY <1>1, <2>1, <2>3
       DEF Step, IssueLease, Crash, ListLeases, Judge, SweepEnds, RmtreeFiles,
           RmtreeDirectory, MakeDirectory, WriteSecret, ChmodSecret, CreateLeaseFile,
           FillLeaseFile, ChmodLeaseFile, PrepareRaises, UseSecret, ExitFiles,
           ExitDirectory, TypeOK
<1>2. ASSUME NEW r \in Runs, Step(r) \/ IssueLease(r) \/ Crash(r)
      PROVE  /\ found'[l] = found[l] /\ target'[l] = target[l]
             /\ listedAt'[l] = listedAt[l] /\ due'[l] = due[l] /\ spared'[l] = spared[l]
  <2>1. r # l
    BY <1>2
  <2>. QED  BY <1>2, <2>1
       DEF Step, IssueLease, Crash, ListLeases, Judge, SweepEnds, RmtreeFiles,
           RmtreeDirectory, MakeDirectory, WriteSecret, ChmodSecret, CreateLeaseFile,
           FillLeaseFile, ChmodLeaseFile, PrepareRaises, UseSecret, ExitFiles,
           ExitDirectory, TypeOK, sweep
<1>. QED  BY <1>1, <1>2 DEF Next, Tick, vars, sweep

\* Where a step takes a run, and when.
LEMMA PcMoves ==
    ASSUME TypeOK, [Next]_vars, NEW l \in Runs
    PROVE  /\ pc[l] \in Late => pc'[l] \in Late /\ ~Writes(l)
           /\ pc[l] \notin Before => pc'[l] \notin Before
           /\ pc[l] # "idle" => expires'[l] = expires[l]
           /\ pc[l] \in Returned => pc'[l] \in Returned
           /\ pc'[l] = "exitRmdir" => pc[l] = "exitRmdir" \/ ExitFiles(l)
           /\ pc'[l] = "done" => pc[l] \in {"done"} \cup (Labels \ Returned) \/ ExitDirectory(l)
           /\ l \in returned' => l \in returned \/ UseSecret(l)
           /\ UseSecret(l) => pc'[l] = IF policy[l].onExit THEN "exit" ELSE "done"
           /\ policy' = policy
<1>1. pc[l] \in Labels
  BY DEF TypeOK
<1>2. \A label : Goto(l, label) => pc'[l] = label
  BY DEF Goto, TypeOK
<1>3. policy' = policy
  BY DEF Next, Tick, vars, Step, IssueLease, Crash, ListLeases, Judge, SweepEnds, RmtreeFiles,
         RmtreeDirectory, MakeDirectory, WriteSecret, ChmodSecret, CreateLeaseFile,
         FillLeaseFile, ChmodLeaseFile, PrepareRaises, UseSecret, ExitFiles, ExitDirectory
<1>4. CASE ~(Step(l) \/ IssueLease(l) \/ Crash(l))
  BY <1>1, <1>3, <1>4, OthersStay DEF Step, Writes
<1>5. CASE Step(l) \/ IssueLease(l) \/ Crash(l)
  <2>1. pc[l] # "idle" => expires'[l] = expires[l]
    BY <1>5 DEF Step, IssueLease, Crash, ListLeases, Judge, SweepEnds, RmtreeFiles,
                RmtreeDirectory, MakeDirectory, WriteSecret, ChmodSecret, CreateLeaseFile,
                FillLeaseFile, ChmodLeaseFile, PrepareRaises, UseSecret, ExitFiles,
                ExitDirectory
  <2>2. /\ pc[l] \in Late => pc'[l] \in Late
        /\ pc[l] \notin Before => pc'[l] \notin Before
        /\ pc[l] \in Returned => pc'[l] \in Returned
        /\ UseSecret(l) => pc'[l] = IF policy[l].onExit THEN "exit" ELSE "done"
    BY <1>2, <1>5
       DEF Late, Before, Returned, Step, IssueLease, Crash, ListLeases, Judge, SweepEnds,
           RmtreeFiles, RmtreeDirectory, MakeDirectory, WriteSecret, ChmodSecret,
           CreateLeaseFile, FillLeaseFile, ChmodLeaseFile, PrepareRaises, UseSecret, AfterUse,
           ExitFiles, ExitDirectory
  <2>3. /\ pc'[l] = "exitRmdir" => pc[l] = "exitRmdir" \/ ExitFiles(l)
        /\ pc'[l] = "done" => pc[l] \notin Returned \/ ExitDirectory(l)
    BY <1>2, <1>5
       DEF Returned, Step, IssueLease, Crash, ListLeases, Judge, SweepEnds,
           RmtreeFiles, RmtreeDirectory, MakeDirectory, WriteSecret, ChmodSecret,
           CreateLeaseFile, FillLeaseFile, ChmodLeaseFile, PrepareRaises, UseSecret, AfterUse,
           ExitFiles, ExitDirectory
  <2>4. l \in returned' => l \in returned \/ UseSecret(l)
    BY <1>5 DEF Step, IssueLease, Crash, ListLeases, Judge, SweepEnds, RmtreeFiles,
                RmtreeDirectory, MakeDirectory, WriteSecret, ChmodSecret, CreateLeaseFile,
                FillLeaseFile, ChmodLeaseFile, PrepareRaises, ExitFiles, ExitDirectory
  <2>5. pc[l] \in Late => ~Writes(l)
    BY DEF Writes, MakeDirectory, WriteSecret, CreateLeaseFile, FillLeaseFile, Late
  <2>. QED  BY <1>1, <1>3, <2>1, <2>2, <2>3, <2>4, <2>5
<1>. QED  BY <1>4, <1>5

\* What a step does to the sweep of a run, unless it begins one.
LEMMA SweepMoves ==
    ASSUME TypeOK, [Next]_vars, NEW r \in Runs, ~ListLeases(r)
    PROVE  /\ spared'[r] = spared[r] /\ due'[r] = due[r] /\ listedAt'[r] = listedAt[r]
           /\ pc'[r] \in Sweeping => pc[r] \in Sweeping
           /\ ~Judge(r) =>
                /\ found'[r] = found[r]
                /\ pc'[r] = "unlink" => pc[r] = "unlink" /\ target'[r] = target[r]
                /\ pc[r] = "unlink" /\ pc'[r] \in Sweeping =>
                     RmtreeFiles(r) \/ (pc'[r] = "unlink" /\ target'[r] = target[r])
           /\ Judge(r) =>
                \E l \in found[r] :
                   /\ found'[r] = found[r] \ {l}
                   /\ pc[r] = "judge"
                   /\ \/ Condemned(r, l) /\ target'[r] = l /\ pc'[r] = "unlink"
                      \/ ~Condemned(r, l) /\ pc'[r] = "judge"
<1>1. CASE ~(Step(r) \/ IssueLease(r) \/ Crash(r))
  BY <1>1, OthersStay DEF Step
<1>2. CASE Judge(r)
  BY <1>2 DEF Judge, Goto, Sweeping, TypeOK
<1>3. CASE (Step(r) \/ IssueLease(r) \/ Crash(r)) /\ ~Judge(r)
  <2>1. \A label : Goto(r, label) => pc'[r] = label
    BY DEF Goto, TypeOK
  <2>2. spared'[r] = spared[r] /\ due'[r] = due[r] /\ listedAt'[r] = listedAt[r] /\ found'[r] = found[r]
    BY <1>3
       DEF Step, IssueLease, Crash, SweepEnds, RmtreeFiles, RmtreeDirectory, MakeDirectory,
           WriteSecret, ChmodSecret, CreateLeaseFile, FillLeaseFile, ChmodLeaseFile,
           PrepareRaises, UseSecret, ExitFiles, ExitDirectory, sweep
  <2>3. /\ pc'[r] \in Sweeping => pc[r] \in Sweeping
        /\ pc'[r] # "unlink"
        /\ pc[r] = "unlink" /\ pc'[r] \in Sweeping => RmtreeFiles(r)
    BY <1>3, <2>1
       DEF Sweeping, Step, IssueLease, Crash, SweepEnds, RmtreeFiles, RmtreeDirectory,
           MakeDirectory, WriteSecret, ChmodSecret, CreateLeaseFile, FillLeaseFile,
           ChmodLeaseFile, PrepareRaises, UseSecret, AfterUse, ExitFiles, ExitDirectory
  <2>. QED  BY <1>3, <2>2, <2>3
<1>. QED  BY <1>1, <1>2, <1>3

-----------------------------------------------------------------------------
LEMMA PlacedKept ==
    ASSUME IInv, [Next]_vars, NEW l \in Runs
    PROVE  Placed(l)'
<1>1. TypeOK /\ Placed(l)
  BY DEF IInv
<1>2. CASE Writes(l)
  <2>1. \A label : Goto(l, label) => pc'[l] = label
    BY <1>1 DEF Goto, TypeOK
  <2>2. pc'[l] \in {"secret", "chmod", "fill", "seal"}
    BY <1>2, <2>1 DEF Writes, MakeDirectory, WriteSecret, CreateLeaseFile, FillLeaseFile
  <2>3. dir'[l].lease = "written" => FillLeaseFile(l) \/ dir[l].lease = "written"
    BY <1>1, <1>2 DEF Writes, MakeDirectory, WriteSecret, CreateLeaseFile, FillLeaseFile, TypeOK, Directory
  <2>4. pc[l] \notin Late
    BY <1>1, <1>2, PcMoves
  <2>5. FillLeaseFile(l) => pc'[l] = "seal"
    BY <2>1 DEF FillLeaseFile
  <2>. QED  BY <1>1, <2>2, <2>3, <2>4, <2>5 DEF Placed, Before, Late
<1>3. CASE ~Writes(l)
  BY <1>1, <1>3, OnlyLoses, PcMoves DEF Placed, Loses
<1>. QED  BY <1>2, <1>3

LEMMA SparesKept ==
    ASSUME IInv, [Next]_vars, NEW r \in Runs
    PROVE  Spares(r)'
<1>1. TypeOK /\ Spares(r) /\ \A l \in Runs : Placed(l)
  BY DEF IInv
<1>2. CASE ListLeases(r)
  <2>1. /\ listedAt'[r] = now
        /\ spared'[r] = {l \in Runs : dir[l].lease = "written" /\ ~Lapsed(l, now)}
        /\ pc'[r] = "judge"
        /\ UNCHANGED <<dir, expires>>
    BY <1>1, <1>2 DEF ListLeases, Goto, TypeOK
  <2>2. ASSUME NEW l \in spared'[r]
        PROVE  l \in Runs /\ dir[l].lease = "written" /\ expires[l] > now /\ pc'[l] \in Late
    <3>1. l \in Runs /\ dir[l].lease = "written" /\ ~(expires[l] <= now)
      BY <2>1, <2>2 DEF Lapsed
    <3>2. pc[l] \in Late
      BY <1>1, <3>1 DEF Placed
    <3>. QED  BY <1>1, <3>1, <3>2, PcMoves DEF TypeOK
  <2>. QED  BY <2>1, <2>2 DEF Spares
<1>3. CASE ~ListLeases(r)
  <2> SUFFICES ASSUME NEW l \in spared'[r]
               PROVE  /\ expires'[l] > listedAt'[r]
                      /\ pc'[l] \in Late
                      /\ dir'[l].lease = "written" \/ (dir'[l].lease = "absent" /\ ~dir'[l].secret)
                      /\ pc'[r] = "unlink" /\ target'[r] = l => dir'[l].lease = "absent"
    BY DEF Spares
  <2>1. l \in spared[r] /\ l \in Runs /\ listedAt'[r] = listedAt[r]
    BY <1>1, <1>3, SweepMoves DEF TypeOK
  <2>2. /\ expires[l] > listedAt[r]
        /\ pc[l] \in Late
        /\ dir[l].lease = "written" \/ (dir[l].lease = "absent" /\ ~dir[l].secret)
        /\ pc[r] = "unlink" /\ target[r] = l => dir[l].lease = "absent"
    BY <1>1, <2>1 DEF Spares
  <2>3. pc'[l] \in Late /\ expires'[l] = expires[l] /\ Loses(dir[l], dir'[l])
    BY <1>1, <2>1, <2>2, PcMoves, OnlyLoses DEF Late
  <2>4. CASE Judge(r)
    <3>1. pc'[r] = "unlink" /\ target'[r] = l => Condemned(r, l)
      BY <1>1, <1>3, <2>4, SweepMoves
    <3>2. Condemned(r, l) => dir[l].lease # "written"
      BY <1>1, <2>1, <2>2 DEF Condemned, TypeOK
    <3>. QED  BY <2>1, <2>2, <2>3, <3>1, <3>2 DEF Loses
  <2>5. CASE ~Judge(r)
    <3>1. pc'[r] = "unlink" => pc[r] = "unlink" /\ target'[r] = target[r]
      BY <1>1, <1>3, <2>5, SweepMoves
    <3>. QED  BY <2>1, <2>2, <2>3, <3>1 DEF Loses
  <2>. QED  BY <2>4, <2>5
<1>. QED  BY <1>2, <1>3

LEMMA RemovesKept ==
    ASSUME IInv, [Next]_vars, NEW r \in Runs
    PROVE  Removes(r)'
<1>1. TypeOK /\ Removes(r) /\ \A l \in Runs : Placed(l)
  BY DEF IInv
<1>2. CASE ListLeases(r)
  <2>1. /\ listedAt'[r] = now
        /\ found'[r] = {l \in Runs : dir[l].exists}
        /\ due'[r] = {l \in Runs : /\ dir[l].exists
                                   /\ NotPreparing(l)
                                   /\ dir[l].lease = "written" => Lapsed(l, now)}
        /\ UNCHANGED <<dir, expires>>
    BY <1>1, <1>2 DEF ListLeases, TypeOK
  <2>2. ASSUME NEW l \in due'[r]
        PROVE  /\ l \in Runs /\ dir[l].exists
               /\ dir[l].lease = "written" => expires[l] <= now
               /\ pc'[l] \in Late
    <3>1. l \in Runs /\ dir[l].exists /\ NotPreparing(l) /\ (dir[l].lease = "written" => expires[l] <= now)
      BY <2>1, <2>2 DEF Lapsed
    <3>2. pc[l] \in Labels \ Before
      BY <1>1, <3>1 DEF Placed, TypeOK
    <3>3. pc[l] \in Late
      BY <3>1, <3>2 DEF Labels, Before, NotPreparing, Late
    <3>. QED  BY <1>1, <3>1, <3>3, PcMoves
  <2>. QED  BY <2>1, <2>2 DEF Removes
<1>3. CASE ~ListLeases(r)
  <2> SUFFICES ASSUME NEW l \in due'[r]
               PROVE  /\ pc'[l] \in Late
                      /\ dir'[l].lease = "written" => expires'[l] <= listedAt'[r]
                      /\ pc'[r] \in Sweeping =>
                           l \in found'[r] \/ ~dir'[l].secret \/ (pc'[r] = "unlink" /\ target'[r] = l)
    BY DEF Removes
  <2>1. l \in due[r] /\ l \in Runs /\ listedAt'[r] = listedAt[r]
    BY <1>1, <1>3, SweepMoves DEF TypeOK
  <2>2. /\ pc[l] \in Late
        /\ dir[l].lease = "written" => expires[l] <= listedAt[r]
        /\ pc[r] \in Sweeping =>
             l \in found[r] \/ ~dir[l].secret \/ (pc[r] = "unlink" /\ target[r] = l)
    BY <1>1, <2>1 DEF Removes
  <2>3. pc'[l] \in Late /\ expires'[l] = expires[l] /\ Loses(dir[l], dir'[l])
    BY <1>1, <2>1, <2>2, PcMoves, OnlyLoses DEF Late
  <2>4. pc'[r] \in Sweeping => pc[r] \in Sweeping
    BY <1>1, <1>3, SweepMoves
  <2>5. CASE Judge(r)
    <3>1. PICK m \in found[r] :
            /\ found'[r] = found[r] \ {m}
            /\ pc[r] = "judge"
            /\ \/ Condemned(r, m) /\ target'[r] = m /\ pc'[r] = "unlink"
               \/ ~Condemned(r, m) /\ pc'[r] = "judge"
      BY <1>1, <1>3, <2>5, SweepMoves
    <3>2. Condemned(r, l)
      BY <2>2 DEF Condemned
    <3>. QED  BY <2>1, <2>2, <2>3, <3>1, <3>2 DEF Loses, Sweeping
  <2>6. CASE ~Judge(r)
    <3>1. /\ found'[r] = found[r]
          /\ pc[r] = "unlink" /\ pc'[r] \in Sweeping =>
               RmtreeFiles(r) \/ (pc'[r] = "unlink" /\ target'[r] = target[r])
      BY <1>1, <1>3, <2>6, SweepMoves
    <3>2. RmtreeFiles(r) /\ target[r] = l => ~dir'[l].secret
      BY <1>1, <2>1, DirectoryClosed DEF RmtreeFiles, TypeOK
    <3>. QED  BY <2>1, <2>2, <2>3, <2>4, <3>1, <3>2 DEF Loses, Sweeping
  <2>. QED  BY <2>5, <2>6
<1>. QED  BY <1>2, <1>3

LEMMA CleansUpKept ==
    ASSUME IInv, [Next]_vars, NEW r \in Runs
    PROVE  CleansUp(r)'
<1>1. TypeOK /\ CleansUp(r) /\ dir[r] \in Directory
  BY DEF IInv, TypeOK
<1>2. Writes(r) => pc[r] \notin Late
  BY <1>1, PcMoves
<1>3. r \in returned' => pc'[r] \in Returned
  BY <1>1, PcMoves DEF CleansUp, Returned
<1>4. pc'[r] = "exitRmdir" => ~dir'[r].secret /\ dir'[r].lease = "absent"
  <2>1. CASE ExitFiles(r)
    <3>1. dir'[r] = Unlinked(dir[r])
      BY <1>1, <2>1 DEF ExitFiles, TypeOK
    <3>. QED  BY <1>1, <3>1, DirectoryClosed
  <2>2. CASE pc[r] = "exitRmdir"
    <3>1. Loses(dir[r], dir'[r])
      BY <1>1, <1>2, <2>2, OnlyLoses DEF Late
    <3>. QED  BY <1>1, <2>2, <3>1 DEF CleansUp, Loses
  <2>. QED  BY <1>1, <2>1, <2>2, PcMoves
<1>5. ASSUME r \in returned', pc'[r] = "done", policy'[r].onExit
      PROVE  dir'[r] = NoDirectory
  <2>1. policy'[r].onExit = policy[r].onExit /\ ~UseSecret(r) /\ r \in returned
    BY <1>1, <1>5, PcMoves
  <2>2. pc[r] = "done" \/ ExitDirectory(r)
    BY <1>1, <1>5, <2>1, PcMoves DEF CleansUp
  <2>3. CASE pc[r] = "done"
    <3>1. Loses(dir[r], dir'[r])
      BY <1>1, <1>2, <2>3, OnlyLoses DEF Late
    <3>. QED  BY <1>1, <1>5, <2>1, <2>3, <3>1 DEF CleansUp, Loses
  <2>4. CASE ExitDirectory(r)
    <3>1. dir'[r] = Removed(dir[r])
      BY <1>1, <2>4 DEF ExitDirectory, TypeOK
    <3>2. ~dir[r].secret /\ dir[r].lease = "absent"
      BY <1>1, <2>4 DEF ExitDirectory, CleansUp
    <3>. QED  BY <1>1, <3>1, <3>2, DirectoryClosed
  <2>. QED  BY <2>2, <2>3, <2>4
<1>. QED  BY <1>3, <1>4, <1>5 DEF CleansUp

\* The invariant, of which the theorems are parts.
LEMMA InvariantHolds == Spec => []IInv
<1>1. Init => IInv
  BY InitInv
<1>2. IInv /\ [Next]_vars => IInv'
  <2> SUFFICES ASSUME IInv, [Next]_vars
               PROVE  IInv'
    OBVIOUS
  <2>1. TypeOK'
    BY TypeKept DEF IInv
  <2>. QED  BY <2>1, PlacedKept, SparesKept, RemovesKept, CleansUpKept DEF IInv
<1>. QED  BY <1>1, <1>2, PTL DEF Spec

-----------------------------------------------------------------------------
(* The theorems.                                                           *)

\* A lease directory holds what its files can be between two operations of
\* materialization.py, and every run is where its code can be.
THEOREM TypeCorrect == Spec => []TypeOK
<1>1. IInv => TypeOK
  BY DEF IInv
<1>. QED  BY <1>1, InvariantHolds, PTL

\* A sweep that ends has removed every secret that was due when it listed the directory,
\* whatever other sweeps and owners do to the same directories meanwhile
\* (cleanup_expired_materializations).
THEOREM SweepsRemove == Spec => []SweepRemovesWhatIsDue
<1>1. IInv => SweepRemovesWhatIsDue
  BY DEF IInv, TypeOK, Removes, Sweeping, SweepRemovesWhatIsDue
<1>. QED  BY <1>1, InvariantHolds, PTL

\* It takes no file of a bundle that was complete, its lease running, at that time, though
\* it judges each directory later than it lists them.
THEOREM SweepsSpare == Spec => []SweepSparesCompleteBundles
<1>1. IInv => SweepSparesCompleteBundles
  BY DEF IInv, Spares, SweepSparesCompleteBundles
<1>. QED  BY <1>1, InvariantHolds, PTL

\* A run that cleans up on exit leaves no lease directory behind, also if a sweep removes
\* the same files (cleanup_materialization_bundle ignores errors).
THEOREM ExitsClean == Spec => []ExitLeavesNothing
<1>1. IInv => ExitLeavesNothing
  BY DEF IInv, TypeOK, CleansUp, ExitLeavesNothing
<1>. QED  BY <1>1, InvariantHolds, PTL

-----------------------------------------------------------------------------
(* Materialization implements LeaseDirectories.                            *)

\* What the mapping needs to know besides: a directory that is not there has no lease file,
\* a lease file is complete when it is sealed, only runs that are to clean up do, and a
\* sweep has read the clock before.
Mapped(l) ==
    /\ ~dir[l].exists => dir[l].lease = "absent"
    /\ pc[l] = "seal" => dir[l].lease # "empty"
    /\ pc[l] \in {"exit", "exitRmdir"} => policy[l].onExit
    /\ listedAt[l] <= now

MInv == IInv /\ \A l \in Runs : Mapped(l)

LEMMA MappedKept ==
    ASSUME IInv, NEW l \in Runs, Mapped(l), [Next]_vars
    PROVE  Mapped(l)'
<1>1. TypeOK /\ TypeOK' /\ dir[l] \in Directory
  BY TypeKept DEF IInv, TypeOK
<1>2. policy' = policy /\ \A label : Goto(l, label) => pc'[l] = label
  BY <1>1, PcMoves DEF Goto, TypeOK
<1>3. CASE Writes(l)
  <2>1. /\ ~dir'[l].exists => dir'[l].lease = "absent"
        /\ FillLeaseFile(l) => dir'[l].lease # "empty"
    BY <1>1, <1>3 DEF Mapped, Writes, MakeDirectory, WriteSecret, CreateLeaseFile,
                      FillLeaseFile, TypeOK, Directory
  <2>2. /\ pc'[l] = "seal" => FillLeaseFile(l)
        /\ pc'[l] \notin {"exit", "exitRmdir"}
        /\ listedAt' = listedAt /\ now' = now
    BY <1>2, <1>3 DEF Writes, MakeDirectory, WriteSecret, CreateLeaseFile, FillLeaseFile, sweep
  <2>. QED  BY <2>1, <2>2 DEF Mapped
<1>4. CASE ~Writes(l)
  <2>1. /\ ~dir'[l].exists => dir'[l].lease = "absent"
        /\ dir'[l].lease \in {dir[l].lease, "absent"}
    <3>1. CASE dir'[l] = Unlinked(dir[l])
      BY <1>1, <3>1, DirectoryClosed
    <3>2. CASE dir'[l] = Removed(dir[l])
      BY <1>1, <3>2, DirectoryClosed, LosingIsLosing DEF Mapped
    <3>3. CASE dir'[l] = [dir[l] EXCEPT !.secret = FALSE]
      BY <1>1, <3>3 DEF Mapped, Directory
    <3>. QED  BY <1>1, <1>4, <3>1, <3>2, <3>3, DirectoryMoves DEF Mapped
  <2>2. CASE ~(Step(l) \/ IssueLease(l) \/ Crash(l))
    <3>1. now' \in Nat /\ now' >= now
      BY <1>1 DEF Next, Tick, vars, Step, IssueLease, Crash, ListLeases, Judge, SweepEnds,
         RmtreeFiles, RmtreeDirectory, MakeDirectory, WriteSecret, ChmodSecret, CreateLeaseFile,
         FillLeaseFile, ChmodLeaseFile, PrepareRaises, UseSecret, ExitFiles, ExitDirectory, TypeOK
    <3>. QED  BY <1>1, <1>2, <2>1, <2>2, <3>1, OthersStay DEF Mapped, TypeOK
  <2>3. CASE Step(l) \/ IssueLease(l) \/ Crash(l)
    <3>1. /\ pc'[l] # "seal"
          /\ pc'[l] \in {"exit", "exitRmdir"} => pc[l] \in {"exit", "exitRmdir"} \/ policy[l].onExit
      BY <1>2, <1>4, <2>3
         DEF Step, IssueLease, Crash, ListLeases, Judge, SweepEnds, RmtreeFiles,
             RmtreeDirectory, Writes, ChmodSecret, ChmodLeaseFile, PrepareRaises, UseSecret,
             AfterUse, ExitFiles, ExitDirectory
    <3>2. now' = now /\ listedAt'[l] \in {listedAt[l], now}
      BY <1>1, <2>3
         DEF Step, IssueLease, Crash, ListLeases, Judge, SweepEnds, RmtreeFiles,
             RmtreeDirectory, MakeDirectory, WriteSecret, ChmodSecret, CreateLeaseFile,
             FillLeaseFile, ChmodLeaseFile, PrepareRaises, UseSecret, ExitFiles,
             ExitDirectory, sweep, TypeOK
    <3>. QED  BY <1>1, <1>2, <2>1, <3>1, <3>2 DEF Mapped, TypeOK
  <2>. QED  BY <2>2, <2>3
<1>. QED  BY <1>3, <1>4

LEMMA MappedHolds == Spec => []MInv
<1>1. Init => MInv
  BY InitInv DEF Init, MInv, Mapped, NoDirectory
<1>2. IInv /\ IInv' /\ MInv /\ [Next]_vars => MInv'
  BY MappedKept DEF MInv
<1>. QED  BY <1>1, <1>2, InvariantHolds, PTL DEF Spec

\* How the mapping follows the program counter, the directories and the targets.
LEMMA StageMoves ==
    ASSUME TypeOK, NEW r \in Runs, NEW label, Goto(r, label)
    PROVE  /\ Stages[r] = StageAt(pc[r])
           /\ Stages' = [Stages EXCEPT ![r] = StageAt(label)]
           /\ StageAt(label) = StageAt(pc[r]) => Stages' = Stages
<1>1. pc' = [pc EXCEPT ![r] = label] /\ DOMAIN pc = Runs
  BY DEF Goto, TypeOK
<1>. QED  BY <1>1 DEF Stages

LEMMA BundleMoves ==
    ASSUME TypeOK, NEW l \in Runs, NEW d, dir' = [dir EXCEPT ![l] = d]
    PROVE  /\ Bundles[l] = Holds(dir[l])
           /\ Bundles' = [Bundles EXCEPT ![l] = Holds(d)]
           /\ Holds(d) = Holds(dir[l]) => Bundles' = Bundles
BY DEF Bundles, TypeOK

LEMMA DoomStays ==
    ASSUME TypeOK, NEW r \in Runs, NEW label, Goto(r, label), target' = target,
           pc[r] \in {"unlink", "rmdir"} <=> label \in {"unlink", "rmdir"}
    PROVE  Doomed' = Doomed
<1>1. \A s \in Runs : pc'[s] \in {"unlink", "rmdir"} <=> pc[s] \in {"unlink", "rmdir"}
  BY DEF Goto, TypeOK
<1>. QED  BY <1>1 DEF Doomed

\* The stages, one by one.
LEMMA StageValues ==
    /\ \A label \in {"idle", "list", "judge", "unlink", "rmdir", "mkdir"} :
          StageAt(label) = "planning"
    /\ \A label \in {"secret", "chmod", "create", "fill", "seal"} : StageAt(label) = "preparing"
    /\ \A label \in {"use", "exit", "exitRmdir"} : StageAt(label) = "using"
    /\ StageAt("done") = "over"
    /\ StageAt("crashed") = "killed"
BY DEF StageAt

LEMMA HoldsValues ==
    ASSUME NEW d \in Directory
    PROVE  /\ Holds(d) \in {"none", "partial", "ready"}
           /\ Holds(d) = "none" <=> ~d.exists
           /\ Holds(d) = "ready" <=> d.exists /\ d.lease = "written"
           /\ Holds(NoDirectory) = "none"
BY DEF Holds, Directory, NoDirectory

-----------------------------------------------------------------------------
\* The owner writes to its directory.
LEMMA WritesMap ==
    ASSUME MInv, NEW r \in Runs, Writes(r)
    PROVE  Leases!Prepare(r) \/ Leases!Complete(r) \/ UNCHANGED Leases!leaseVars
<1>1. TypeOK /\ dir[r] \in Directory /\ Mapped(r) /\ Placed(r)
  BY DEF MInv, IInv, TypeOK
<1>2. UNCHANGED <<now, expires, target, policy>>
  BY DEF Writes, MakeDirectory, WriteSecret, CreateLeaseFile, FillLeaseFile, sweep
<1>3. PICK label \in {"secret", "chmod", "fill", "seal"} :
         /\ Goto(r, label)
         /\ label = "secret" <=> MakeDirectory(r)
         /\ label = "chmod" => WriteSecret(r)
         /\ label = "fill" => CreateLeaseFile(r)
         /\ label = "seal" => FillLeaseFile(r)
         /\ pc[r] \in {"mkdir", "secret", "create", "fill"}
         /\ pc[r] = "mkdir" <=> MakeDirectory(r)
  BY DEF Writes, MakeDirectory, WriteSecret, CreateLeaseFile, FillLeaseFile
<1>4. Doomed' = Doomed /\ Tidy' = Tidy
  BY <1>1, <1>2, <1>3, DoomStays DEF Tidy
<1>5. CASE MakeDirectory(r)
  <2> DEFINE made == [dir[r] EXCEPT !.exists = TRUE]
  <2>1. dir' = [dir EXCEPT ![r] = made] /\ label = "secret"
    BY <1>3, <1>5 DEF MakeDirectory
  <2>2. ~dir[r].exists
    BY <1>1, <1>3, <1>5 DEF Placed, Before
  <2>3. Holds(dir[r]) = "none" /\ Holds(made) = "partial"
    BY <1>1, <2>2 DEF Holds, Mapped, Directory
  <2>4. Bundles[r] = "none" /\ Bundles' = [Bundles EXCEPT ![r] = "partial"]
    BY <1>1, <2>1, <2>3, BundleMoves
  <2>5. Stages[r] = "planning" /\ Stages' = [Stages EXCEPT ![r] = "preparing"]
    BY <1>1, <1>3, <1>5, <2>1, StageMoves, StageValues
  <2>. QED  BY <1>2, <1>4, <2>4, <2>5 DEF Leases!Prepare, Leases!Becomes, Leases!Enter
<1>6. CASE ~MakeDirectory(r)
  <2>1. Stages[r] = "preparing" /\ Stages' = Stages
    BY <1>1, <1>3, <1>6, StageMoves, StageValues
  <2>2. dir[r].lease # "written"
    BY <1>1, <1>3, <1>6 DEF Placed, Late
  <2>3. CASE FillLeaseFile(r) /\ dir[r].lease = "empty"
    <3> DEFINE filled == [dir[r] EXCEPT !.lease = "written"]
    <3>1. dir' = [dir EXCEPT ![r] = filled]
      BY <1>1, <2>3 DEF FillLeaseFile, TypeOK, Directory
    <3>2. Holds(dir[r]) = "partial" /\ Holds(filled) = "ready"
      BY <1>1, <2>3 DEF Holds, Mapped, Directory
    <3> HIDE DEF filled
    <3>3. Bundles[r] = "partial" /\ Bundles' = [Bundles EXCEPT ![r] = "ready"]
      BY <1>1, <3>1, <3>2, BundleMoves
    <3>4. Stages' = [Stages EXCEPT ![r] = "preparing"]
      BY <2>1 DEF Stages
    <3>. QED  BY <1>2, <1>4, <2>1, <3>3, <3>4 DEF Leases!Complete, Leases!Becomes, Leases!Enter
  <2>4. CASE ~(FillLeaseFile(r) /\ dir[r].lease = "empty")
    <3>1. PICK e \in Directory :
             dir' = [dir EXCEPT ![r] = e] /\ e.exists = dir[r].exists /\ e.lease # "written"
      <4>1. CASE WriteSecret(r)
        <5>1. [dir[r] EXCEPT !.secret = TRUE] \in Directory
          BY <1>1 DEF Directory
        <5>. QED  BY <1>1, <2>2, <4>1, <5>1 DEF WriteSecret, Directory
      <4>2. CASE CreateLeaseFile(r)
        <5>1. [dir[r] EXCEPT !.lease = "empty"] \in Directory
          BY <1>1 DEF Directory
        <5>. QED  BY <1>1, <4>2, <5>1 DEF CreateLeaseFile, Directory
      <4>3. CASE FillLeaseFile(r) /\ dir[r].lease # "empty"
        <5>1. dir' = [dir EXCEPT ![r] = [dir[r] EXCEPT !.lease = dir[r].lease]]
          BY <4>3 DEF FillLeaseFile
        <5>2. [dir[r] EXCEPT !.lease = dir[r].lease] = dir[r]
          BY <1>1 DEF Directory
        <5>. QED  BY <1>1, <2>2, <5>1, <5>2
      <4>. QED  BY <1>6, <2>4, <4>1, <4>2, <4>3 DEF Writes
    <3>2. Holds(e) = Holds(dir[r])
      BY <1>1, <2>2, <3>1 DEF Holds
    <3>3. Bundles' = Bundles
      BY <1>1, <3>1, <3>2, BundleMoves
    <3>. QED  BY <1>2, <1>4, <2>1, <3>3 DEF Leases!leaseVars
  <2>. QED  BY <2>3, <2>4
<1>. QED  BY <1>5, <1>6

\* The clock goes on, a lease is issued.
LEMMA TickMaps ==
    ASSUME Tick
    PROVE  Leases!Advance
BY DEF Tick, Leases!Advance, Stages, Bundles, Tidy, Doomed, sweep

LEMMA IssueMaps ==
    ASSUME MInv, NEW r \in Runs, IssueLease(r)
    PROVE  Leases!Plan(r)
<1>1. TypeOK
  BY DEF MInv, IInv
<1>2. /\ pc[r] = "idle" /\ Goto(r, "list")
      /\ expires' = [expires EXCEPT ![r] = LeaseEnd(now)]
      /\ UNCHANGED <<now, policy, dir, target>>
  BY DEF IssueLease, sweep
<1>3. Stages[r] = "planning" /\ Stages' = Stages
  BY <1>1, <1>2, StageMoves, StageValues
<1>4. Doomed' = Doomed
  BY <1>1, <1>2, DoomStays
<1>5. Bundles' = Bundles /\ Tidy' = Tidy
  BY <1>2 DEF Bundles, Tidy
<1>6. expires'[r] = LeaseEnd(now) /\ LeaseEnd(now) >= now
  BY <1>1, <1>2, LeaseEndLater DEF TypeOK
<1>. QED  BY <1>2, <1>3, <1>4, <1>5, <1>6 DEF Leases!Plan

\* A sweep: what it condemns is stale, and what it removes it has condemned.
LEMMA SweepMaps ==
    ASSUME MInv, NEW r \in Runs,
           ListLeases(r) \/ Judge(r) \/ SweepEnds(r) \/ RmtreeFiles(r) \/ RmtreeDirectory(r)
    PROVE  Leases!Sweep \/ UNCHANGED Leases!leaseVars
<1>1. TypeOK /\ \A l \in Runs : Mapped(l) /\ dir[l] \in Directory
  BY DEF MInv, IInv, TypeOK
<1>2. UNCHANGED <<now, expires, policy>> /\ Tidy' = Tidy
  BY DEF ListLeases, Judge, SweepEnds, RmtreeFiles, RmtreeDirectory, sweep, Tidy
<1>3. CASE ListLeases(r) \/ SweepEnds(r)
  <2>1. PICK label \in {"judge", "mkdir"} : Goto(r, label)
    BY <1>3 DEF ListLeases, SweepEnds
  <2>2. pc[r] \in {"list", "judge"} /\ UNCHANGED <<dir, target>>
    BY <1>3 DEF ListLeases, SweepEnds, sweep
  <2>3. Stages' = Stages
    BY <1>1, <2>1, <2>2, StageMoves, StageValues
  <2>4. Doomed' = Doomed
    BY <1>1, <2>1, <2>2, DoomStays
  <2>. QED  BY <1>2, <2>2, <2>3, <2>4 DEF Leases!leaseVars, Bundles
<1>4. CASE Judge(r)
  <2>1. PICK l \in found[r] :
           \/ /\ Condemned(r, l)
              /\ target' = [target EXCEPT ![r] = l]
              /\ Goto(r, "unlink")
           \/ UNCHANGED <<target, pc>>
    BY <1>4 DEF Judge
  <2>2. pc[r] = "judge" /\ UNCHANGED dir
    BY <1>4 DEF Judge
  <2>3. Bundles' = Bundles
    BY <2>2 DEF Bundles
  <2>4. CASE UNCHANGED <<target, pc>>
    BY <1>2, <2>3, <2>4 DEF Leases!leaseVars, Stages, Doomed
  <2>5. CASE /\ Condemned(r, l)
             /\ target' = [target EXCEPT ![r] = l]
             /\ Goto(r, "unlink")
    <3>1. Stages' = Stages
      BY <1>1, <2>2, <2>5, StageMoves, StageValues
    <3>2. l \in Runs
      BY <1>1 DEF TypeOK
    <3>3. Leases!Stale(l)
      <4>1. dir[l].lease # "written" \/ expires[l] <= now
        BY <1>1, <2>5, <3>2 DEF Condemned, Mapped, TypeOK
      <4>2. dir[l].lease # "written" => Bundles[l] # "ready"
        BY <1>1, <3>2, HoldsValues DEF Bundles
      <4>. QED  BY <4>1, <4>2 DEF Leases!Stale
    <3>4. Doomed' \subseteq Runs /\ Doomed' \subseteq Doomed \cup {l}
      BY <1>1, <2>5 DEF Doomed, Goto, TypeOK
    <3>5. Bundles' = [m \in Runs |-> Bundles'[m]] /\ \A m \in Runs : Bundles'[m] = Bundles[m]
      BY <2>3 DEF Bundles
    <3>. QED  BY <1>2, <3>1, <3>3, <3>4, <3>5 DEF Leases!Sweep
  <2>. QED  BY <2>1, <2>4, <2>5
<1>5. CASE RmtreeFiles(r) \/ RmtreeDirectory(r)
  <2> DEFINE l == target[r]
  <2>1. PICK label \in {"rmdir", "judge"} : Goto(r, label)
    BY <1>5 DEF RmtreeFiles, RmtreeDirectory
  <2>2. /\ pc[r] \in {"unlink", "rmdir"}
        /\ RmtreeFiles(r) => target' = target
        /\ RmtreeDirectory(r) => target' = [target EXCEPT ![r] = NoRun]
    BY <1>5 DEF RmtreeFiles, RmtreeDirectory, sweep
  <2>3. Stages' = Stages
    BY <1>1, <2>1, <2>2, StageMoves, StageValues
  <2>4. Doomed' \subseteq Doomed
    <3>1. \A s \in Runs : s # r => pc'[s] = pc[s] /\ target'[s] = target[s]
      BY <1>1, <1>5, <2>1, <2>2 DEF Goto, TypeOK
    <3>2. RmtreeFiles(r) => target'[r] = target[r]
      BY <2>2
    <3>3. RmtreeDirectory(r) => target'[r] = NoRun
      BY <1>1, <2>2 DEF TypeOK
    <3>4. pc[r] \in {"unlink", "rmdir"}
      BY <2>2
    <3>. QED  BY <1>5, <3>1, <3>2, <3>3, <3>4, ConstantsAssumption DEF Doomed
  <2>5. l \in Runs => l \in Doomed
    BY <2>2 DEF Doomed
  <2>6. ASSUME NEW m \in Runs
        PROVE  Bundles'[m] = Bundles[m] \/ m = l
    BY <1>1, <1>5, <2>6 DEF RmtreeFiles, RmtreeDirectory, Bundles, TypeOK
  <2>7. ASSUME l \in Runs, Bundles'[l] # Bundles[l]
        PROVE  Leases!Dwindles(l)
    <3>1. dir'[l] = Unlinked(dir[l]) \/ dir'[l] = Removed(dir[l])
      BY <1>1, <1>5, <2>7 DEF RmtreeFiles, RmtreeDirectory, TypeOK
    <3>2. dir[l] \in Directory /\ dir'[l] \in Directory
      BY <1>1, <2>7, <3>1, DirectoryClosed
    <3>3. Bundles[l] = Holds(dir[l]) /\ Bundles'[l] = Holds(dir'[l])
      BY <2>7 DEF Bundles
    <3>4. CASE dir'[l] = Unlinked(dir[l])
      <4>1. dir'[l].exists = dir[l].exists /\ dir'[l].lease = "absent"
        BY <3>2, <3>4, DirectoryClosed
      <4>2. Holds(dir'[l]) # "ready" /\ (Holds(dir'[l]) = "none" <=> Holds(dir[l]) = "none")
        BY <3>2, <4>1, HoldsValues
      <4>. QED  BY <2>7, <3>2, <3>3, <4>2, HoldsValues DEF Leases!Dwindles
    <3>5. CASE dir'[l] = Removed(dir[l])
      <4>1. dir'[l] = NoDirectory
        BY <2>7, <3>2, <3>3, <3>5, DirectoryClosed
      <4>2. Holds(dir'[l]) = "none"
        BY <3>2, <4>1, HoldsValues
      <4>. QED  BY <2>7, <3>2, <3>3, <4>2, HoldsValues DEF Leases!Dwindles
    <3>. QED  BY <3>1, <3>4, <3>5
  <2>8. Bundles' = [m \in Runs |-> Bundles'[m]] /\ Doomed \subseteq Runs
    BY DEF Bundles, Doomed
  <2> HIDE DEF l
  <2>. QED  BY <1>2, <2>3, <2>4, <2>5, <2>6, <2>7, <2>8 DEF Leases!Sweep
<1>. QED  BY <1>3, <1>4, <1>5

\* The owner, where it does not write.
LEMMA OwnerMaps ==
    ASSUME MInv, NEW r \in Runs,
           ChmodSecret(r) \/ ChmodLeaseFile(r) \/ PrepareRaises(r)
    PROVE  Leases!Use(r) \/ Leases!GiveUp(r) \/ UNCHANGED Leases!leaseVars
<1>1. TypeOK /\ dir[r] \in Directory /\ Mapped(r) /\ Placed(r)
  BY DEF MInv, IInv, TypeOK
<1>2. UNCHANGED <<now, expires, target, policy, dir>>
  BY DEF ChmodSecret, ChmodLeaseFile, PrepareRaises, sweep
<1>3. PICK label \in {"create", "use", "done"} :
         /\ Goto(r, label)
         /\ label = "create" => ChmodSecret(r)
         /\ label = "use" => ChmodLeaseFile(r)
         /\ label = "done" => PrepareRaises(r)
  BY DEF ChmodSecret, ChmodLeaseFile, PrepareRaises
<1>4. pc[r] \in {"secret", "chmod", "create", "seal"}
  BY DEF ChmodSecret, ChmodLeaseFile, PrepareRaises
<1>5. Doomed' = Doomed /\ Tidy' = Tidy /\ Bundles' = Bundles /\ Bundles[r] = Holds(dir[r])
  BY <1>1, <1>2, <1>3, <1>4, DoomStays DEF Tidy, Bundles
<1>6. Stages[r] = "preparing" /\ Stages' = [Stages EXCEPT ![r] = StageAt(label)]
  BY <1>1, <1>3, <1>4, StageMoves, StageValues
<1>7. CASE ChmodSecret(r) /\ label = "create"
  <2>1. Stages' = Stages
    BY <1>1, <1>3, <1>4, <1>7, StageMoves, StageValues
  <2>. QED  BY <1>2, <1>5, <2>1 DEF Leases!leaseVars
<1>8. CASE ChmodLeaseFile(r) /\ label = "use"
  <2>1. dir[r].lease = "written" /\ dir[r].exists
    BY <1>1, <1>8 DEF ChmodLeaseFile, Mapped, Directory
  <2>2. Bundles[r] = "ready" /\ StageAt(label) = "using"
    BY <1>1, <1>5, <1>8, <2>1, HoldsValues, StageValues
  <2>. QED  BY <1>2, <1>5, <1>6, <2>2 DEF Leases!Use, Leases!Enter
<1>9. CASE PrepareRaises(r) /\ label = "done"
  <2>1. dir[r].lease # "written"
    BY <1>1, <1>9 DEF PrepareRaises, Placed, Late
  <2>2. Bundles[r] # "ready" /\ StageAt(label) = "over"
    BY <1>1, <1>5, <1>9, <2>1, HoldsValues, StageValues
  <2>. QED  BY <1>2, <1>5, <1>6, <2>2 DEF Leases!GiveUp, Leases!Enter
<1>. QED  BY <1>3, <1>7, <1>8, <1>9

LEMMA ExitMaps ==
    ASSUME MInv, NEW r \in Runs, UseSecret(r) \/ ExitFiles(r) \/ ExitDirectory(r)
    PROVE  Leases!Clear(r) \/ Leases!Leave(r) \/ UNCHANGED Leases!leaseVars
<1>1. TypeOK /\ dir[r] \in Directory /\ Mapped(r) /\ CleansUp(r)
  BY DEF MInv, IInv, TypeOK
<1>2. UNCHANGED <<now, expires, target, policy>>
  BY DEF UseSecret, ExitFiles, ExitDirectory, sweep
<1>3. PICK label \in {"exit", "exitRmdir", "done"} :
         /\ Goto(r, label)
         /\ UseSecret(r) => label = IF policy[r].onExit THEN "exit" ELSE "done"
         /\ ExitFiles(r) => label = "exitRmdir"
         /\ ExitDirectory(r) => label = "done"
  BY DEF UseSecret, AfterUse, ExitFiles, ExitDirectory
<1>4. pc[r] \in {"use", "exit", "exitRmdir"}
  BY DEF UseSecret, ExitFiles, ExitDirectory
<1>5. Doomed' = Doomed /\ Tidy' = Tidy
  BY <1>1, <1>2, <1>3, <1>4, DoomStays DEF Tidy
<1>6. /\ Stages[r] = "using"
      /\ Stages' = [Stages EXCEPT ![r] = StageAt(label)]
      /\ label # "done" => Stages' = Stages
      /\ label = "done" => StageAt(label) = "over"
  BY <1>1, <1>3, <1>4, StageMoves, StageValues
<1>7. CASE UseSecret(r)
  <2>1. Bundles' = Bundles
    <3> DEFINE read == [dir[r] EXCEPT !.secret = FALSE]
    <3>1. Holds(read) = Holds(dir[r])
      BY <1>1 DEF Holds, Directory
    <3>2. dir' = dir \/ dir' = [dir EXCEPT ![r] = read]
      BY <1>7 DEF UseSecret
    <3> HIDE DEF read
    <3>. QED  BY <1>1, <3>1, <3>2, BundleMoves DEF Bundles
  <2>2. CASE policy[r].onExit
    BY <1>2, <1>3, <1>5, <1>6, <1>7, <2>1, <2>2 DEF Leases!leaseVars
  <2>3. CASE ~policy[r].onExit
    <3>1. r \notin Tidy
      BY <2>3 DEF Tidy
    <3>. QED  BY <1>2, <1>3, <1>5, <1>6, <1>7, <2>1, <2>3, <3>1 DEF Leases!Leave, Leases!Enter
  <2>. QED  BY <2>2, <2>3
<1>8. ExitFiles(r) \/ ExitDirectory(r) => r \in Tidy
  BY <1>1 DEF Mapped, Tidy, ExitFiles, ExitDirectory
<1>9. CASE ExitFiles(r)
  <2>1. /\ dir' = [dir EXCEPT ![r] = Unlinked(dir[r])]
        /\ Unlinked(dir[r]) \in Directory
        /\ Unlinked(dir[r]).exists = dir[r].exists /\ Unlinked(dir[r]).lease = "absent"
    BY <1>1, <1>9, DirectoryClosed DEF ExitFiles
  <2>2. /\ Bundles[r] = Holds(dir[r])
        /\ Bundles' = [Bundles EXCEPT ![r] = Holds(Unlinked(dir[r]))]
        /\ Holds(Unlinked(dir[r])) = Holds(dir[r]) => Bundles' = Bundles
    BY <1>1, <2>1, BundleMoves
  <2>3. Holds(dir[r]) \in {"none", "partial", "ready"} /\ (Holds(dir[r]) = "none" <=> ~dir[r].exists)
    BY <1>1, HoldsValues
  <2>4. /\ Holds(Unlinked(dir[r])) \in {"none", "partial"}
        /\ Holds(Unlinked(dir[r])) = "none" <=> ~dir[r].exists
    BY <2>1, HoldsValues
  <2>5. Stages' = Stages
    BY <1>3, <1>6, <1>9
  <2>6. CASE Holds(dir[r]) = "ready"
    <3>1. Holds(Unlinked(dir[r])) = "partial"
      BY <2>3, <2>4, <2>6
    <3>. QED  BY <1>2, <1>5, <1>6, <1>8, <1>9, <2>2, <2>5, <2>6, <3>1 DEF Leases!Clear, Leases!Becomes
  <2>7. CASE Holds(dir[r]) # "ready"
    <3>1. Bundles' = Bundles
      BY <2>2, <2>3, <2>4, <2>7
    <3>. QED  BY <1>2, <1>5, <2>5, <3>1 DEF Leases!leaseVars
  <2>. QED  BY <2>6, <2>7
<1>10. CASE ExitDirectory(r)
  <2>1. Removed(dir[r]) = NoDirectory
    BY <1>1, <1>10, DirectoryClosed DEF ExitDirectory, CleansUp
  <2>2. dir' = [dir EXCEPT ![r] = NoDirectory]
    BY <1>10, <2>1 DEF ExitDirectory
  <2>3. Bundles' = [Bundles EXCEPT ![r] = Holds(NoDirectory)]
    BY <1>1, <2>2, BundleMoves
  <2>4. Holds(NoDirectory) = "none"
    BY <1>1, HoldsValues
  <2>. QED  BY <1>2, <1>3, <1>5, <1>6, <1>8, <1>10, <2>3, <2>4 DEF Leases!Leave, Leases!Enter, Leases!Becomes
<1>. QED  BY <1>7, <1>9, <1>10

LEMMA CrashMaps ==
    ASSUME MInv, NEW r \in Runs, Crash(r)
    PROVE  Leases!Kill(r)
<1>1. TypeOK
  BY DEF MInv, IInv
<1>2. pc[r] \notin {"idle", "done", "crashed"} /\ Goto(r, "crashed")
  BY DEF Crash
<1>3. UNCHANGED <<now, expires, target, policy, dir>>
  BY DEF Crash, sweep
<1>4. Bundles' = Bundles /\ Tidy' = Tidy
  BY <1>3 DEF Bundles, Tidy
<1>5. Stages[r] = StageAt(pc[r]) /\ Stages' = [Stages EXCEPT ![r] = "killed"]
  BY <1>1, <1>2, StageMoves, StageValues
<1>6. StageAt(pc[r]) # "killed"
  <2>1. pc[r] \in Labels
    BY <1>1 DEF TypeOK
  <2>. QED  BY <1>2, <2>1, StageValues DEF Labels
<1>7. Doomed' \subseteq Doomed
  BY <1>1, <1>2, <1>3 DEF Doomed, Goto, TypeOK
<1>. QED  BY <1>3, <1>4, <1>5, <1>6, <1>7 DEF Leases!Kill, Leases!Enter

LEMMA LeaseStep ==
    ASSUME MInv, [Next]_vars
    PROVE  [Leases!LeaseNext]_(Leases!leaseVars)
<1>1. CASE UNCHANGED vars
  BY <1>1 DEF vars, sweep, Leases!leaseVars, Stages, Bundles, Tidy, Doomed
<1>2. CASE Tick
  BY <1>2, TickMaps DEF Leases!LeaseNext
<1>3. ASSUME NEW r \in Runs, IssueLease(r) \/ Step(r) \/ Crash(r)
      PROVE  [Leases!LeaseNext]_(Leases!leaseVars)
  <2>1. CASE IssueLease(r) \/ Crash(r)
    BY <2>1, IssueMaps, CrashMaps DEF Leases!LeaseNext
  <2>2. CASE ListLeases(r) \/ Judge(r) \/ SweepEnds(r) \/ RmtreeFiles(r) \/ RmtreeDirectory(r)
    BY <2>2, SweepMaps DEF Leases!LeaseNext
  <2>3. CASE Writes(r)
    BY <2>3, WritesMap DEF Leases!LeaseNext
  <2>4. CASE ChmodSecret(r) \/ ChmodLeaseFile(r) \/ PrepareRaises(r)
    BY <2>4, OwnerMaps DEF Leases!LeaseNext
  <2>5. CASE UseSecret(r) \/ ExitFiles(r) \/ ExitDirectory(r)
    BY <2>5, ExitMaps DEF Leases!LeaseNext
  <2>. QED  BY <1>3, <2>1, <2>2, <2>3, <2>4, <2>5 DEF Step, Writes
<1>. QED  BY <1>1, <1>2, <1>3 DEF Next

LEMMA LeaseInitStep ==
    ASSUME Init
    PROVE  Leases!LeaseInit
<1>1. Stages = [r \in Runs |-> "planning"]
  BY StageValues DEF Init, Stages
<1>2. Bundles = [r \in Runs |-> "none"]
  BY DEF Init, Bundles, Holds, NoDirectory
<1>3. Doomed = {} /\ Tidy \subseteq Runs
  BY DEF Init, Doomed, Tidy
<1>. QED  BY <1>1, <1>2, <1>3 DEF Init, Leases!LeaseInit

\* For any number of runs that sweep each other, one file operation at a time, whatever is
\* killed: the bundles are treated as LeaseDirectories promises.
THEOREM LeaseDirectoriesImplemented == Spec => ImplementsLeaseDirectories
<1>1. Init => Leases!LeaseInit
  BY LeaseInitStep
<1>2. MInv /\ [Next]_vars => [Leases!LeaseNext]_(Leases!leaseVars)
  BY LeaseStep
<1>. QED  BY <1>1, <1>2, MappedHolds, PTL DEF Spec, ImplementsLeaseDirectories, Leases!LeaseSpec

=============================================================================
