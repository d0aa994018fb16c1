---------------------------- MODULE FleetProofs ----------------------------
(***************************************************************************)
(* Proofs about Fleet: for any number of launches, of instances and of     *)
(* faults.  First, whether or not launches overlap: types, what a cleanup  *)
(* and a killer find, and the refinement of FleetAbstract.  Then, of       *)
(* launches that take turns, what one leaves to the next.                  *)
(***************************************************************************)
EXTENDS FleetProps, TLAPS

USE LaunchesAssumption, MaxNAssumption, CapacityAssumption, OverlapAssumption

\* The launches' own variables keep their types, and with them the bound on the
\* loop index: at < n whenever the loop is between a fork and its pid file.
LaunchInv == LaunchTypeOK /\ AtRecordsInstance

LEMMA LaunchInit == Init => LaunchInv
  BY DEF Init, LaunchInv, LaunchTypeOK, AtRecordsInstance, PCs, Loop, Cleanup

LEMMA LaunchStep == LaunchInv /\ [Next]_vars => LaunchInv'
<1> SUFFICES ASSUME LaunchInv, [Next]_vars PROVE LaunchInv'
  OBVIOUS
<1> USE DEF LaunchInv, LaunchTypeOK, AtRecordsInstance, PCs, Prelude, Loop, Cleanup,
            Ended, Goto
<1>1. ASSUME NEW l \in Launches, Preflight(l) PROVE LaunchInv'
  BY <1>1 DEF Preflight
<1>2. ASSUME NEW l \in Launches, Proceed(l) PROVE LaunchInv'
  <2>1. CASE ClearDirs(l)       BY <2>1 DEF ClearDirs
  <2>2. CASE SetupTaps(l)       BY <2>2 DEF SetupTaps
  <2>3. CASE ClearPool(l)       BY <2>3 DEF ClearPool
  <2>4. CASE SetPool(l)         BY <2>4 DEF SetPool
  <2>5. CASE WriteConfigs(l)    BY <2>5 DEF WriteConfigs
  <2>6. CASE RegisterCleanup(l) BY <2>6 DEF RegisterCleanup
  <2>7. CASE Fork(l)            BY <2>7 DEF Fork
  <2>8. CASE AppendPid(l)       BY <2>8 DEF AppendPid, Instances
  <2>9. CASE WritePidFile(l)
    <3>1. CASE sdir
      <4>1. /\ pc[l] = "pidfile" /\ pc' = [pc EXCEPT ![l] = "fork"]
            /\ at' = [at EXCEPT ![l] = @ + 1]
            /\ UNCHANGED <<n, pids, trap, ret, cgok>>
        BY <2>9, <3>1 DEF WritePidFile
      <4>2. at[l] < n[l]
        BY <4>1
      <4>3. at' \in [Launches -> 0..MaxN]
        BY <4>1, <4>2
      <4> QED
        BY <4>1, <4>3
    <3>2. CASE ~sdir
      <4>1. Exit(l) /\ UNCHANGED <<n, at, pids, cgok>>
        BY <2>9, <3>2 DEF WritePidFile
      <4> QED
        BY ZenonT(30), <2>9, <4>1 DEF WritePidFile, Exit, Handle
    <3> QED BY <3>1, <3>2
  <2>10. CASE LoopEnds(l)       BY <2>10 DEF LoopEnds
  <2>11. CASE WaitReturns(l)    BY ZenonT(20), <2>11 DEF WaitReturns, Exit, Handle
  <2>12. CASE CleanTerm(l)      BY <2>12 DEF CleanTerm
  <2>13. CASE CleanKill(l)      BY <2>13 DEF CleanKill
  <2>14. CASE CleanDirs(l)      BY <2>14 DEF CleanDirs
  <2>15. CASE CleanDevices(l)   BY <2>15 DEF CleanDevices
  <2>16. CASE CleanPool(l)      BY <2>16 DEF CleanPool
  <2> QED
    BY <1>2, <2>1, <2>2, <2>3, <2>4, <2>5, <2>6, <2>7, <2>8, <2>9, <2>10, <2>11, <2>12,
       <2>13, <2>14, <2>15, <2>16 DEF Proceed
<1>3. ASSUME NEW l \in Launches, Disturb(l) PROVE LaunchInv'
  <2>1. CASE FailPrelude(l)     BY <2>1 DEF FailPrelude
  <2>2. CASE FailLoop(l)        BY <2>2 DEF FailLoop, Exit, Handle
  <2>3. CASE Interrupt(l)       BY ZenonT(20), <2>3 DEF Interrupt, Handle
  <2>4. CASE LauncherDies(l)    BY <2>4 DEF LauncherDies
  <2> QED BY <1>3, <2>1, <2>2, <2>3, <2>4 DEF Disturb
<1>4. ASSUME UNCHANGED launchVars PROVE LaunchInv'
  BY <1>4 DEF launchVars
<1>5. ASSUME NEW l \in Launches, NEW j \in Instances, VmStep(l, j) \/ VmEnds(l, j)
      PROVE  UNCHANGED launchVars
  BY <1>5 DEF VmStep, VmStart, VmRefuses, VmEnds
<1>6. ASSUME Discover \/ Killer PROVE UNCHANGED launchVars
  BY <1>6 DEF Discover, Killer, KillStrays, CtrlAltDel, KillNamed, RemoveTaps, RemoveDirs
<1>7. ASSUME UNCHANGED vars PROVE UNCHANGED launchVars
  BY <1>7 DEF vars, launchVars
<1> QED
  BY <1>1, <1>2, <1>3, <1>4, <1>5, <1>6, <1>7 DEF Next

\* Every function of resources that the helpers build has the resources' type.
LEMMA ResourceTypes ==
  ASSUME NEW res \in [Instances -> Owner], NEW l \in Launches, NEW S
  PROVE  /\ Lose(res, S) \in [Instances -> Owner]
         /\ Take(res, l, S) \in [Instances -> Owner]
  BY DEF Lose, Take, Owner

\* Ending processes keeps the type of vm.
LEMMA EndType ==
  ASSUME VmTypeOK, NEW S
  PROVE  End(S) \in [VMs -> {"none", "gone"} \cup Live]
  BY DEF VmTypeOK, End

LEMMA RestInit == Init => VmTypeOK /\ HostTypeOK /\ KillTypeOK
<1> SUFFICES ASSUME Init PROVE VmTypeOK /\ HostTypeOK /\ KillTypeOK
  OBVIOUS
<1>1. VmTypeOK
  BY DEF Init, VmTypeOK
<1>2. HostTypeOK
  BY DEF Init, HostTypeOK, Owner
<1>3. KillTypeOK
  BY DEF Init, KillTypeOK
<1> QED BY <1>1, <1>2, <1>3

LEMMA RestStep ==
  ASSUME LaunchInv, VmTypeOK, HostTypeOK, KillTypeOK, [Next]_vars
  PROVE  (VmTypeOK /\ HostTypeOK /\ KillTypeOK)'
<1> USE DEF VmTypeOK, HostTypeOK, KillTypeOK
<1>0. ASSUME UNCHANGED <<vm, stray, hostVars, killVars>>
      PROVE  (VmTypeOK /\ HostTypeOK /\ KillTypeOK)'
  BY <1>0 DEF hostVars, killVars
<1>1. ASSUME NEW l \in Launches, Preflight(l)
      PROVE  UNCHANGED <<vm, stray, hostVars, killVars>>
  BY <1>1 DEF Preflight
<1>2. ASSUME NEW l \in Launches, Proceed(l)
      PROVE  (VmTypeOK /\ HostTypeOK /\ KillTypeOK)'
  <2>1. CASE ClearDirs(l)
    BY <2>1, ResourceTypes DEF ClearDirs, RemoveSockets, RemoveConfigs
  <2>2. CASE SetupTaps(l)
    BY <2>2, ResourceTypes DEF SetupTaps, killVars
  <2>3. CASE ClearPool(l)
    BY <2>3 DEF ClearPool, Owner, killVars
  <2>4. CASE SetPool(l)
    BY <2>4 DEF SetPool, Owner, killVars
  <2>5. CASE WriteConfigs(l)
    BY <2>5, ResourceTypes DEF WriteConfigs, killVars
  <2>6. CASE RegisterCleanup(l) \/ AppendPid(l) \/ LoopEnds(l) \/ WaitReturns(l)
    BY <1>0, <2>6 DEF RegisterCleanup, AppendPid, LoopEnds, WaitReturns
  <2>7. CASE Fork(l)
    <3>1. <<l, at[l]>> \in VMs
      BY <2>7, MaxNAssumption
      DEF Fork, LaunchInv, LaunchTypeOK, VMs, Instances
    <3> QED
      BY <2>7, <3>1 DEF Fork, Live, hostVars, killVars
  <2>8. CASE WritePidFile(l)
    BY <2>8, ResourceTypes DEF WritePidFile, killVars
  <2>9. CASE CleanTerm(l) \/ CleanKill(l)
    BY <2>9, EndType DEF CleanTerm, CleanKill, hostVars, killVars
  <2>10. CASE CleanDirs(l)
    BY <2>10, ResourceTypes DEF CleanDirs, RemoveSockets, RemoveConfigs, killVars
  <2>11. CASE CleanDevices(l)
    BY <2>11, ResourceTypes DEF CleanDevices, killVars
  <2>12. CASE CleanPool(l)
    BY <2>12 DEF CleanPool, Owner, killVars
  <2> QED
    BY <1>2, <2>1, <2>2, <2>3, <2>4, <2>5, <2>6, <2>7, <2>8, <2>9, <2>10, <2>11, <2>12
    DEF Proceed
<1>3. ASSUME NEW l \in Launches, Disturb(l)
      PROVE  (VmTypeOK /\ HostTypeOK /\ KillTypeOK)'
  <2>1. CASE FailPrelude(l) \/ FailLoop(l) \/ LauncherDies(l)
    BY <1>0, <2>1 DEF FailPrelude, FailLoop, LauncherDies
  <2>2. CASE Interrupt(l)
    <3>1. pc[l] = "append" => <<l, at[l]>> \in VMs
      BY MaxNAssumption
      DEF LaunchInv, LaunchTypeOK, AtRecordsInstance, VMs, Instances
    <3> QED
      BY <2>2, <3>1 DEF Interrupt, hostVars, killVars
  <2> QED BY <1>3, <2>1, <2>2 DEF Disturb
<1>4. ASSUME NEW l \in Launches, NEW j \in Instances, VmStep(l, j) \/ VmEnds(l, j)
      PROVE  (VmTypeOK /\ HostTypeOK /\ KillTypeOK)'
  <2>1. CASE VmStart(l, j)
    BY <2>1, ResourceTypes DEF VmStart, killVars, Live
  <2>2. CASE VmRefuses(l, j)
    BY <2>2, EndType DEF VmRefuses, killVars
  <2>3. CASE VmEnds(l, j)
    BY <2>3, EndType DEF VmEnds, hostVars, killVars
  <2> QED BY <1>4, <2>1, <2>2, <2>3 DEF VmStep
<1>5. ASSUME Discover \/ Killer
      PROVE  (VmTypeOK /\ HostTypeOK /\ KillTypeOK)'
  <2>1. CASE Discover
    <3>1. seen' \in [VMs -> {"no", "loose", "named"}]
      BY <2>1 DEF Discover, Look
    <3>2. insts' \in SUBSET Instances
      BY <2>1 DEF Discover, OnDisk
    <3>3. kpc' \in {"pkill", "cad"} /\ UNCHANGED <<vm, hostVars, stray>>
      BY <2>1 DEF Discover
    <3> QED BY <3>1, <3>2, <3>3 DEF hostVars
  <2>2. CASE KillStrays \/ CtrlAltDel \/ KillNamed
    <3>1. vm' \in [VMs -> {"none", "gone"} \cup Live]
      <4>1. \E S : vm' = End(S)
        BY <2>2 DEF KillStrays, CtrlAltDel, KillNamed
      <4> QED BY <4>1, EndType
    <3>2. kpc' \in {"kill", "taps"} /\ UNCHANGED <<hostVars, insts, seen, stray>>
      BY <2>2 DEF KillStrays, CtrlAltDel, KillNamed
    <3> QED BY <3>1, <3>2 DEF hostVars
  <2>3. CASE RemoveTaps
    <3>1. tap' \in [Instances -> Owner]
      BY <2>3 DEF RemoveTaps, Lose, Owner
    <3> QED BY <2>3, <3>1 DEF RemoveTaps
  <2>4. CASE RemoveDirs
    <3>1. /\ sock' \in [Instances -> Owner]
          /\ pidf' \in [Instances -> Owner]
          /\ cfg'  \in [Instances -> Owner]
      BY <2>4 DEF RemoveDirs, RemoveSockets, RemoveConfigs, Lose, Owner
    <3> QED BY <2>4, <3>1 DEF RemoveDirs
  <2> QED BY <1>5, <2>1, <2>2, <2>3, <2>4 DEF Killer
<1>6. ASSUME UNCHANGED vars PROVE UNCHANGED <<vm, stray, hostVars, killVars>>
  BY <1>6 DEF vars, hostVars, killVars
<1> QED
  BY <1>0, <1>1, <1>2, <1>3, <1>4, <1>5, <1>6 DEF Next

TypeInv == LaunchInv /\ VmTypeOK /\ HostTypeOK /\ KillTypeOK

LEMMA TypeInvariance == Spec => []TypeInv
<1>1. Init => TypeInv
  BY LaunchInit, RestInit DEF TypeInv
<1>2. TypeInv /\ [Next]_vars => TypeInv'
  BY LaunchStep, RestStep DEF TypeInv
<1> QED BY <1>1, <1>2, PTL DEF Spec

\* Every variable keeps its type; in particular the launch loop never forks or
\* records an instance beyond NUM_INSTANCES, also after it has been interrupted.
THEOREM TypeCorrect == Spec => []TypeOK
<1>1. TypeInv => TypeOK
  BY DEF TypeInv, LaunchInv, TypeOK
<1> QED BY <1>1, TypeInvariance, PTL

(***************************************************************************)
(* Teardown.  CleanupAhead says of each VM that is alive and no orphan that *)
(* its launch will still kill it.  A step can disturb it in three ways: by  *)
(* adding a live VM (Fork), by moving a launch's pc, trap or kill list, or  *)
(* by adding an orphan, which only weakens the claim.                       *)
(***************************************************************************)
\* What CleanupAhead says of one VM.
Covered(l, j) ==
  \/ /\ trap[l] /\ pc[l] \in Loop \cup {"wait"}
     /\ j \in pids[l] \/ (pc[l] = "append" /\ at[l] = j)
  \/ pc[l] \in {"cl_term", "cl_kill"} /\ j \in pids[l]

Uncovered(l, j) == vm[<<l, j>>] \in Live /\ ~Orphan(l, j) /\ ~Covered(l, j)

LEMMA CleanupAheadCovers ==
  CleanupAhead <=> \A l \in Launches, j \in Instances : ~Uncovered(l, j)
  BY DEF CleanupAhead, Covered, Uncovered

\* No process comes to life by the end of others.
LEMMA EndOnlyEnds ==
  ASSUME VmTypeOK, NEW S, vm' = End(S), NEW v \in VMs, vm'[v] \in Live
  PROVE  vm[v] \in Live /\ v \notin S
  BY DEF VmTypeOK, End, Live

\* A step that moves no launch, frees no orphan and brings no VM to life.
LEMMA OnlyVMs ==
  ASSUME CleanupAhead, UNCHANGED launchVars, stray \subseteq stray',
         \A v \in VMs : vm'[v] \in Live => vm[v] \in Live
  PROVE  CleanupAhead'
<1> SUFFICES ASSUME NEW m \in Launches, NEW j \in Instances, Uncovered(m, j)' PROVE FALSE
  BY CleanupAheadCovers DEF Covered, Uncovered, CleanupAhead
<1>1. <<m, j>> \in VMs
  BY DEF VMs
<1>2. Uncovered(m, j)
  BY <1>1 DEF Uncovered, Orphan, Covered, launchVars
<1> QED BY <1>2, CleanupAheadCovers

\* A step of launch l that changes nothing for the others.
LEMMA OnlyLaunch ==
  ASSUME CleanupAhead, LaunchInv, VmTypeOK, NEW l \in Launches,
         stray \subseteq stray',
         \A m \in Launches \ {l} :
            /\ pc'[m] = pc[m] /\ trap'[m] = trap[m] /\ pids'[m] = pids[m] /\ at'[m] = at[m]
            /\ \A j \in Instances : vm'[<<m, j>>] \in Live => vm[<<m, j>>] \in Live,
         \A j \in Instances : ~Uncovered(l, j)'
  PROVE  CleanupAhead'
<1> SUFFICES ASSUME NEW m \in Launches, NEW j \in Instances, Uncovered(m, j)' PROVE FALSE
  BY DEF Covered, Uncovered, CleanupAhead
<1>1. m # l
  OBVIOUS
<1>2. Uncovered(m, j)
  BY <1>1 DEF Uncovered, Orphan, Covered
<1> QED BY <1>2, CleanupAheadCovers

\* A launch's own commands and signals.  Only Fork brings a VM to life, CleanKill
\* leaves the kill list behind only when it has done its work, and Interrupt
\* between the fork and PIDS makes the VM an orphan.
LEMMA LaunchKeepsCleanupAhead ==
  ASSUME TypeInv, CleanupAhead, NEW l \in Launches,
         Preflight(l) \/ Proceed(l) \/ Disturb(l)
  PROVE  CleanupAhead'
<1> USE DEF TypeInv, LaunchInv, LaunchTypeOK, VmTypeOK, Prelude, Loop, Cleanup, Ended,
            Live, Goto
<1>0. \A j \in Instances : ~Uncovered(l, j)
  BY CleanupAheadCovers
<1>1. \A j \in Instances : <<l, j>> \in VMs
  BY DEF VMs
<1> DEFINE Others == \A m \in Launches \ {l} :
             /\ pc'[m] = pc[m] /\ trap'[m] = trap[m] /\ pids'[m] = pids[m] /\ at'[m] = at[m]
             /\ \A j \in Instances : vm'[<<m, j>>] \in Live => vm[<<m, j>>] \in Live
           Mine == stray \subseteq stray' /\ \A j \in Instances : ~Uncovered(l, j)'
<1>2. CASE Preflight(l)
  <2>1. Others BY <1>2 DEF Preflight
  <2>2. Mine
    BY <1>0, <1>2 DEF Preflight, Uncovered, Orphan, Covered
  <2> QED BY <2>1, <2>2, OnlyLaunch
<1>3. CASE ClearDirs(l) \/ SetupTaps(l) \/ ClearPool(l) \/ SetPool(l) \/ WriteConfigs(l)
  <2>1. Others
    BY <1>3 DEF ClearDirs, SetupTaps, ClearPool, SetPool, WriteConfigs
  <2>2. Mine
    BY <1>0, <1>3
    DEF ClearDirs, SetupTaps, ClearPool, SetPool, WriteConfigs, Uncovered, Orphan, Covered
  <2> QED BY <2>1, <2>2, OnlyLaunch
<1>4. CASE RegisterCleanup(l)
  <2>1. Others BY <1>4 DEF RegisterCleanup
  <2>2. Mine
    BY <1>0, <1>4 DEF RegisterCleanup, Uncovered, Orphan, Covered
  <2> QED BY <2>1, <2>2, OnlyLaunch
<1>5. CASE Fork(l)
  <2>1. Others BY <1>5 DEF Fork
  <2>2. Mine
    <3>1. stray \subseteq stray' BY <1>5 DEF Fork
    <3>2. ASSUME NEW j \in Instances, Uncovered(l, j)' PROVE FALSE
      <4>1. CASE j = at[l]
        BY <1>5, <3>2, <4>1 DEF Fork, Uncovered, Orphan, Covered
      <4>2. CASE j # at[l]
        <5>1. vm'[<<l, j>>] = vm[<<l, j>>]
          BY <1>1, <1>5, <4>2 DEF Fork
        <5> QED
          BY <1>0, <1>5, <3>1, <3>2, <4>2, <5>1 DEF Fork, Uncovered, Orphan, Covered
      <4> QED BY <4>1, <4>2
    <3> QED BY <3>1, <3>2
  <2> QED BY <2>1, <2>2, OnlyLaunch
<1>6. CASE AppendPid(l)
  <2>1. Others BY <1>6 DEF AppendPid
  <2>2. Mine
    BY <1>0, <1>6 DEF AppendPid, Uncovered, Orphan, Covered
  <2> QED BY <2>1, <2>2, OnlyLaunch
<1>7. CASE WritePidFile(l)
  <2>1. Others BY <1>7 DEF WritePidFile, Exit, Handle
  <2>2. Mine
    BY <1>0, <1>7 DEF WritePidFile, Exit, Handle, Uncovered, Orphan, Covered
  <2> QED BY <2>1, <2>2, OnlyLaunch
<1>8. CASE LoopEnds(l)
  <2>1. Others BY <1>8 DEF LoopEnds
  <2>2. Mine
    BY <1>0, <1>8 DEF LoopEnds, Uncovered, Orphan, Covered
  <2> QED BY <2>1, <2>2, OnlyLaunch
<1>9. CASE WaitReturns(l) \/ FailLoop(l)
  <2>1. Others BY <1>9 DEF WaitReturns, FailLoop, Exit, Handle
  <2>2. Mine
    BY <1>0, <1>9 DEF WaitReturns, FailLoop, Exit, Handle, Uncovered, Orphan, Covered
  <2> QED BY <2>1, <2>2, OnlyLaunch
<1>10. CASE CleanTerm(l) \/ CleanKill(l)
  <2>1. PICK S : vm' = End(S) /\ (pc[l] = "cl_kill" => S = OnList(l))
    BY <1>10 DEF CleanTerm, CleanKill
  <2>2. \A v \in VMs : vm'[v] \in Live => vm[v] \in Live /\ v \notin S
    BY <2>1, EndOnlyEnds
  <2>3. Others
    <3>1. \A m \in Launches, j \in Instances : <<m, j>> \in VMs
      BY DEF VMs
    <3> QED BY <1>10, <2>2, <3>1 DEF CleanTerm, CleanKill
  <2>4. Mine
    <3>1. stray' = stray /\ pids' = pids
      BY <1>10 DEF CleanTerm, CleanKill
    <3>2. ASSUME NEW j \in Instances, Uncovered(l, j)' PROVE FALSE
      <4>1. vm[<<l, j>>] \in Live /\ <<l, j>> \notin S
        BY <1>1, <2>2, <3>2 DEF Uncovered
      <4>2. j \in pids[l]
        BY <1>0, <1>10, <3>1, <3>2, <4>1
        DEF CleanTerm, CleanKill, Uncovered, Orphan, Covered
      <4>3. CASE CleanTerm(l)
        BY <3>1, <3>2, <4>2, <4>3 DEF CleanTerm, Uncovered, Covered
      <4>4. CASE CleanKill(l)
        BY <2>1, <4>1, <4>2, <4>4 DEF CleanKill, OnList
      <4> QED BY <1>10, <4>3, <4>4
    <3> QED BY <3>1, <3>2
  <2> QED BY <2>3, <2>4, OnlyLaunch
<1>11. CASE CleanDirs(l) \/ CleanDevices(l) \/ CleanPool(l)
  <2>1. Others BY <1>11 DEF CleanDirs, CleanDevices, CleanPool
  <2>2. Mine
    BY <1>0, <1>11 DEF CleanDirs, CleanDevices, CleanPool, Uncovered, Orphan, Covered
  <2> QED BY <2>1, <2>2, OnlyLaunch
<1>12. CASE FailPrelude(l) \/ LauncherDies(l)
  <2>1. Others BY <1>12 DEF FailPrelude, LauncherDies
  <2>2. Mine
    BY <1>0, <1>12 DEF FailPrelude, LauncherDies, Uncovered, Orphan, Covered
  <2> QED BY <2>1, <2>2, OnlyLaunch
<1>13. CASE Interrupt(l)
  <2>1. Others BY <1>13 DEF Interrupt, Handle
  <2>2. Mine
    BY <1>0, <1>13 DEF Interrupt, Handle, Uncovered, Orphan, Covered
  <2> QED BY <2>1, <2>2, OnlyLaunch
<1> QED
  BY <1>2, <1>3, <1>4, <1>5, <1>6, <1>7, <1>8, <1>9, <1>10, <1>11, <1>12, <1>13
  DEF Proceed, Disturb

\* VM processes, kill_firecracker.sh and stuttering: they move no launch.
LEMMA RestKeepsCleanupAhead ==
  ASSUME TypeInv, CleanupAhead,
         \/ \E l \in Launches, j \in Instances : VmStep(l, j) \/ VmEnds(l, j)
         \/ Discover \/ Killer \/ UNCHANGED vars
  PROVE  CleanupAhead'
<1> USE DEF TypeInv, VmTypeOK, Live
<1>1. UNCHANGED <<launchVars, stray>>
  BY DEF VmStep, VmStart, VmRefuses, VmEnds, Discover, Killer, KillStrays, CtrlAltDel,
         KillNamed, RemoveTaps, RemoveDirs, vars
<1>2. ASSUME NEW S, vm' = End(S) PROVE CleanupAhead'
  BY <1>1, <1>2, EndOnlyEnds, OnlyVMs
<1>3. CASE vm' = vm
  BY <1>1, <1>3, OnlyVMs
<1>4. ASSUME NEW l \in Launches, NEW j \in Instances, VmStep(l, j) \/ VmEnds(l, j)
      PROVE  CleanupAhead'
  <2>1. CASE VmStart(l, j)
    <3>1. \A v \in VMs : vm'[v] \in Live => vm[v] \in Live
      BY <2>1 DEF VmStart
    <3> QED BY <1>1, <3>1, OnlyVMs
  <2>2. CASE VmRefuses(l, j) \/ VmEnds(l, j)
    BY <1>2, <2>2 DEF VmRefuses, VmEnds
  <2> QED BY <1>4, <2>1, <2>2 DEF VmStep
<1>5. CASE Discover \/ Killer
  <2>1. CASE Discover \/ RemoveTaps \/ RemoveDirs
    BY <1>3, <2>1 DEF Discover, RemoveTaps, RemoveDirs
  <2>2. CASE KillStrays \/ CtrlAltDel \/ KillNamed
    BY <1>2, <2>2 DEF KillStrays, CtrlAltDel, KillNamed
  <2> QED BY <1>5, <2>1, <2>2 DEF Killer
<1>6. CASE UNCHANGED vars
  BY <1>3, <1>6 DEF vars
<1> QED BY <1>4, <1>5, <1>6

LEMMA CleanupAheadInvariance == Spec => []CleanupAhead
<1>1. Init => CleanupAhead
  BY DEF Init, CleanupAhead, VMs, Live
<1>2. TypeInv /\ CleanupAhead /\ [Next]_vars => CleanupAhead'
  BY LaunchKeepsCleanupAhead, RestKeepsCleanupAhead DEF Next
<1> QED BY <1>1, <1>2, TypeInvariance, PTL DEF Spec

\* Every live VM that is no orphan is on the kill list of its launch, or its fork
\* is being recorded, in a host of any size with any number of launches.
THEOREM KillList == Spec => []KillListComplete
<1>1. CleanupAhead => KillListComplete
  BY DEF CleanupAhead, KillListComplete
<1> QED BY <1>1, CleanupAheadInvariance, PTL

\* A launch that ended through its handler leaves no VM of its own alive except
\* the stray ones, whatever signals, crashes, kills and other launches come between
\* its commands.
THEOREM Teardown == Spec => []TeardownEndsVMs
<1>1. CleanupAhead => TeardownEndsVMs
  BY DEF CleanupAhead, TeardownEndsVMs, Orphan, Loop
<1> QED BY <1>1, CleanupAheadInvariance, PTL

(***************************************************************************)
(* Fleet implements FleetAbstract under the mapping of FleetProps: every   *)
(* command of a launcher is a step of the promise, or invisible in it.  A  *)
(* launch may call itself over because CleanupAhead leaves it no VM to     *)
(* answer for by then.                                                     *)
(***************************************************************************)
\* While the handler runs it is disarmed, so the shell resumes without one.
HandlerOff == \A l \in Launches : pc[l] \in Cleanup => ~trap[l]

LEMMA HandlerOffInvariance == Spec => []HandlerOff
<1>1. Init => HandlerOff
  BY DEF Init, HandlerOff
<1>2. TypeInv /\ HandlerOff /\ [Next]_vars => HandlerOff'
  <2> SUFFICES ASSUME TypeInv, HandlerOff, [Next]_vars PROVE HandlerOff'
    OBVIOUS
  <2> USE DEF HandlerOff, TypeInv, LaunchInv, LaunchTypeOK, PCs, Prelude, Loop, Cleanup,
              Ended, Goto
  <2>1. ASSUME NEW l \in Launches, Preflight(l) PROVE HandlerOff'
    BY <2>1 DEF Preflight
  <2>2. ASSUME NEW l \in Launches, Proceed(l) PROVE HandlerOff'
    <3>1. CASE ClearDirs(l) \/ SetupTaps(l) \/ ClearPool(l) \/ SetPool(l) \/ WriteConfigs(l)
      BY <3>1 DEF ClearDirs, SetupTaps, ClearPool, SetPool, WriteConfigs
    <3>2. CASE RegisterCleanup(l) \/ Fork(l) \/ AppendPid(l) \/ LoopEnds(l)
      BY <3>2 DEF RegisterCleanup, Fork, AppendPid, LoopEnds
    <3>3. CASE WritePidFile(l) \/ WaitReturns(l)
      BY <3>3 DEF WritePidFile, WaitReturns, Exit, Handle
    <3>4. CASE CleanTerm(l) \/ CleanKill(l) \/ CleanDirs(l) \/ CleanDevices(l) \/ CleanPool(l)
      BY <3>4 DEF CleanTerm, CleanKill, CleanDirs, CleanDevices, CleanPool
    <3> QED BY <2>2, <3>1, <3>2, <3>3, <3>4 DEF Proceed
  <2>3. ASSUME NEW l \in Launches, Disturb(l) PROVE HandlerOff'
    BY <2>3 DEF Disturb, FailPrelude, FailLoop, Interrupt, LauncherDies, Exit, Handle
  <2>4. ASSUME UNCHANGED launchVars PROVE HandlerOff'
    BY <2>4 DEF launchVars
  <2>5. ASSUME NEW l \in Launches, NEW j \in Instances, VmStep(l, j) \/ VmEnds(l, j)
        PROVE  UNCHANGED launchVars
    BY <2>5 DEF VmStep, VmStart, VmRefuses, VmEnds
  <2>6. ASSUME Discover \/ Killer PROVE UNCHANGED launchVars
    BY <2>6 DEF Discover, Killer, KillStrays, CtrlAltDel, KillNamed, RemoveTaps, RemoveDirs
  <2>7. ASSUME UNCHANGED vars PROVE UNCHANGED launchVars
    BY <2>7 DEF vars, launchVars
  <2> QED BY <2>1, <2>2, <2>3, <2>4, <2>5, <2>6, <2>7 DEF Next
<1> QED BY <1>1, <1>2, TypeInvariance, PTL DEF Spec

(***************************************************************************)
(* How the mapped variables move.                                          *)
(***************************************************************************)
\* A step of launch l moves no other launch's stage.
LEMMA StageMoves ==
  ASSUME NEW l \in Launches,
         \A m \in Launches \ {l} : pc'[m] = pc[m] /\ trap'[m] = trap[m]
  PROVE  StageMap' = [StageMap EXCEPT ![l] = Stage(l)']
<1>1. \A m \in Launches \ {l} : Stage(m)' = Stage(m)
  BY DEF Stage
<1> QED BY <1>1 DEF StageMap

LEMMA StageStays ==
  ASSUME NEW l \in Launches,
         \A m \in Launches \ {l} : pc'[m] = pc[m] /\ trap'[m] = trap[m],
         Stage(l)' = Stage(l)
  PROVE  StageMap' = StageMap
  BY StageMoves DEF StageMap

\* The VMs cared for are the same if no process, no orphan and no death is new.
LEMMA OursStay ==
  ASSUME vm' = vm, stray' = stray,
         \A m \in Launches : pc'[m] = "killed" <=> pc[m] = "killed"
  PROVE  Ours' = Ours
<1>1. \A v \in VMs : CaredFor(v)' <=> CaredFor(v)
  BY DEF CaredFor, Orphan, VMs
<1> QED BY <1>1 DEF Ours

\* The end of processes is the step EndVms of the promise.
LEMMA VmsEnd ==
  ASSUME VmTypeOK, UNCHANGED <<launchVars, stray>>,
         \A v \in VMs : vm'[v] \in Live => vm[v] \in Live
  PROVE  [Abstract!Next]_Abstract!vars
<1>1. Ours' \subseteq Ours
  BY DEF Ours, CaredFor, Orphan, launchVars
<1>2. Ours' = Ours \ (Ours \ Ours') /\ (Ours \ Ours') \in SUBSET Ours
  BY <1>1
<1>3. StageMap' = StageMap
  BY DEF StageMap, Stage, launchVars
<1>4. Abstract!EndVms
  BY <1>2, <1>3 DEF Abstract!EndVms
<1> QED BY <1>4 DEF Abstract!Next

\* The step of the promise for each move a launch can make.
LEMMA Moves ==
  ASSUME NEW l \in Launches,
         \A m \in Launches \ {l} : pc'[m] = pc[m] /\ trap'[m] = trap[m],
         \/ Stage(l) = "idle" /\ Stage(l)' \in {"idle", "running", "over"} /\ Ours' = Ours
         \/ Stage(l) = "running" /\ Stage(l)' \in {"running", "stopping"} /\ Ours' = Ours
         \/ Stage(l) = "stopping" /\ Stage(l)' = "stopping" /\ Ours' = Ours
         \/ /\ Stage(l) = "stopping" /\ Stage(l)' = "over" /\ Ours' = Ours
            /\ \A j \in Instances : ~CaredFor(<<l, j>>)
  PROVE  [Abstract!Next]_Abstract!vars
<1>1. StageMap' = [StageMap EXCEPT ![l] = Stage(l)'] /\ StageMap[l] = Stage(l)
  BY StageMoves DEF StageMap
<1>2. CASE Stage(l)' = Stage(l) /\ Ours' = Ours
  BY <1>2, StageStays DEF Abstract!vars
<1>3. CASE Stage(l) = "idle" /\ Stage(l)' = "running" /\ Ours' = Ours
  BY <1>1, <1>3 DEF Abstract!Next, Abstract!Begin, Abstract!Become
<1>4. CASE Stage(l) = "idle" /\ Stage(l)' = "over" /\ Ours' = Ours
  BY <1>1, <1>4 DEF Abstract!Next, Abstract!Refuse, Abstract!Become
<1>5. CASE Stage(l) = "running" /\ Stage(l)' = "stopping" /\ Ours' = Ours
  BY <1>1, <1>5 DEF Abstract!Next, Abstract!Stop, Abstract!Become
<1>6. CASE /\ Stage(l) = "stopping" /\ Stage(l)' = "over" /\ Ours' = Ours
           /\ \A j \in Instances : ~CaredFor(<<l, j>>)
  <2>1. Abstract!OursOf(l) = {}
    BY <1>6 DEF Abstract!OursOf, Ours, VMs
  <2> QED
    BY <1>1, <1>6, <2>1 DEF Abstract!Next, Abstract!Finish, Abstract!Become
<1> QED BY <1>2, <1>3, <1>4, <1>5, <1>6

(***************************************************************************)
(* The steps.                                                              *)
(***************************************************************************)
\* Out of its loop with the handler disarmed, or past its kill -9, a launch has no
\* VM to answer for.
LEMMA NothingLeft ==
  ASSUME CleanupAhead, NEW l \in Launches,
         (pc[l] \in Loop \cup {"wait"} /\ ~trap[l]) \/ pc[l] = "cl_pool",
         NEW j \in Instances
  PROVE  ~CaredFor(<<l, j>>)
  BY DEF CleanupAhead, CaredFor, Orphan, Loop

LEMMA LaunchRefines ==
  ASSUME TypeInv, HandlerOff, CleanupAhead, NEW l \in Launches,
         Preflight(l) \/ Proceed(l) \/ Disturb(l)
  PROVE  [Abstract!Next]_Abstract!vars
<1> USE DEF TypeInv, LaunchInv, LaunchTypeOK, PCs, Prelude, Loop, Cleanup, Ended, Goto
<1> DEFINE Others == \A m \in Launches \ {l} : pc'[m] = pc[m] /\ trap'[m] = trap[m]
           Quiet  == /\ vm' = vm /\ stray' = stray
                     /\ pc[l] # "killed" /\ pc'[l] # "killed"
<1>0. ASSUME Others, Quiet PROVE Ours' = Ours
  BY <1>0, OursStay
<1>1. CASE Preflight(l)
  <2>1. Others /\ Quiet BY <1>1 DEF Preflight
  <2>2. Stage(l) = "idle" /\ Stage(l)' \in {"idle", "over"}
    BY <1>1 DEF Preflight, Stage
  <2> QED BY <1>0, <2>1, <2>2, Moves
<1>2. CASE \/ ClearDirs(l) \/ SetupTaps(l) \/ ClearPool(l) \/ SetPool(l) \/ WriteConfigs(l)
           \/ FailPrelude(l)
  <2>1. Others /\ Quiet
    BY <1>2 DEF ClearDirs, SetupTaps, ClearPool, SetPool, WriteConfigs, FailPrelude
  <2>2. Stage(l) = "idle" /\ Stage(l)' \in {"idle", "over"}
    BY <1>2 DEF ClearDirs, SetupTaps, ClearPool, SetPool, WriteConfigs, FailPrelude, Stage
  <2> QED BY <1>0, <2>1, <2>2, Moves
<1>3. CASE RegisterCleanup(l)
  <2>1. Others /\ Quiet BY <1>3 DEF RegisterCleanup
  <2>2. Stage(l) = "idle" /\ Stage(l)' = "running"
    BY <1>3 DEF RegisterCleanup, Stage
  <2> QED BY <1>0, <2>1, <2>2, Moves
<1>4. CASE Fork(l)
  <2>1. Others BY <1>4 DEF Fork
  <2>2. Stage(l)' = Stage(l)
    BY <1>4 DEF Fork, Stage
  <2>3. StageMap' = StageMap
    BY <2>1, <2>2, StageStays
  <2>4. at[l] \in Instances /\ <<l, at[l]>> \in VMs
    BY <1>4, MaxNAssumption DEF Fork, Instances, VMs
  <2>5. \A v \in VMs \ {<<l, at[l]>>} : CaredFor(v)' <=> CaredFor(v)
    BY <1>4 DEF Fork, CaredFor, Orphan, VMs, VmTypeOK
  <2>6. CASE trap[l] /\ <<l, at[l]>> \notin stray
    <3>1. CaredFor(<<l, at[l]>>)'
      BY <1>4, <2>4, <2>6 DEF Fork, CaredFor, Orphan, VmTypeOK, Live
    <3>2. Ours' = Ours \cup {<<l, at[l]>>}
      BY <1>4, <2>4, <2>5, <3>1 DEF Fork, Ours
    <3>3. Stage(l) = "running"
      BY <1>4, <2>6 DEF Fork, Stage
    <3>4. CASE <<l, at[l]>> \in Ours
      BY <2>3, <3>2, <3>4 DEF Abstract!vars
    <3>5. CASE <<l, at[l]>> \notin Ours
      <4>1. Abstract!StartVm(l)
        <5>1. <<l, at[l]>> \in Abstract!VMs
          BY <2>4 DEF Abstract!VMs, VMs, Instances
        <5>2. StageMap[l] = "running"
          BY <3>3 DEF StageMap
        <5> QED BY <2>3, <3>2, <3>5, <5>1, <5>2 DEF Abstract!StartVm
      <4> QED BY <4>1 DEF Abstract!Next
    <3> QED BY <3>4, <3>5
  <2>7. CASE ~trap[l] \/ <<l, at[l]>> \in stray
    <3>1. ~CaredFor(<<l, at[l]>>)'
      BY <1>4, <2>4, <2>7 DEF Fork, CaredFor, Orphan
    <3>2. ~CaredFor(<<l, at[l]>>)
      BY <1>4, <2>4, <2>7, NothingLeft DEF Fork, CaredFor, Orphan
    <3>3. Ours' = Ours
      BY <1>4, <2>5, <3>1, <3>2 DEF Fork, Ours
    <3> QED BY <2>3, <3>3 DEF Abstract!vars
  <2> QED BY <2>6, <2>7
<1>5. CASE AppendPid(l) \/ LoopEnds(l)
  <2>1. Others /\ Quiet BY <1>5 DEF AppendPid, LoopEnds
  <2>2. Stage(l)' = Stage(l) /\ Stage(l) \in {"running", "stopping"}
    BY <1>5 DEF AppendPid, LoopEnds, Stage
  <2> QED BY <1>0, <2>1, <2>2, Moves
<1>6. CASE WritePidFile(l) \/ WaitReturns(l) \/ FailLoop(l)
  <2>1. Others /\ Quiet
    BY <1>6 DEF WritePidFile, WaitReturns, FailLoop, Exit, Handle
  <2>2. pc[l] \in Loop \cup {"wait"}
    BY <1>6 DEF WritePidFile, WaitReturns, FailLoop
  <2>3. CASE trap[l]
    <3>1. Stage(l) = "running" /\ Stage(l)' \in {"running", "stopping"}
      BY <1>6, <2>2, <2>3 DEF WritePidFile, WaitReturns, FailLoop, Exit, Handle, Stage
    <3> QED BY <1>0, <2>1, <3>1, Moves
  <2>4. CASE ~trap[l]
    <3>1. Stage(l) = "stopping" /\ Stage(l)' \in {"stopping", "over"}
      BY <1>6, <2>2, <2>4 DEF WritePidFile, WaitReturns, FailLoop, Exit, Handle, Stage
    <3>2. \A j \in Instances : ~CaredFor(<<l, j>>)
      BY <2>2, <2>4, NothingLeft
    <3> QED BY <1>0, <2>1, <3>1, <3>2, Moves
  <2> QED BY <2>3, <2>4
<1>7. CASE CleanTerm(l) \/ CleanKill(l)
  <2>1. Others /\ Stage(l)' = Stage(l) /\ stray' = stray
    BY <1>7 DEF CleanTerm, CleanKill, Stage
  <2>2. StageMap' = StageMap
    BY <2>1, StageStays
  <2>3. PICK S : vm' = End(S)
    BY <1>7 DEF CleanTerm, CleanKill
  <2>4. \A m \in Launches : pc'[m] = "killed" <=> pc[m] = "killed"
    BY <1>7 DEF CleanTerm, CleanKill
  <2>5. Ours' \subseteq Ours
    <3>1. \A v \in VMs : vm'[v] \in Live => vm[v] \in Live
      BY <2>3, EndOnlyEnds
    <3> QED BY <2>1, <2>4, <3>1 DEF Ours, CaredFor, Orphan, VMs
  <2>6. Ours' = Ours \ (Ours \ Ours') /\ (Ours \ Ours') \in SUBSET Ours
    BY <2>5
  <2>7. Abstract!EndVms
    BY <2>2, <2>6 DEF Abstract!EndVms
  <2> QED BY <2>7 DEF Abstract!Next
<1>8. CASE CleanDirs(l) \/ CleanDevices(l)
  <2>1. Others /\ Quiet BY <1>8 DEF CleanDirs, CleanDevices
  <2>2. Stage(l) = "stopping" /\ Stage(l)' = "stopping"
    BY <1>8 DEF CleanDirs, CleanDevices, Stage
  <2> QED BY <1>0, <2>1, <2>2, Moves
<1>9. CASE CleanPool(l)
  <2>1. ret[l] \in Loop \cup {"done"} /\ ~trap[l]
    BY <1>9 DEF CleanPool, HandlerOff
  <2>2. Others /\ Quiet BY <1>9, <2>1 DEF CleanPool
  <2>3. Stage(l) = "stopping" /\ Stage(l)' \in {"stopping", "over"}
    BY <1>9, <2>1 DEF CleanPool, Stage
  <2>4. \A j \in Instances : ~CaredFor(<<l, j>>)
    BY <1>9, NothingLeft DEF CleanPool
  <2> QED BY <1>0, <2>2, <2>3, <2>4, Moves
<1>10. CASE Interrupt(l)
  <2>1. /\ Others /\ vm' = vm
        /\ Stage(l) = "running" /\ Stage(l)' = "stopping"
    BY <1>10 DEF Interrupt, Handle, Stage
  <2>2. StageMap' = [StageMap EXCEPT ![l] = "stopping"] /\ StageMap[l] = "running"
    BY <2>1, StageMoves DEF StageMap
  <2>3. \A m \in Launches : pc'[m] # "killed" <=> pc[m] # "killed"
    BY <1>10 DEF Interrupt, Handle
  <2>4. CASE pc[l] # "append"
    <3>1. Ours' = Ours
      BY <1>10, <2>1, <2>3, <2>4, OursStay DEF Interrupt
    <3> QED BY <2>1, <3>1, Moves
  <2>5. CASE pc[l] = "append"
    <3>1. stray' = stray \cup {<<l, at[l]>>}
      BY <1>10, <2>5 DEF Interrupt
    <3>2. Ours' = Ours \ {<<l, at[l]>>}
      BY <2>1, <2>3, <3>1 DEF Ours, CaredFor, Orphan, VMs
    <3>3. CASE <<l, at[l]>> \in Ours
      <4>1. <<l, at[l]>> \in Abstract!OursOf(l)
        BY <3>3 DEF Abstract!OursOf
      <4>2. Abstract!Stop(l)
        BY <2>2, <3>2, <4>1 DEF Abstract!Stop, Abstract!Become
      <4> QED BY <4>2 DEF Abstract!Next
    <3>4. CASE <<l, at[l]>> \notin Ours
      BY <2>1, <3>2, <3>4, Moves
    <3> QED BY <3>3, <3>4
  <2> QED BY <2>4, <2>5
<1>11. CASE LauncherDies(l)
  <2>1. Others /\ Stage(l) \in {"idle", "running", "stopping"} /\ Stage(l)' = "lost"
    BY <1>11 DEF LauncherDies, Stage
  <2>2. StageMap' = [StageMap EXCEPT ![l] = "lost"] /\ StageMap[l] = Stage(l)
    BY <2>1, StageMoves DEF StageMap
  <2>3. \A v \in VMs : CaredFor(v)' <=> CaredFor(v) /\ v[1] # l
    BY <1>11 DEF LauncherDies, CaredFor, Orphan, VMs
  <2>4. Ours' = Ours \ Abstract!OursOf(l)
    BY <2>3 DEF Ours, Abstract!OursOf
  <2>5. Abstract!Die(l)
    BY <2>1, <2>2, <2>4 DEF Abstract!Die, Abstract!Become
  <2> QED BY <2>5 DEF Abstract!Next
<1> QED
  BY <1>1, <1>2, <1>3, <1>4, <1>5, <1>6, <1>7, <1>8, <1>9, <1>10, <1>11 DEF Proceed, Disturb

LEMMA RestRefines ==
  ASSUME TypeInv,
         \/ \E l \in Launches, j \in Instances : VmStep(l, j) \/ VmEnds(l, j)
         \/ Discover \/ Killer \/ UNCHANGED vars
  PROVE  [Abstract!Next]_Abstract!vars
<1> USE DEF TypeInv
<1>1. UNCHANGED <<launchVars, stray>>
  BY DEF VmStep, VmStart, VmRefuses, VmEnds, Discover, Killer, KillStrays, CtrlAltDel,
         KillNamed, RemoveTaps, RemoveDirs, vars
<1>2. \A v \in VMs : vm'[v] \in Live => vm[v] \in Live
  <2>1. ASSUME NEW S, vm' = End(S) PROVE \A v \in VMs : vm'[v] \in Live => vm[v] \in Live
    BY <2>1, EndOnlyEnds
  <2>2. ASSUME NEW l \in Launches, NEW j \in Instances, VmStep(l, j) \/ VmEnds(l, j)
        PROVE  \A v \in VMs : vm'[v] \in Live => vm[v] \in Live
    <3>1. CASE VmStart(l, j)
      BY <3>1 DEF VmStart, VmTypeOK, Live
    <3>2. CASE VmRefuses(l, j) \/ VmEnds(l, j)
      BY <2>1, <3>2 DEF VmRefuses, VmEnds
    <3> QED BY <2>2, <3>1, <3>2 DEF VmStep
  <2>3. CASE KillStrays \/ CtrlAltDel \/ KillNamed
    BY <2>1, <2>3 DEF KillStrays, CtrlAltDel, KillNamed
  <2>4. CASE Discover \/ RemoveTaps \/ RemoveDirs \/ UNCHANGED vars
    BY <2>4 DEF Discover, RemoveTaps, RemoveDirs, vars
  <2> QED BY <2>2, <2>3, <2>4 DEF Killer
<1> QED BY <1>1, <1>2, VmsEnd

\* run_firecracker.sh keeps the promise of FleetAbstract in every behaviour, for any
\* number of launches and instances and whatever faults strike them.
THEOREM Refinement == Spec => KeepsPromise
<1>1. Init => Abstract!Init
  <2> SUFFICES ASSUME Init PROVE Abstract!Init
    OBVIOUS
  <2>1. StageMap = [l \in Launches |-> "idle"]
    BY DEF Init, StageMap, Stage, Loop, Cleanup
  <2>2. Ours = {}
    BY DEF Init, Ours, CaredFor, Live
  <2> QED BY <2>1, <2>2 DEF Abstract!Init
<1>2. TypeInv /\ HandlerOff /\ CleanupAhead /\ [Next]_vars => [Abstract!Next]_Abstract!vars
  BY LaunchRefines, RestRefines DEF Next
<1> QED
  BY <1>1, <1>2, TypeInvariance, HandlerOffInvariance, CleanupAheadInvariance, PTL
  DEF Spec, KeepsPromise, Abstract!Spec

(***************************************************************************)
(* Launches that do not overlap, as the scripts demand of their operator:  *)
(* what one launch leaves to the next, and what a kill_firecracker.sh that *)
(* comes at any moment finds.  The inductive invariant comes in parts.     *)
(***************************************************************************)
\* A launch that has begun and not ended.
Busy(l) == pc[l] \notin {"idle"} \cup Ended

\* Its handler has run, and the shell went on with the launch loop.
Resumed(l) == pc[l] \in Loop \cup {"wait"} /\ ~trap[l]

\* How far its cleanup got: past the rm -rf, the devices, the pool.
PastDirs(l)    == pc[l] \in {"cl_dev", "cl_pool", "done"} \/ Resumed(l)
PastDevices(l) == pc[l] \in {"cl_pool", "done"} \/ Resumed(l)
PastPool(l)    == pc[l] = "done" \/ Resumed(l)

\* It may have forked VMs.
Launching(l) == pc[l] \notin {"idle", "failed"} \cup Prelude

\* Launches take turns, and a VM on its way to exec belongs to whose turn it is.
OneAtATime ==
  /\ \A l, m \in Launches : Busy(l) /\ Busy(m) => l = m
  /\ \A l, m \in Launches, i \in Instances : vm[<<l, i>>] = "starting" /\ Busy(m) => l = m
  /\ \A l, m \in Launches, i, j \in Instances :
       vm[<<l, i>>] = "starting" /\ vm[<<m, j>>] = "starting" => l = m

\* VMs are forked in the order of their index, each one once; a launch with a stray
\* VM has lost its handler.
InOrder(l, j) ==
  /\ vm[<<l, j>>] # "none" =>
       /\ Launching(l) /\ j < n[l] /\ j <= at[l]
       /\ pc[l] = "fork" \/ (pc[l] \in Cleanup /\ ret[l] = "fork") => j < at[l]
  /\ <<l, j>> \in stray => Launching(l) /\ ~trap[l]

ForkedSoFar ==
  /\ \A l \in Launches, j \in Instances : InOrder(l, j)
  /\ \A v \in VMs : seen[v] = "named" => vm[v] \in {"up", "gone"}

\* Who may own what: a socket is that of a VM that has exec'd, a pid file names one
\* that was recorded, and both are past the point where a signal makes a stray.
Owners ==
  \A l \in Launches, j \in Instances :
    /\ sock[j] = l => vm[<<l, j>>] \in {"up", "gone"}
    /\ vm[<<l, j>>] = "starting" => sock[j] = NoLaunch
    /\ pidf[j] = l => Launching(l) /\ j < at[l] /\ <<l, j>> \notin stray
    /\ tap[j] = l => pc[l] # "idle" /\ j < n[l]

\* What earlier launches left is gone, resource by resource as the prelude goes on.
Inherits ==
  \A l \in Launches : Busy(l) /\ pc[l] # "clear" =>
    /\ \A j \in Instances : {sock[j], cfg[j], pidf[j]} \subseteq {l, NoLaunch}
    /\ pc[l] # "taps" => \A j \in Requested(l) : tap[j] \in {l, NoLaunch}
    /\ pc[l] \notin {"taps", "unpool"} /\ cgok[l] => pool \in {l, NoLaunch}

\* What a launch's own cleanup has removed does not come back.
Freed ==
  \A l \in Launches :
    /\ PastDirs(l) => /\ Busy(l) => ~sdir
                      /\ \A j \in Instances : /\ l \notin {cfg[j], pidf[j]}
                                              /\ sock[j] = l => <<l, j>> \in stray
    /\ PastDevices(l) => \A j \in Instances : tap[j] # l
    /\ PastPool(l) => pool # l

\* A cgroup leaf is there for a VM that joined it and whose launch has not removed it,
\* or could not know of it.
LeafOwned ==
  \A j \in leaf : \E m \in Launches :
    /\ vm[<<m, j>>] \in {"up", "gone"}
    /\ <<m, j>> \in stray \/ ~PastDevices(m)

\* Between the look at the sockets and the SIGKILLs, a VM that was named then is
\* dead or still named; afterwards it is dead.
NamedUntilKilled ==
  /\ kpc = "pkill" => insts = {}
  /\ \A l \in Launches, j \in Instances : seen[<<l, j>>] = "named" =>
       /\ kpc \in {"cad", "kill"} => j \in insts /\ (vm[<<l, j>>] \in Live => pidf[j] = l)
       /\ kpc \in {"taps", "rm"} /\ insts # {} => vm[<<l, j>>] \notin Live

(***************************************************************************)
(* What a step can change.                                                 *)
(***************************************************************************)
\* A step of launch l leaves the variables of the others alone, their VMs included.
OthersKept(l) ==
  \A m \in Launches \ {l} :
    /\ pc'[m] = pc[m] /\ n'[m] = n[m] /\ at'[m] = at[m]
    /\ trap'[m] = trap[m] /\ ret'[m] = ret[m] /\ cgok'[m] = cgok[m]
    /\ \A j \in Instances :
         vm'[<<m, j>>] = vm[<<m, j>>] /\ (<<m, j>> \in stray' <=> <<m, j>> \in stray)

\* VM processes may end, nothing else happens to them.
OnlyEnds ==
  \A l \in Launches, j \in Instances :
    \/ vm'[<<l, j>>] = vm[<<l, j>>]
    \/ vm[<<l, j>>] \in Live /\ vm'[<<l, j>>] = "gone"

LEMMA EndIsOnlyEnds ==
  ASSUME VmTypeOK, NEW S, vm' = End(S)
  PROVE  OnlyEnds
  BY DEF VmTypeOK, VMs, End, OnlyEnds

LEMMA LaunchKeepsOthers ==
  ASSUME TypeInv, NEW l \in Launches, Preflight(l) \/ Proceed(l) \/ Disturb(l)
  PROVE  OthersKept(l)
<1> USE DEF TypeInv, LaunchInv, LaunchTypeOK, VmTypeOK, OthersKept, Goto
<1>0. \A m \in Launches, j \in Instances : <<m, j>> \in VMs
  BY DEF VMs
<1>1. CASE Preflight(l)
  BY <1>1 DEF Preflight
<1>2. CASE Proceed(l)
  <2>1. CASE ClearDirs(l) \/ SetupTaps(l) \/ ClearPool(l) \/ SetPool(l) \/ WriteConfigs(l)
    BY <2>1 DEF ClearDirs, SetupTaps, ClearPool, SetPool, WriteConfigs
  <2>2. CASE RegisterCleanup(l) \/ AppendPid(l) \/ LoopEnds(l)
    BY <2>2 DEF RegisterCleanup, AppendPid, LoopEnds
  <2>3. CASE Fork(l)
    BY <1>0, <2>3 DEF Fork
  <2>4. CASE WritePidFile(l) \/ WaitReturns(l)
    BY <2>4 DEF WritePidFile, WaitReturns, Exit, Handle
  <2>5. CASE CleanTerm(l) \/ CleanKill(l)
    <3>1. PICK S \in SUBSET OnList(l) : vm' = End(S)
      BY <2>5 DEF CleanTerm, CleanKill
    <3>2. \A m \in Launches \ {l}, j \in Instances : <<m, j>> \notin S
      BY DEF OnList
    <3> QED BY <1>0, <2>5, <3>1, <3>2 DEF CleanTerm, CleanKill, End
  <2>6. CASE CleanDirs(l) \/ CleanDevices(l) \/ CleanPool(l)
    BY <2>6 DEF CleanDirs, CleanDevices, CleanPool
  <2> QED BY <1>2, <2>1, <2>2, <2>3, <2>4, <2>5, <2>6 DEF Proceed
<1>3. CASE Disturb(l)
  <2>1. CASE FailPrelude(l) \/ LauncherDies(l) \/ FailLoop(l)
    BY <2>1 DEF FailPrelude, LauncherDies, FailLoop, Exit, Handle
  <2>2. CASE Interrupt(l)
    BY <2>2 DEF Interrupt, Handle
  <2> QED BY <1>3, <2>1, <2>2 DEF Disturb
<1> QED BY <1>1, <1>2, <1>3

\* The steps that are no launch's: VM processes, kill_firecracker.sh, stuttering.
HostStep ==
  \/ \E l \in Launches, j \in Instances : VmStep(l, j) \/ VmEnds(l, j)
  \/ Discover \/ Killer \/ UNCHANGED vars

LEMMA RestKeepsLaunches ==
  ASSUME HostStep
  PROVE  UNCHANGED <<launchVars, stray>>
  BY DEF HostStep, VmStep, VmStart, VmRefuses, VmEnds, Discover, Killer, KillStrays,
         CtrlAltDel, KillNamed, RemoveTaps, RemoveDirs, vars

\* Of them only the start of a VM does more to the VMs than end some.
LEMMA RestEndsVMs ==
  ASSUME TypeInv, HostStep,
         ~\E l \in Launches, j \in Instances : VmStart(l, j)
  PROVE  OnlyEnds
<1> USE DEF TypeInv
<1>1. CASE vm' = vm
  BY <1>1 DEF OnlyEnds
<1>2. ASSUME NEW S, vm' = End(S) PROVE OnlyEnds
  BY <1>2, EndIsOnlyEnds
<1>3. CASE \E l \in Launches, j \in Instances : VmRefuses(l, j) \/ VmEnds(l, j)
  BY <1>2, <1>3 DEF VmRefuses, VmEnds
<1>4. CASE KillStrays \/ CtrlAltDel \/ KillNamed
  BY <1>2, <1>4 DEF KillStrays, CtrlAltDel, KillNamed
<1>5. CASE Discover \/ RemoveTaps \/ RemoveDirs \/ UNCHANGED vars
  BY <1>1, <1>5 DEF Discover, RemoveTaps, RemoveDirs, vars
<1> QED BY <1>3, <1>4, <1>5 DEF HostStep, VmStep, Killer

\* The start of a VM.
LEMMA StartOf ==
  ASSUME TypeInv, NEW l \in Launches, NEW j \in Instances, VmStart(l, j)
  PROVE  /\ vm[<<l, j>>] = "starting" /\ vm'[<<l, j>>] = "up"
         /\ \A m \in Launches, i \in Instances :
              m # l \/ i # j => vm'[<<m, i>>] = vm[<<m, i>>]
<1>1. \A m \in Launches, i \in Instances : <<m, i>> \in VMs
  BY DEF VMs
<1> QED BY <1>1 DEF VmStart, TypeInv, VmTypeOK

LEMMA StartsOne ==
  ASSUME TypeInv, \E l \in Launches, j \in Instances : VmStart(l, j),
         NEW m \in Launches, NEW i \in Instances
  PROVE  \/ vm'[<<m, i>>] = vm[<<m, i>>]
         \/ vm[<<m, i>>] = "starting" /\ vm'[<<m, i>>] = "up"
<1>1. ASSUME NEW l \in Launches, NEW j \in Instances, VmStart(l, j)
      PROVE  \/ vm'[<<m, i>>] = vm[<<m, i>>]
             \/ vm[<<m, i>>] = "starting" /\ vm'[<<m, i>>] = "up"
  <2>1. vm' = [vm EXCEPT ![<<l, j>>] = "up"] /\ vm[<<l, j>>] = "starting"
    BY <1>1 DEF VmStart
  <2>2. <<m, i>> \in DOMAIN vm
    BY DEF TypeInv, VmTypeOK, VMs
  <2> QED BY <2>1, <2>2
<1> QED BY <1>1

(***************************************************************************)
(* Launches take turns.                                                    *)
(***************************************************************************)
LEMMA OneAtATimeStep ==
  ASSUME ~Overlap, TypeInv, OneAtATime, [Next]_vars
  PROVE  OneAtATime'
<1> USE DEF OneAtATime, Busy
<1>1. ASSUME NEW l \in Launches, Preflight(l) PROVE OneAtATime'
  <2>1. /\ \A m \in Launches : ~Busy(m)
        /\ \A v \in VMs : vm[v] # "starting"
        /\ vm' = vm
    BY <1>1 DEF Preflight
  <2>2. \A m \in Launches, j \in Instances : vm'[<<m, j>>] # "starting"
    BY <2>1 DEF VMs
  <2>3. OthersKept(l)
    BY <1>1, LaunchKeepsOthers
  <2> QED BY <2>1, <2>2, <2>3 DEF OthersKept
<1>2. ASSUME NEW l \in Launches, Proceed(l) \/ Disturb(l) PROVE OneAtATime'
  <2>1. OthersKept(l)
    BY <1>2, LaunchKeepsOthers
  <2>2. Busy(l)
    <3>1. CASE Proceed(l)
      BY <3>1
      DEF Proceed, ClearDirs, SetupTaps, ClearPool, SetPool, WriteConfigs, RegisterCleanup,
          Fork, AppendPid, WritePidFile, LoopEnds, WaitReturns, CleanTerm, CleanKill,
          CleanDirs, CleanDevices, CleanPool, Goto, Ended
    <3>2. CASE Disturb(l)
      BY <3>2
      DEF Disturb, FailPrelude, FailLoop, Interrupt, LauncherDies, Prelude, Loop, Ended
    <3> QED BY <1>2, <3>1, <3>2
  <2>3. \A m \in Launches : Busy(m)' => m = l
    BY <2>1, <2>2 DEF OthersKept
  <2>4. ASSUME NEW m \in Launches, NEW j \in Instances, vm'[<<m, j>>] = "starting", m # l
        PROVE  FALSE
    <3>1. vm[<<m, j>>] = "starting"
      BY <2>1, <2>4 DEF OthersKept
    <3> QED BY <2>2, <2>4, <3>1
  <2> QED BY <2>3, <2>4
<1>3. ASSUME HostStep PROVE OneAtATime'
  <2>1. \A l \in Launches, j \in Instances :
          vm'[<<l, j>>] = "starting" => vm[<<l, j>>] = "starting"
    <3>1. CASE \E l \in Launches, j \in Instances : VmStart(l, j)
      BY <3>1, StartsOne
    <3>2. CASE ~\E l \in Launches, j \in Instances : VmStart(l, j)
      BY <1>3, <3>2, RestEndsVMs DEF OnlyEnds
    <3> QED BY <3>1, <3>2
  <2>2. pc' = pc
    BY <1>3, RestKeepsLaunches DEF launchVars
  <2> QED BY <2>1, <2>2
<1> QED BY <1>1, <1>2, <1>3 DEF Next, HostStep

(***************************************************************************)
(* VMs are forked in order.                                                *)
(***************************************************************************)
LEMMA InOrderStep ==
  ASSUME TypeInv, ForkedSoFar, NEW l \in Launches, Preflight(l) \/ Proceed(l) \/ Disturb(l),
         NEW j \in Instances
  PROVE  InOrder(l, j)'
<1> USE DEF TypeInv, LaunchInv, LaunchTypeOK, VmTypeOK, PCs, InOrder, Launching, Prelude,
            Loop, Cleanup, Ended, Goto
<1>0. InOrder(l, j) /\ <<l, j>> \in VMs /\ j \in Nat
  BY DEF ForkedSoFar, VMs, Instances
<1>1. CASE Preflight(l)
  BY <1>0, <1>1 DEF Preflight
<1>2. CASE Proceed(l)
  <2>1. CASE ClearDirs(l) \/ SetupTaps(l) \/ ClearPool(l) \/ SetPool(l) \/ WriteConfigs(l)
    BY <1>0, <2>1 DEF ClearDirs, SetupTaps, ClearPool, SetPool, WriteConfigs
  <2>2. CASE RegisterCleanup(l) \/ AppendPid(l) \/ LoopEnds(l)
    BY <1>0, <2>2 DEF RegisterCleanup, AppendPid, LoopEnds
  <2>3. CASE Fork(l)
    <3>1. CASE j = at[l]
      BY <1>0, <2>3, <3>1 DEF Fork
    <3>2. CASE j # at[l]
      <4>1. vm'[<<l, j>>] = vm[<<l, j>>] /\ (<<l, j>> \in stray' <=> <<l, j>> \in stray)
        BY <1>0, <2>3, <3>2 DEF Fork
      <4> QED BY <1>0, <2>3, <4>1 DEF Fork
    <3> QED BY <3>1, <3>2
  <2>4. CASE WritePidFile(l)
    <3>1. CASE sdir
      BY <1>0, <2>4, <3>1 DEF WritePidFile
    <3>2. CASE ~sdir
      BY <1>0, <2>4, <3>2 DEF WritePidFile, Exit, Handle
    <3> QED BY <3>1, <3>2
  <2>5. CASE WaitReturns(l)
    BY <1>0, <2>5 DEF WaitReturns, Exit, Handle
  <2>6. CASE CleanTerm(l) \/ CleanKill(l)
    <3>1. vm'[<<l, j>>] # "none" => vm[<<l, j>>] # "none"
      BY <1>0, <2>6, EndIsOnlyEnds DEF CleanTerm, CleanKill, OnlyEnds, Live
    <3> QED BY <1>0, <2>6, <3>1 DEF CleanTerm, CleanKill
  <2>7. CASE CleanDirs(l) \/ CleanDevices(l)
    BY <1>0, <2>7 DEF CleanDirs, CleanDevices
  <2>8. CASE CleanPool(l)
    BY <1>0, <2>8 DEF CleanPool
  <2> QED BY <1>2, <2>1, <2>2, <2>3, <2>4, <2>5, <2>6, <2>7, <2>8 DEF Proceed
<1>3. CASE Disturb(l)
  <2>1. CASE FailPrelude(l) \/ LauncherDies(l) \/ FailLoop(l)
    BY <1>0, <2>1 DEF FailPrelude, LauncherDies, FailLoop, Exit, Handle
  <2>2. CASE Interrupt(l)
    BY <1>0, <2>2 DEF Interrupt, Handle
  <2> QED BY <1>3, <2>1, <2>2 DEF Disturb
<1> QED BY <1>1, <1>2, <1>3

\* A fork never reuses a VM.
LEMMA ForksAreNew ==
  ASSUME TypeInv, ForkedSoFar, NEW l \in Launches, Fork(l)
  PROVE  vm[<<l, at[l]>>] = "none" /\ at[l] \in Instances /\ <<l, at[l]>> \in VMs
<1>1. at[l] < n[l] /\ pc[l] = "fork"
  BY DEF Fork, Goto
<1>2. at[l] \in 0..MaxN /\ n[l] \in 0..MaxN
  BY DEF TypeInv, LaunchInv, LaunchTypeOK
<1>3. at[l] \in Instances /\ at[l] \in Nat
  BY <1>1, <1>2, MaxNAssumption DEF Instances
<1>4. InOrder(l, at[l])
  BY <1>3 DEF ForkedSoFar
<1> QED BY <1>1, <1>3, <1>4 DEF InOrder, VMs

\* Nothing but a fork makes a VM start.
LEMMA StartingIsForked ==
  ASSUME TypeInv, [Next]_vars, NEW l \in Launches, NEW j \in Instances,
         vm'[<<l, j>>] = "starting", vm[<<l, j>>] # "starting"
  PROVE  Fork(l) /\ j = at[l]
<1>0. \A m \in Launches, i \in Instances : <<m, i>> \in VMs
  BY DEF VMs
<1>1. CASE \E m \in Launches : Fork(m)
  BY <1>0, <1>1 DEF Fork, TypeInv, VmTypeOK
<1>2. ASSUME OnlyEnds PROVE FALSE
  BY <1>2 DEF OnlyEnds
<1>3. CASE \E m \in Launches : CleanTerm(m) \/ CleanKill(m)
  <2>1. OnlyEnds
    BY <1>3, EndIsOnlyEnds DEF CleanTerm, CleanKill, TypeInv
  <2> QED BY <1>2, <2>1
<1>4. CASE HostStep
  <2>1. CASE \E m \in Launches, i \in Instances : VmStart(m, i)
    BY <2>1, StartsOne
  <2>2. CASE ~\E m \in Launches, i \in Instances : VmStart(m, i)
    BY <1>2, <1>4, <2>2, RestEndsVMs
  <2> QED BY <2>1, <2>2
<1>5. CASE ~(\E m \in Launches : Fork(m) \/ CleanTerm(m) \/ CleanKill(m)) /\ ~HostStep
  <2>1. vm' = vm
    BY <1>5
    DEF Next, HostStep, Preflight, Proceed, ClearDirs, SetupTaps, ClearPool, SetPool,
        WriteConfigs, RegisterCleanup, AppendPid, WritePidFile, LoopEnds, WaitReturns,
        CleanDirs, CleanDevices, CleanPool, Disturb, FailPrelude, FailLoop, Interrupt,
        LauncherDies
  <2> QED BY <2>1
<1> QED BY <1>1, <1>3, <1>4, <1>5

\* Whatever happens, a process that has exec'd is dead or alive, and one that is dead
\* stays dead.
LEMMA VmsMoveOn ==
  ASSUME TypeInv, ForkedSoFar, [Next]_vars, NEW l \in Launches, NEW j \in Instances
  PROVE  /\ vm[<<l, j>>] \in {"up", "gone"} => vm'[<<l, j>>] \in {"up", "gone"}
         /\ vm[<<l, j>>] = "gone" => vm'[<<l, j>>] = "gone"
<1> USE DEF TypeInv, VmTypeOK
<1>0. \A m \in Launches, i \in Instances : <<m, i>> \in VMs
  BY DEF VMs
<1>1. ASSUME vm' = vm PROVE vm'[<<l, j>>] = vm[<<l, j>>]
  BY <1>1
<1>2. ASSUME OnlyEnds
      PROVE  vm'[<<l, j>>] = vm[<<l, j>>] \/ (vm[<<l, j>>] \in Live /\ vm'[<<l, j>>] = "gone")
  BY <1>2 DEF OnlyEnds
<1>3. CASE \E m \in Launches : Preflight(m) \/ Proceed(m) \/ Disturb(m)
  <2> PICK m \in Launches : Preflight(m) \/ Proceed(m) \/ Disturb(m)
    BY <1>3
  <2>1. CASE Fork(m)
    <3>1. vm[<<m, at[m]>>] = "none"
      BY <2>1, ForksAreNew
    <3> QED BY <1>0, <2>1, <3>1 DEF Fork
  <2>2. CASE CleanTerm(m) \/ CleanKill(m)
    <3>1. OnlyEnds
      BY <2>2, EndIsOnlyEnds DEF CleanTerm, CleanKill
    <3> QED BY <1>2, <3>1 DEF Live
  <2>3. CASE ~Fork(m) /\ ~CleanTerm(m) /\ ~CleanKill(m)
    <3>1. vm' = vm
      BY <2>3
      DEF Preflight, Proceed, ClearDirs, SetupTaps, ClearPool, SetPool, WriteConfigs,
          RegisterCleanup, AppendPid, WritePidFile, LoopEnds, WaitReturns, CleanDirs,
          CleanDevices, CleanPool, Disturb, FailPrelude, FailLoop, Interrupt, LauncherDies
    <3> QED BY <1>1, <3>1
  <2> QED BY <2>1, <2>2, <2>3
<1>4. CASE HostStep
  <2>1. CASE \E m \in Launches, i \in Instances : VmStart(m, i)
    BY <2>1, StartsOne
  <2>2. CASE ~\E m \in Launches, i \in Instances : VmStart(m, i)
    BY <1>2, <1>4, <2>2, RestEndsVMs DEF Live
  <2> QED BY <2>1, <2>2
<1> QED BY <1>3, <1>4 DEF Next, HostStep

LEMMA ForkedSoFarStep ==
  ASSUME TypeInv, ForkedSoFar, [Next]_vars
  PROVE  ForkedSoFar'
<1>1. ASSUME NEW v \in VMs, seen'[v] = "named" PROVE vm'[v] \in {"up", "gone"}
  <2>1. PICK l \in Launches, j \in Instances : v = <<l, j>>
    BY DEF VMs
  <2>2. CASE Discover
    BY <1>1, <2>2 DEF Discover, Look
  <2>3. CASE \E m \in Launches : ClearDirs(m)
    <3>1. seen[v] = "named"
      BY <1>1, <2>3 DEF ClearDirs
    <3> QED BY <2>1, <3>1, VmsMoveOn DEF ForkedSoFar
  <2>4. CASE ~Discover /\ ~\E m \in Launches : ClearDirs(m)
    <3>1. seen' = seen
      <4>1. CASE \E m \in Launches : Preflight(m) \/ Proceed(m) \/ Disturb(m)
        BY <2>4, <4>1
        DEF Preflight, Proceed, SetupTaps, ClearPool, SetPool, WriteConfigs, RegisterCleanup,
            Fork, AppendPid, WritePidFile, LoopEnds, WaitReturns, CleanTerm, CleanKill,
            CleanDirs, CleanDevices, CleanPool, Disturb, FailPrelude, FailLoop, Interrupt,
            LauncherDies, killVars
      <4>2. CASE HostStep
        BY <2>4, <4>2
        DEF HostStep, VmStep, VmStart, VmRefuses, VmEnds, Killer, KillStrays, CtrlAltDel,
            KillNamed, RemoveTaps, RemoveDirs, vars, killVars
      <4> QED BY <4>1, <4>2 DEF Next, HostStep
    <3> QED BY <1>1, <2>1, <3>1, VmsMoveOn DEF ForkedSoFar
  <2> QED BY <2>2, <2>3, <2>4
<1>2. ASSUME NEW m \in Launches, NEW j \in Instances PROVE InOrder(m, j)'
  <2>1. CASE \E l \in Launches : Preflight(l) \/ Proceed(l) \/ Disturb(l)
    <3> PICK l \in Launches : Preflight(l) \/ Proceed(l) \/ Disturb(l)
      BY <2>1
    <3>1. CASE m = l
      BY <3>1, InOrderStep
    <3>2. CASE m # l
      BY <3>2, LaunchKeepsOthers DEF OthersKept, ForkedSoFar, InOrder, Launching
    <3> QED BY <3>1, <3>2
  <2>2. CASE HostStep
    <3>1. UNCHANGED <<launchVars, stray>>
      BY <2>2, RestKeepsLaunches
    <3>2. vm[<<m, j>>] = "none" => vm'[<<m, j>>] = "none"
      <4>1. CASE \E l \in Launches, i \in Instances : VmStart(l, i)
        BY <4>1, StartsOne
      <4>2. CASE ~\E l \in Launches, i \in Instances : VmStart(l, i)
        BY <2>2, <4>2, RestEndsVMs DEF OnlyEnds, Live
      <4> QED BY <4>1, <4>2
    <3> QED BY <3>1, <3>2 DEF ForkedSoFar, InOrder, Launching, launchVars
  <2> QED BY <2>1, <2>2 DEF Next, HostStep
<1> QED BY <1>1, <1>2 DEF ForkedSoFar

(***************************************************************************)
(* How a launch moves on.                                                  *)
(***************************************************************************)
\* What a launch has been through stays behind it: it is prepared in the order of the
\* prelude, and past a stage of its cleanup only by that stage.
MovesOn(l) ==
  /\ pc[l] # "idle" => pc'[l] # "idle" /\ n'[l] = n[l]
  /\ Launching(l) => Launching(l)' /\ at[l] <= at'[l]
  /\ \A j \in Instances : <<l, j>> \in stray => <<l, j>> \in stray'
  /\ \A j \in Instances : <<l, j>> \in stray' => <<l, j>> \in stray \/ j = at[l]
  /\ Busy(l)' => Busy(l) \/ pc'[l] = "clear"
  /\ Busy(l)' /\ pc'[l] # "clear" =>
       /\ pc[l] # "clear" \/ ClearDirs(l)
       /\ pc'[l] # "taps" => pc[l] \notin {"clear", "taps"} \/ SetupTaps(l)
       /\ pc'[l] \notin {"taps", "unpool"} =>
            \/ pc[l] \notin {"clear", "taps", "unpool"} /\ cgok'[l] = cgok[l]
            \/ ClearPool(l)
  /\ PastDirs(l)'    => PastDirs(l) \/ CleanDirs(l)
  /\ PastDevices(l)' => PastDevices(l) \/ CleanDevices(l)
  /\ PastPool(l)'    => PastPool(l) \/ CleanPool(l)

LEMMA LaunchMovesOn ==
  ASSUME TypeInv, [Next]_vars, NEW l \in Launches
  PROVE  MovesOn(l)
<1> USE DEF MovesOn, Launching, Busy, PastDirs, PastDevices, PastPool, Resumed
<1> USE DEF TypeInv, LaunchInv, LaunchTypeOK, PCs, Prelude, Loop, Cleanup, Ended, Goto
<1>0. at[l] \in Nat /\ at[l] + 1 >= at[l]
  BY MaxNAssumption
<1>1. CASE Preflight(l)
  BY <1>0, <1>1 DEF Preflight
<1>2. CASE Proceed(l)
  <2>1. CASE ClearDirs(l)
    BY <1>0, <2>1 DEF ClearDirs
  <2>2. CASE SetupTaps(l)
    BY <1>0, <2>2 DEF SetupTaps
  <2>3. CASE ClearPool(l)
    BY <1>0, <2>3 DEF ClearPool
  <2>4. CASE SetPool(l) \/ WriteConfigs(l)
    BY <1>0, <2>4 DEF SetPool, WriteConfigs
  <2>5. CASE RegisterCleanup(l)
    BY <1>0, <2>5 DEF RegisterCleanup
  <2>6. CASE Fork(l)
    BY <1>0, <2>6 DEF Fork
  <2>7. CASE AppendPid(l) \/ LoopEnds(l)
    BY <1>0, <2>7 DEF AppendPid, LoopEnds
  <2>8. CASE WritePidFile(l)
    <3>1. CASE sdir
      BY <1>0, <2>8, <3>1 DEF WritePidFile
    <3>2. CASE ~sdir
      BY <1>0, <2>8, <3>2 DEF WritePidFile, Exit, Handle
    <3> QED BY <3>1, <3>2
  <2>9. CASE WaitReturns(l)
    BY <1>0, <2>9 DEF WaitReturns, Exit, Handle
  <2>10. CASE CleanTerm(l) \/ CleanKill(l)
    BY <1>0, <2>10 DEF CleanTerm, CleanKill
  <2>11. CASE CleanDirs(l) \/ CleanDevices(l)
    BY <1>0, <2>11 DEF CleanDirs, CleanDevices
  <2>12. CASE CleanPool(l)
    BY <1>0, <2>12 DEF CleanPool
  <2> QED
    BY <1>2, <2>1, <2>2, <2>3, <2>4, <2>5, <2>6, <2>7, <2>8, <2>9, <2>10, <2>11, <2>12
    DEF Proceed
<1>3. CASE Disturb(l)
  <2>1. CASE FailPrelude(l) \/ LauncherDies(l)
    BY <1>0, <2>1 DEF FailPrelude, LauncherDies
  <2>2. CASE FailLoop(l)
    BY <1>0, <2>2 DEF FailLoop, Exit, Handle
  <2>3. CASE Interrupt(l)
    BY <1>0, <2>3 DEF Interrupt, Handle
  <2> QED BY <1>3, <2>1, <2>2, <2>3 DEF Disturb
<1>4. ASSUME /\ pc'[l] = pc[l] /\ n'[l] = n[l] /\ at'[l] = at[l]
             /\ trap'[l] = trap[l] /\ cgok'[l] = cgok[l]
             /\ \A j \in Instances : <<l, j>> \in stray' <=> <<l, j>> \in stray
      PROVE  MovesOn(l)
  BY <1>0, <1>4
<1>5. CASE \E m \in Launches \ {l} : Preflight(m) \/ Proceed(m) \/ Disturb(m)
  BY <1>4, <1>5, LaunchKeepsOthers DEF OthersKept
<1>6. CASE HostStep
  BY <1>4, <1>6, RestKeepsLaunches DEF launchVars
<1> QED BY <1>1, <1>2, <1>3, <1>5, <1>6 DEF Next, HostStep

\* Who gives the resources of the host a new owner.
LEMMA SocketsMove ==
  ASSUME TypeInv, [Next]_vars, NEW j \in Instances
  PROVE  \/ sock'[j] \in {sock[j], NoLaunch}
         \/ \E l \in Launches : VmStart(l, j) /\ sock'[j] = l
<1> USE DEF TypeInv, HostTypeOK
<1>1. CASE \E l \in Launches, i \in Instances : VmStart(l, i)
  BY <1>1 DEF VmStart, Take
<1>2. ASSUME RemoveSockets PROVE sock'[j] = NoLaunch
  BY <1>2 DEF RemoveSockets, Lose
<1>3. CASE \E l \in Launches : ClearDirs(l) \/ CleanDirs(l)
  BY <1>2, <1>3 DEF ClearDirs, CleanDirs
<1>4. CASE RemoveDirs
  BY <1>2, <1>4 DEF RemoveDirs
<1>5. CASE /\ ~\E l \in Launches, i \in Instances : VmStart(l, i)
           /\ ~\E l \in Launches : ClearDirs(l) \/ CleanDirs(l)
           /\ ~RemoveDirs
  <2>1. sock' = sock
    BY ZenonT(40), <1>5
    DEF Next, Preflight, Proceed, SetupTaps, ClearPool, SetPool, WriteConfigs,
        RegisterCleanup, Fork, AppendPid, WritePidFile, LoopEnds, WaitReturns, CleanTerm,
        CleanKill, CleanDevices, CleanPool, Disturb, FailPrelude, FailLoop, Interrupt,
        LauncherDies, VmStep, VmRefuses, VmEnds, Discover, Killer, KillStrays, CtrlAltDel,
        KillNamed, RemoveTaps, hostVars, vars
  <2> QED BY <2>1
<1> QED BY <1>1, <1>3, <1>4, <1>5

LEMMA PidFilesMove ==
  ASSUME TypeInv, [Next]_vars, NEW j \in Instances
  PROVE  \/ pidf'[j] \in {pidf[j], NoLaunch}
         \/ \E l \in Launches : WritePidFile(l) /\ sdir /\ j = at[l] /\ pidf'[j] = l
<1> USE DEF TypeInv, HostTypeOK
<1>1. CASE \E l \in Launches : WritePidFile(l)
  BY <1>1 DEF WritePidFile, Take
<1>2. ASSUME RemoveSockets PROVE pidf'[j] = NoLaunch
  BY <1>2 DEF RemoveSockets, Lose
<1>3. CASE \E l \in Launches : ClearDirs(l) \/ CleanDirs(l)
  BY <1>2, <1>3 DEF ClearDirs, CleanDirs
<1>4. CASE RemoveDirs
  BY <1>2, <1>4 DEF RemoveDirs
<1>5. CASE /\ ~\E l \in Launches : WritePidFile(l) \/ ClearDirs(l) \/ CleanDirs(l)
           /\ ~RemoveDirs
  <2>1. pidf' = pidf
    BY ZenonT(40), <1>5
    DEF Next, Preflight, Proceed, SetupTaps, ClearPool, SetPool, WriteConfigs,
        RegisterCleanup, Fork, AppendPid, LoopEnds, WaitReturns, CleanTerm,
        CleanKill, CleanDevices, CleanPool, Disturb, FailPrelude, FailLoop, Interrupt,
        LauncherDies, VmStep, VmStart, VmRefuses, VmEnds, Discover, Killer, KillStrays,
        CtrlAltDel, KillNamed, RemoveTaps, hostVars, vars
  <2> QED BY <2>1
<1> QED BY <1>1, <1>3, <1>4, <1>5

LEMMA ConfigsMove ==
  ASSUME TypeInv, [Next]_vars, NEW j \in Instances
  PROVE  \/ cfg'[j] \in {cfg[j], NoLaunch}
         \/ \E l \in Launches : WriteConfigs(l) /\ cfg'[j] = l
<1> USE DEF TypeInv, HostTypeOK
<1>1. CASE \E l \in Launches : WriteConfigs(l)
  BY <1>1 DEF WriteConfigs, Take
<1>2. ASSUME RemoveConfigs PROVE cfg'[j] = NoLaunch
  BY <1>2 DEF RemoveConfigs, Lose
<1>3. CASE \E l \in Launches : ClearDirs(l) \/ CleanDirs(l)
  BY <1>2, <1>3 DEF ClearDirs, CleanDirs
<1>4. CASE RemoveDirs
  BY <1>2, <1>4 DEF RemoveDirs
<1>5. CASE /\ ~\E l \in Launches : WriteConfigs(l) \/ ClearDirs(l) \/ CleanDirs(l)
           /\ ~RemoveDirs
  <2>1. cfg' = cfg
    BY ZenonT(40), <1>5
    DEF Next, Preflight, Proceed, SetupTaps, ClearPool, SetPool, RegisterCleanup, Fork,
        AppendPid, WritePidFile, LoopEnds, WaitReturns, CleanTerm, CleanKill, CleanDevices,
        CleanPool, Disturb, FailPrelude, FailLoop, Interrupt, LauncherDies, VmStep, VmStart,
        VmRefuses, VmEnds, Discover, Killer, KillStrays, CtrlAltDel, KillNamed, RemoveTaps,
        hostVars, vars
  <2> QED BY <2>1
<1> QED BY <1>1, <1>3, <1>4, <1>5

LEMMA TapsMove ==
  ASSUME TypeInv, [Next]_vars, NEW j \in Instances
  PROVE  \/ tap'[j] \in {tap[j], NoLaunch}
         \/ \E l \in Launches : SetupTaps(l) /\ j \in Requested(l) /\ tap'[j] = l
<1> USE DEF TypeInv, HostTypeOK
<1>1. CASE \E l \in Launches : SetupTaps(l)
  BY <1>1 DEF SetupTaps, Take
<1>2. CASE \E l \in Launches : CleanDevices(l)
  BY <1>2 DEF CleanDevices, Lose
<1>3. CASE RemoveTaps
  BY <1>3 DEF RemoveTaps, Lose
<1>4. CASE ~(\E l \in Launches : SetupTaps(l) \/ CleanDevices(l)) /\ ~RemoveTaps
  <2>1. tap' = tap
    BY ZenonT(40), <1>4
    DEF Next, Preflight, Proceed, ClearDirs, ClearPool, SetPool, WriteConfigs,
        RegisterCleanup, Fork, AppendPid, WritePidFile, LoopEnds, WaitReturns, CleanTerm,
        CleanKill, CleanDirs, CleanPool, Disturb, FailPrelude, FailLoop, Interrupt,
        LauncherDies, VmStep, VmStart, VmRefuses, VmEnds, Discover, Killer, KillStrays,
        CtrlAltDel, KillNamed, RemoveDirs, hostVars, vars
  <2> QED BY <2>1
<1> QED BY <1>1, <1>2, <1>3, <1>4

LEMMA PoolMoves ==
  ASSUME [Next]_vars
  PROVE  pool' \in {pool, NoLaunch} \/ \E l \in Launches : SetPool(l) /\ pool' = l
<1>1. CASE \E l \in Launches : ClearPool(l) \/ SetPool(l) \/ CleanPool(l)
  BY <1>1 DEF ClearPool, SetPool, CleanPool
<1>2. CASE ~\E l \in Launches : ClearPool(l) \/ SetPool(l) \/ CleanPool(l)
  <2>1. pool' = pool
    BY ZenonT(40), <1>2
    DEF Next, Preflight, Proceed, ClearDirs, SetupTaps, WriteConfigs, RegisterCleanup, Fork,
        AppendPid, WritePidFile, LoopEnds, WaitReturns, CleanTerm, CleanKill, CleanDirs,
        CleanDevices, Disturb, FailPrelude, FailLoop, Interrupt, LauncherDies, VmStep,
        VmStart, VmRefuses, VmEnds, Discover, Killer, KillStrays, CtrlAltDel, KillNamed,
        RemoveTaps, RemoveDirs, hostVars, vars
  <2> QED BY <2>1
<1> QED BY <1>1, <1>2

LEMMA SocketDirMoves ==
  ASSUME TypeInv, [Next]_vars, sdir'
  PROVE  sdir \/ \E l \in Launches : ClearDirs(l)
<1>1. CASE ~(\E l \in Launches : ClearDirs(l) \/ CleanDirs(l)) /\ ~RemoveDirs
  <2>1. sdir' = sdir
    BY ZenonT(40), <1>1
    DEF Next, Preflight, Proceed, SetupTaps, ClearPool, SetPool, WriteConfigs,
        RegisterCleanup, Fork, AppendPid, WritePidFile, LoopEnds, WaitReturns, CleanTerm,
        CleanKill, CleanDevices, CleanPool, Disturb, FailPrelude, FailLoop, Interrupt,
        LauncherDies, VmStep, VmStart, VmRefuses, VmEnds, Discover, Killer, KillStrays,
        CtrlAltDel, KillNamed, RemoveTaps, hostVars, vars
  <2> QED BY <2>1
<1>2. CASE (\E l \in Launches : CleanDirs(l)) \/ RemoveDirs
  BY <1>2 DEF CleanDirs, RemoveDirs
<1> QED BY <1>1, <1>2

(***************************************************************************)
(* What is whose.                                                          *)
(***************************************************************************)
\* The parts that lean on each other.
SerialInv == OneAtATime /\ ForkedSoFar /\ Owners /\ Inherits /\ Freed

\* A command of a launch is one of a busy launch, and of the only one.
LEMMA CommandsAreBusy ==
  ASSUME OneAtATime, NEW l \in Launches,
         \/ ClearDirs(l) \/ SetupTaps(l) \/ SetPool(l) \/ WriteConfigs(l) \/ Fork(l)
         \/ WritePidFile(l) \/ CleanDirs(l)
  PROVE  \A m \in Launches : Busy(m) <=> m = l
<1>1. Busy(l)
  BY DEF ClearDirs, SetupTaps, SetPool, WriteConfigs, Fork, WritePidFile, CleanDirs, Goto,
         Busy, Ended
<1> QED BY <1>1 DEF OneAtATime

\* The pid file is written only with the handler armed: after the handler has run, the
\* directory is gone.
LEMMA WritesPidFileArmed ==
  ASSUME TypeInv, Freed, NEW l \in Launches, WritePidFile(l), sdir
  PROVE  trap[l] /\ pc[l] = "pidfile" /\ pc'[l] = "fork" /\ trap'[l] = trap[l]
         /\ at'[l] = at[l] + 1 /\ stray' = stray
<1>1. pc[l] = "pidfile" /\ pc'[l] = "fork" /\ trap'[l] = trap[l] /\ at'[l] = at[l] + 1
      /\ stray' = stray
  BY DEF WritePidFile, Goto, TypeInv, LaunchInv, LaunchTypeOK
<1>2. ~Resumed(l)
  BY <1>1 DEF Freed, PastDirs, Busy, Ended
<1> QED BY <1>1, <1>2 DEF Resumed, Loop

LEMMA OwnersStep ==
  ASSUME TypeInv, SerialInv, [Next]_vars
  PROVE  Owners'
<1> USE DEF SerialInv
<1> SUFFICES ASSUME NEW l \in Launches, NEW j \in Instances
             PROVE  /\ sock'[j] = l => vm'[<<l, j>>] \in {"up", "gone"}
                    /\ vm'[<<l, j>>] = "starting" => sock'[j] = NoLaunch
                    /\ pidf'[j] = l => Launching(l)' /\ j < at'[l] /\ <<l, j>> \notin stray'
                    /\ tap'[j] = l => pc'[l] # "idle" /\ j < n'[l]
  BY DEF Owners, Launching
<1>0. /\ l # NoLaunch /\ j \in Nat /\ <<l, j>> \in VMs
      /\ MovesOn(l)
  BY LaunchesAssumption, LaunchMovesOn DEF Instances, VMs
<1>1. ASSUME sock'[j] = l PROVE vm'[<<l, j>>] \in {"up", "gone"}
  <2>1. CASE sock'[j] = sock[j]
    BY <1>1, <2>1, VmsMoveOn DEF Owners
  <2>2. CASE VmStart(l, j)
    BY <2>2, StartOf
  <2> QED BY <1>0, <1>1, <2>1, <2>2, SocketsMove
<1>2. ASSUME vm'[<<l, j>>] = "starting" PROVE sock'[j] = NoLaunch
  <2>1. CASE vm[<<l, j>>] = "starting"
    <3>1. sock[j] = NoLaunch
      BY <2>1 DEF Owners
    <3>2. ASSUME NEW m \in Launches, VmStart(m, j) PROVE FALSE
      <4>1. m = l
        BY <2>1, <3>2, StartOf DEF OneAtATime
      <4> QED BY <1>2, <3>2, <4>1, StartOf
    <3> QED BY <3>1, <3>2, SocketsMove
  <2>2. CASE vm[<<l, j>>] # "starting"
    <3>1. Fork(l) /\ j = at[l]
      BY <1>2, <2>2, StartingIsForked
    <3>2. sock[j] \in {l, NoLaunch}
      <4>1. Busy(l) /\ pc[l] # "clear"
        BY <3>1 DEF Fork, Goto, Busy, Ended
      <4> QED BY <4>1 DEF Inherits
    <3>3. sock[j] # l
      BY <3>1, ForksAreNew DEF Owners
    <3> QED BY <3>1, <3>2, <3>3 DEF Fork, hostVars
  <2> QED BY <2>1, <2>2
<1>3. ASSUME pidf'[j] = l PROVE Launching(l)' /\ j < at'[l] /\ <<l, j>> \notin stray'
  <2>0. at[l] \in Nat /\ at'[l] \in Nat
    BY LaunchStep, MaxNAssumption DEF TypeInv, LaunchInv, LaunchTypeOK
  <2>1. CASE pidf[j] = l
    BY <1>0, <2>0, <2>1 DEF Owners, MovesOn
  <2>2. CASE WritePidFile(l) /\ sdir /\ j = at[l]
    <3>1. trap[l] /\ pc'[l] = "fork" /\ at'[l] = at[l] + 1 /\ stray' = stray
      BY <2>2, WritesPidFileArmed
    <3>2. <<l, j>> \notin stray
      BY <3>1 DEF ForkedSoFar, InOrder
    <3> QED BY <2>0, <2>2, <3>1, <3>2 DEF Launching, Prelude
  <2> QED BY <1>0, <1>3, <2>1, <2>2, PidFilesMove
<1>4. ASSUME tap'[j] = l PROVE pc'[l] # "idle" /\ j < n'[l]
  <2>1. CASE tap[j] = l
    BY <1>0, <2>1 DEF Owners, MovesOn
  <2>2. CASE SetupTaps(l) /\ j \in Requested(l)
    BY <1>0, <2>2 DEF SetupTaps, Goto, Requested, MovesOn
  <2> QED BY <1>0, <1>4, <2>1, <2>2, TapsMove
<1> QED BY <1>1, <1>2, <1>3, <1>4

LEMMA InheritsStep ==
  ASSUME TypeInv, SerialInv, [Next]_vars
  PROVE  Inherits'
<1> USE DEF SerialInv
<1> SUFFICES ASSUME NEW l \in Launches, Busy(l)', pc'[l] # "clear"
             PROVE  /\ \A j \in Instances :
                         {sock'[j], cfg'[j], pidf'[j]} \subseteq {l, NoLaunch}
                    /\ pc'[l] # "taps" => \A j \in Requested(l)' : tap'[j] \in {l, NoLaunch}
                    /\ pc'[l] \notin {"taps", "unpool"} /\ cgok'[l] => pool' \in {l, NoLaunch}
  BY DEF Inherits, Busy
<1>1. MovesOn(l)
  BY LaunchMovesOn
<1>2. Busy(l) /\ n'[l] = n[l] /\ Requested(l)' = Requested(l)
  BY <1>1 DEF MovesOn, Busy, Requested
<1>3. \A m \in Launches : Busy(m) => m = l
  BY <1>2 DEF OneAtATime
<1>4. ASSUME NEW j \in Instances PROVE {sock'[j], cfg'[j], pidf'[j]} \subseteq {l, NoLaunch}
  <2>1. CASE ClearDirs(l)
    BY <2>1 DEF ClearDirs, RemoveSockets, RemoveConfigs, Lose
  <2>2. CASE pc[l] # "clear"
    <3>1. {sock[j], cfg[j], pidf[j]} \subseteq {l, NoLaunch}
      BY <1>2, <2>2 DEF Inherits
    <3>2. sock'[j] \in {l, NoLaunch}
      <4>1. ASSUME NEW m \in Launches, VmStart(m, j) PROVE m = l
        BY <1>2, <4>1, StartOf DEF OneAtATime
      <4> QED BY <3>1, <4>1, SocketsMove
    <3>3. cfg'[j] \in {l, NoLaunch}
      BY <1>3, <3>1, ConfigsMove, CommandsAreBusy
    <3>4. pidf'[j] \in {l, NoLaunch}
      BY <1>3, <3>1, PidFilesMove, CommandsAreBusy
    <3> QED BY <3>2, <3>3, <3>4
  <2> QED BY <1>1, <2>1, <2>2 DEF MovesOn
<1>5. ASSUME pc'[l] # "taps", NEW j \in Requested(l) PROVE tap'[j] \in {l, NoLaunch}
  <2>0. j \in Instances
    BY DEF Requested
  <2>1. CASE SetupTaps(l)
    BY <2>0, <2>1 DEF SetupTaps, Take
  <2>2. CASE pc[l] \notin {"clear", "taps"}
    <3>1. tap[j] \in {l, NoLaunch}
      BY <1>2, <2>2 DEF Inherits
    <3> QED BY <1>3, <2>0, <3>1, TapsMove, CommandsAreBusy
  <2> QED BY <1>1, <1>5, <2>1, <2>2 DEF MovesOn
<1>6. ASSUME pc'[l] \notin {"taps", "unpool"}, cgok'[l] PROVE pool' \in {l, NoLaunch}
  <2>1. CASE ClearPool(l)
    BY <1>6, <2>1 DEF ClearPool, TypeInv, LaunchInv, LaunchTypeOK
  <2>2. CASE pc[l] \notin {"clear", "taps", "unpool"} /\ cgok[l]
    <3>1. pool \in {l, NoLaunch}
      BY <1>2, <2>2 DEF Inherits
    <3> QED BY <1>3, <3>1, PoolMoves, CommandsAreBusy
  <2> QED BY <1>1, <1>6, <2>1, <2>2 DEF MovesOn
<1> QED BY <1>2, <1>4, <1>5, <1>6

LEMMA FreedStep ==
  ASSUME TypeInv, SerialInv, CleanupAhead, [Next]_vars
  PROVE  Freed'
<1> USE DEF SerialInv
<1> SUFFICES ASSUME NEW l \in Launches
             PROVE  /\ PastDirs(l)' => /\ Busy(l)' => ~sdir'
                                       /\ \A j \in Instances :
                                            /\ l \notin {cfg'[j], pidf'[j]}
                                            /\ sock'[j] = l => <<l, j>> \in stray'
                    /\ PastDevices(l)' => \A j \in Instances : tap'[j] # l
                    /\ PastPool(l)' => pool' # l
  BY DEF Freed, PastDirs, PastDevices, PastPool, Busy, Resumed
<1>1. MovesOn(l) /\ l # NoLaunch
  BY LaunchMovesOn, LaunchesAssumption
<1>2. CASE CleanDirs(l)
  <2>1. /\ ~sdir'
        /\ \A j \in Instances : sock'[j] # l /\ cfg'[j] # l /\ pidf'[j] # l
    BY <1>1, <1>2 DEF CleanDirs, RemoveSockets, RemoveConfigs, Lose
  <2>2. ~PastDevices(l)' /\ ~PastPool(l)'
    BY <1>2
    DEF CleanDirs, Goto, PastDevices, PastPool, Resumed, Loop, TypeInv, LaunchInv,
        LaunchTypeOK
  <2> QED BY <2>1, <2>2
<1>3. ASSUME PastDirs(l), PastDirs(l)' PROVE Busy(l)' => ~sdir'
  <2>1. ASSUME Busy(l)', sdir' PROVE FALSE
    <3>1. Busy(l)
      BY <1>1, <2>1, <1>3 DEF MovesOn, PastDirs, Resumed, Loop
    <3>2. ~sdir
      BY <1>3, <3>1 DEF Freed
    <3>3. ClearDirs(l)
      BY <2>1, <3>1, <3>2, SocketDirMoves, CommandsAreBusy
    <3> QED BY <1>3, <3>3 DEF ClearDirs, Goto, PastDirs, Resumed, Loop
  <2> QED BY <2>1
<1>4. ASSUME PastDirs(l), PastDirs(l)', NEW j \in Instances PROVE cfg'[j] # l
  <2>1. cfg[j] # l
    BY <1>4 DEF Freed
  <2>2. ~WriteConfigs(l)
    BY <1>4 DEF WriteConfigs, Goto, PastDirs, Resumed, Loop
  <2> QED BY <1>1, <2>1, <2>2, ConfigsMove
<1>5. ASSUME PastDirs(l), PastDirs(l)', NEW j \in Instances PROVE pidf'[j] # l
  <2>1. pidf[j] # l
    BY <1>5 DEF Freed
  <2>2. ASSUME WritePidFile(l), sdir PROVE FALSE
    BY <1>5, <2>2, WritesPidFileArmed DEF PastDirs, Resumed
  <2> QED BY <1>1, <2>1, <2>2, PidFilesMove
<1>6. ASSUME PastDirs(l), NEW j \in Instances, sock'[j] = l PROVE <<l, j>> \in stray'
  <2>1. CASE sock[j] = l
    BY <1>1, <1>6, <2>1 DEF Freed, MovesOn
  <2>2. CASE VmStart(l, j)
    <3>1. vm[<<l, j>>] \in Live
      BY <2>2, StartOf DEF Live
    <3>2. <<l, j>> \in stray
      BY <1>6, <3>1 DEF CleanupAhead, Orphan, PastDirs, Resumed, Loop
    <3> QED BY <1>1, <3>2 DEF MovesOn
  <2> QED BY <1>1, <1>6, <2>1, <2>2, SocketsMove
<1>7. ASSUME PastDevices(l)', NEW j \in Instances PROVE tap'[j] # l
  <2>1. CASE CleanDevices(l)
    BY <1>1, <2>1 DEF CleanDevices, Lose, Requested, Owners
  <2>2. CASE PastDevices(l)
    <3>1. tap[j] # l
      BY <2>2 DEF Freed
    <3>2. ~SetupTaps(l)
      BY <2>2 DEF SetupTaps, Goto, PastDevices, Resumed, Loop
    <3> QED BY <1>1, <3>1, <3>2, TapsMove
  <2> QED BY <1>1, <1>7, <2>1, <2>2 DEF MovesOn
<1>8. ASSUME PastPool(l)' PROVE pool' # l
  <2>1. CASE CleanPool(l)
    BY <1>1, <2>1 DEF CleanPool
  <2>2. CASE PastPool(l)
    <3>1. pool # l
      BY <2>2 DEF Freed
    <3>2. ~SetPool(l)
      BY <2>2 DEF SetPool, Goto, PastPool, Resumed, Loop
    <3> QED BY <1>1, <3>1, <3>2, PoolMoves
  <2> QED BY <1>1, <1>8, <2>1, <2>2 DEF MovesOn
<1>9. PastDirs(l)' => PastDirs(l) \/ CleanDirs(l)
  BY <1>1 DEF MovesOn
<1> QED BY <1>2, <1>3, <1>4, <1>5, <1>6, <1>7, <1>8, <1>9

LEMMA SerialInvariance ==
  ASSUME ~Overlap
  PROVE  Spec => []SerialInv
<1>1. Init => SerialInv
  <2> SUFFICES ASSUME Init PROVE SerialInv
    OBVIOUS
  <2>1. OneAtATime
    BY DEF Init, OneAtATime, Busy, VMs
  <2>2. ForkedSoFar
    BY DEF Init, ForkedSoFar, InOrder, VMs
  <2>3. Owners
    BY LaunchesAssumption DEF Init, Owners, VMs
  <2>4. Inherits
    BY DEF Init, Inherits, Busy
  <2>5. Freed
    BY DEF Init, Freed, PastDirs, PastDevices, PastPool, Resumed, Loop
  <2> QED BY <2>1, <2>2, <2>3, <2>4, <2>5 DEF SerialInv
<1>2. TypeInv /\ CleanupAhead /\ SerialInv /\ [Next]_vars => SerialInv'
  BY OneAtATimeStep, ForkedSoFarStep, OwnersStep, InheritsStep, FreedStep DEF SerialInv
<1> QED BY <1>1, <1>2, TypeInvariance, CleanupAheadInvariance, PTL DEF Spec

\* When launches do not overlap, nothing an earlier launch left is in the place of what
\* the next one uses: no TAP, config, pid file or pool of another.
THEOREM Inheritance ==
  ASSUME ~Overlap
  PROVE  Spec => []NothingInherited
<1>1. SerialInv => NothingInherited
  <2> SUFFICES ASSUME SerialInv, NEW l \in Launches, pc[l] \in Loop \cup {"wait"}, trap[l]
               PROVE  /\ \A j \in Requested(l) :
                            {tap[j], cfg[j], pidf[j]} \subseteq {l, NoLaunch}
                      /\ cgok[l] => pool \in {l, NoLaunch}
    BY DEF NothingInherited
  <2>1. Busy(l) /\ pc[l] \notin {"clear", "taps", "unpool"}
    BY DEF Busy, Loop, Ended
  <2> QED BY <2>1 DEF SerialInv, Inherits, Requested
<1> QED BY <1>1, SerialInvariance, PTL

\* When launches do not overlap, a VM about to bind its socket finds the path free,
\* whatever the launches before left on disk.
THEOREM FreeSockets ==
  ASSUME ~Overlap
  PROVE  Spec => []SocketFree
<1>1. SerialInv => SocketFree
  BY DEF SerialInv, Owners, SocketFree
<1> QED BY <1>1, SerialInvariance, PTL

\* When launches do not overlap, two live VMs share an instance id only if one of them
\* is an orphan: the other launch has not ended, or it has killed its VMs.
THEOREM OneVM ==
  ASSUME ~Overlap
  PROVE  Spec => []OneVMPerInstance
<1>1. SerialInv /\ CleanupAhead => OneVMPerInstance
  <2> SUFFICES ASSUME SerialInv, CleanupAhead, NEW l \in Launches, NEW m \in Launches,
                      NEW j \in Instances, vm[<<l, j>>] = "up", vm[<<m, j>>] = "up",
                      ~Orphan(l, j), ~Orphan(m, j)
               PROVE  l = m
    BY DEF OneVMPerInstance
  <2>1. Busy(l) /\ Busy(m)
    BY DEF CleanupAhead, Live, Busy, Loop, Ended
  <2> QED BY <2>1 DEF SerialInv, OneAtATime
<1> QED BY <1>1, SerialInvariance, CleanupAheadInvariance, PTL

(***************************************************************************)
(* The cgroup leaves, and what a teardown leaves of the host.              *)
(***************************************************************************)
\* That of one leaf.
LeafOf(m, j) ==
  /\ vm[<<m, j>>] \in {"up", "gone"}
  /\ <<m, j>> \in stray \/ ~PastDevices(m)

\* A leaf that appears is one a VM has just joined.
LEMMA LeavesMove ==
  ASSUME TypeInv, [Next]_vars, NEW j \in leaf'
  PROVE  \/ j \in leaf
         \/ \E l \in Launches : j \in Instances /\ VmStep(l, j)
<1>1. CASE \E l \in Launches, i \in Instances : VmStep(l, i)
  BY <1>1 DEF VmStep, VmStart, VmRefuses
<1>2. CASE \E l \in Launches : CleanDevices(l)
  BY <1>2 DEF CleanDevices
<1>3. CASE /\ ~\E l \in Launches, i \in Instances : VmStep(l, i)
           /\ ~\E l \in Launches : CleanDevices(l)
  <2>1. leaf' = leaf
    BY ZenonT(40), <1>3
    DEF Next, Preflight, Proceed, ClearDirs, SetupTaps, ClearPool, SetPool, WriteConfigs,
        RegisterCleanup, Fork, AppendPid, WritePidFile, LoopEnds, WaitReturns, CleanTerm,
        CleanKill, CleanDirs, CleanPool, Disturb, FailPrelude, FailLoop, Interrupt,
        LauncherDies, VmEnds, Discover, Killer, KillStrays, CtrlAltDel, KillNamed,
        RemoveTaps, RemoveDirs, hostVars, vars
  <2> QED BY <2>1
<1> QED BY <1>1, <1>2, <1>3

\* A VM that runs and is no orphan belongs to a launch that has its devices still.
LEMMA LiveHaveDevices ==
  ASSUME CleanupAhead, NEW m \in Launches, NEW j \in Instances, vm[<<m, j>>] \in Live
  PROVE  <<m, j>> \in stray \/ ~PastDevices(m)
  BY DEF CleanupAhead, Orphan, PastDevices, Resumed, Loop

LEMMA LeafOwnedStep ==
  ASSUME TypeInv, CleanupAhead, ForkedSoFar, LeafOwned, [Next]_vars
  PROVE  LeafOwned'
<1> SUFFICES ASSUME NEW j \in leaf' PROVE \E m \in Launches : LeafOf(m, j)'
  BY DEF LeafOwned, LeafOf, PastDevices, Resumed
<1>1. CASE \E l \in Launches : j \in Instances /\ VmStep(l, j)
  <2> PICK l \in Launches : j \in Instances /\ VmStep(l, j)
    BY <1>1
  <2>1. HostStep
    BY DEF HostStep
  <2>2. vm[<<l, j>>] \in Live /\ vm'[<<l, j>>] \in {"up", "gone"}
    <3>1. CASE VmStart(l, j)
      BY <3>1, StartOf DEF Live
    <3>2. CASE VmRefuses(l, j)
      BY <3>2 DEF VmRefuses, End, VMs, Live
    <3> QED BY <3>1, <3>2 DEF VmStep
  <2>3. UNCHANGED <<launchVars, stray>>
    BY <2>1, RestKeepsLaunches
  <2>4. LeafOf(l, j)'
    BY <2>2, <2>3, LiveHaveDevices DEF LeafOf, PastDevices, Resumed, launchVars
  <2> QED BY <2>4
<1>2. CASE j \in leaf
  <2>0. j \in Instances
    BY <1>2 DEF TypeInv, HostTypeOK
  <2>1. PICK m \in Launches : LeafOf(m, j)
    BY <1>2 DEF LeafOwned, LeafOf
  <2>2. vm'[<<m, j>>] \in {"up", "gone"} /\ MovesOn(m)
    BY <2>0, <2>1, VmsMoveOn, LaunchMovesOn DEF LeafOf
  <2>3. CASE ~CleanDevices(m)
    BY <2>0, <2>1, <2>2, <2>3 DEF LeafOf, MovesOn
  <2>4. CASE CleanDevices(m)
    <3>1. j \in Requested(m)
      BY <2>0, <2>1 DEF LeafOf, ForkedSoFar, InOrder, Requested
    <3>2. PICK k \in Launches : vm[<<k, j>>] = "up"
      BY <2>4, <3>1 DEF CleanDevices, Occupied
    <3>3. pc[m] = "cl_dev" /\ vm' = vm /\ stray' = stray
      BY <2>4 DEF CleanDevices, Goto
    <3>4. CASE <<k, j>> \in stray
      BY <3>2, <3>3, <3>4 DEF LeafOf
    <3>5. CASE <<k, j>> \notin stray
      <4>1. ~PastDevices(k) /\ k # m
        BY <2>0, <3>2, <3>3, <3>5, LiveHaveDevices
        DEF CleanupAhead, Orphan, Live, Loop
      <4>2. ~PastDevices(k)'
        BY <2>4, <4>1, LaunchKeepsOthers DEF Proceed, OthersKept, PastDevices, Resumed
      <4> QED BY <3>2, <3>3, <4>2 DEF LeafOf
    <3> QED BY <3>4, <3>5
  <2> QED BY <2>3, <2>4
<1> QED BY <1>1, <1>2, LeavesMove

\* Whether or not launches overlap.
LEMMA LeafOwnedInvariance == Spec => [](ForkedSoFar /\ LeafOwned)
<1>1. Init => ForkedSoFar /\ LeafOwned
  BY DEF Init, ForkedSoFar, InOrder, LeafOwned, VMs
<1>2. TypeInv /\ CleanupAhead /\ ForkedSoFar /\ LeafOwned /\ [Next]_vars
        => (ForkedSoFar /\ LeafOwned)'
  BY ForkedSoFarStep, LeafOwnedStep
<1> QED BY <1>1, <1>2, TypeInvariance, CleanupAheadInvariance, PTL DEF Spec

\* When launches do not overlap, a launch that ended through its handler leaves nothing
\* of its own on the host, wherever it was struck and whatever a kill_firecracker.sh did
\* meanwhile; the leaves that remain have held VMs that are not its responsibility.
THEOREM FreesHost ==
  ASSUME ~Overlap
  PROVE  Spec => []TeardownFreesHost
<1>1. SerialInv /\ LeafOwned => TeardownFreesHost
  <2> SUFFICES ASSUME SerialInv, LeafOwned, NEW l \in Launches, pc[l] = "done"
               PROVE  /\ \A j \in Instances :
                           /\ l \notin {tap[j], cfg[j], pidf[j]}
                           /\ sock[j] = l => <<l, j>> \in stray
                      /\ \A j \in leaf : \E m \in Launches :
                           /\ vm[<<m, j>>] \in {"up", "gone"}
                           /\ pc[m] # "done" \/ <<m, j>> \in stray
                      /\ pool # l
    BY DEF TeardownFreesHost
  <2>1. PastDirs(l) /\ PastDevices(l) /\ PastPool(l)
    BY DEF PastDirs, PastDevices, PastPool
  <2>2. \A m \in Launches : ~PastDevices(m) => pc[m] # "done"
    BY DEF PastDevices
  <2> QED BY <2>1, <2>2 DEF SerialInv, Freed, LeafOwned
<1> QED BY <1>1, SerialInvariance, LeafOwnedInvariance, PTL

(***************************************************************************)
(* kill_firecracker.sh.                                                    *)
(***************************************************************************)
\* What holds of a VM that had its socket and its pid file when the killer looked.
Reached(l, j) ==
  seen[<<l, j>>] = "named" =>
    /\ kpc \in {"cad", "kill"} => j \in insts /\ (vm[<<l, j>>] \in Live => pidf[j] = l)
    /\ kpc \in {"taps", "rm"} /\ insts # {} => vm[<<l, j>>] \notin Live

\* A pid file that names a live VM of its own outlives every step but the start of
\* another launch.
LEMMA PidFileStays ==
  ASSUME TypeInv, SerialInv, CleanupAhead, [Next]_vars,
         NEW l \in Launches, NEW j \in Instances, pidf[j] = l, vm[<<l, j>>] \in Live,
         ~(\E m \in Launches : ClearDirs(m)), ~RemoveDirs
  PROVE  pidf'[j] = l
<1> USE DEF SerialInv
<1>1. CASE \E m \in Launches : WritePidFile(m)
  <2> PICK m \in Launches : WritePidFile(m)
    BY <1>1
  <2>1. Busy(m) /\ pc[m] # "clear"
    BY DEF WritePidFile, Busy, Ended
  <2>2. pidf[j] \in {m, NoLaunch}
    BY <2>1 DEF Inherits
  <2>3. m = l
    BY <2>2, LaunchesAssumption
  <2> QED BY <2>3 DEF WritePidFile, Take, TypeInv, HostTypeOK
<1>2. CASE \E m \in Launches : CleanDirs(m)
  <2> PICK m \in Launches : CleanDirs(m)
    BY <1>2
  <2>1. Busy(m) /\ pc[m] = "cl_rm"
    BY DEF CleanDirs, Goto, Busy, Ended
  <2>2. m = l
    BY <2>1, LaunchesAssumption DEF Inherits
  <2>3. <<l, j>> \in stray
    BY <2>1, <2>2 DEF CleanupAhead, Orphan, Loop
  <2> QED BY <2>3 DEF Owners
<1>3. CASE ~\E m \in Launches : WritePidFile(m) \/ CleanDirs(m)
  BY <1>3
  DEF Next, Preflight, Proceed, SetupTaps, ClearPool, SetPool, WriteConfigs,
      RegisterCleanup, Fork, AppendPid, LoopEnds, WaitReturns, CleanTerm,
      CleanKill, CleanDevices, CleanPool, Disturb, FailPrelude, FailLoop, Interrupt,
      LauncherDies, VmStep, VmStart, VmRefuses, VmEnds, Discover, Killer, KillStrays,
      CtrlAltDel, KillNamed, RemoveTaps, hostVars, vars
<1> QED BY <1>1, <1>2, <1>3

\* The steps that are not the killer's, and leave what it saw alone.
LEMMA MeanwhileReached ==
  ASSUME TypeInv, SerialInv, CleanupAhead, [Next]_vars, UNCHANGED <<kpc, insts>>,
         NEW l \in Launches, NEW j \in Instances, Reached(l, j),
         seen'[<<l, j>>] = "named" => seen[<<l, j>>] = "named",
         ~RemoveDirs, (\E m \in Launches : ClearDirs(m)) => seen'[<<l, j>>] # "named"
  PROVE  Reached(l, j)'
<1> SUFFICES ASSUME seen'[<<l, j>>] = "named" PROVE Reached(l, j)'
  BY DEF Reached
<1>1. seen[<<l, j>>] = "named" /\ vm[<<l, j>>] \in {"up", "gone"}
  BY DEF SerialInv, ForkedSoFar, VMs
<1>2. vm'[<<l, j>>] \in Live => vm[<<l, j>>] \in Live
  BY <1>1, VmsMoveOn DEF SerialInv, Live
<1>3. vm[<<l, j>>] \in Live /\ pidf[j] = l => pidf'[j] = l
  BY PidFileStays
<1> QED BY <1>1, <1>2, <1>3 DEF Reached

LEMMA NamedStep ==
  ASSUME TypeInv, SerialInv, CleanupAhead, NamedUntilKilled, [Next]_vars
  PROVE  NamedUntilKilled'
<1> USE DEF TypeInv, KillTypeOK
<1>0. /\ kpc = "pkill" => insts = {}
      /\ \A l \in Launches, j \in Instances : Reached(l, j) /\ <<l, j>> \in VMs
  BY DEF NamedUntilKilled, Reached, VMs
<1> SUFFICES /\ kpc' = "pkill" => insts' = {}
             /\ \A l \in Launches, j \in Instances : Reached(l, j)'
  BY DEF NamedUntilKilled, Reached
<1>1. CASE \E m \in Launches : Preflight(m) \/ Proceed(m) \/ Disturb(m)
  <2> PICK m \in Launches : Preflight(m) \/ Proceed(m) \/ Disturb(m)
    BY <1>1
  <2>1. CASE ClearDirs(m)
    BY <1>0, <2>1 DEF ClearDirs, Reached
  <2>2. CASE ~ClearDirs(m)
    <3>1. UNCHANGED killVars
      BY <2>2
      DEF Preflight, Proceed, SetupTaps, ClearPool, SetPool, WriteConfigs, RegisterCleanup,
          Fork, AppendPid, WritePidFile, LoopEnds, WaitReturns, CleanTerm, CleanKill,
          CleanDirs, CleanDevices, CleanPool, Disturb, FailPrelude, FailLoop, Interrupt,
          LauncherDies
    <3>2. ~(\E k \in Launches : ClearDirs(k)) /\ ~RemoveDirs
      <4>1. ~\E k \in Launches \ {m} : ClearDirs(k)
        BY LaunchKeepsOthers DEF OthersKept, ClearDirs, Goto, LaunchInv, LaunchTypeOK
      <4>2. ~RemoveDirs
        BY <3>1 DEF RemoveDirs, killVars
      <4> QED BY <2>2, <4>1, <4>2
    <3> QED BY <1>0, <3>1, <3>2, MeanwhileReached DEF killVars
  <2> QED BY <2>1, <2>2
<1>2. CASE \/ \E l \in Launches, i \in Instances : VmStep(l, i) \/ VmEnds(l, i)
           \/ UNCHANGED vars
  <2>1. UNCHANGED <<launchVars, killVars>>
    BY <1>2 DEF VmStep, VmStart, VmRefuses, VmEnds, vars
  <2>2. ~(\E k \in Launches : ClearDirs(k)) /\ ~RemoveDirs
    BY <2>1 DEF ClearDirs, Goto, LaunchInv, LaunchTypeOK, RemoveDirs, launchVars, killVars
  <2> QED BY <1>0, <2>1, <2>2, MeanwhileReached DEF killVars
<1>3. CASE Discover
  <2>1. ASSUME NEW l \in Launches, NEW j \in Instances, seen'[<<l, j>>] = "named"
        PROVE  sock[j] = l /\ pidf[j] = l
    BY <1>0, <1>3, <2>1 DEF Discover, Look
  <2>2. ASSUME NEW l \in Launches, NEW j \in Instances PROVE Reached(l, j)'
    BY <1>3, <2>1, LaunchesAssumption DEF Discover, OnDisk, Reached, hostVars
  <2> QED BY <1>3, <2>2 DEF Discover
<1>4. CASE KillStrays
  BY <1>0, <1>4 DEF KillStrays, Reached
<1>5. CASE CtrlAltDel
  <2>1. OnlyEnds
    BY <1>5, EndIsOnlyEnds DEF CtrlAltDel
  <2>2. \A l \in Launches, j \in Instances :
          vm'[<<l, j>>] \in Live => vm[<<l, j>>] \in Live
    BY <2>1 DEF OnlyEnds
  <2> QED BY <1>0, <1>5, <2>2 DEF CtrlAltDel, Reached, hostVars
<1>6. CASE KillNamed
  <2> DEFINE S == {v \in VMs : v[2] \in insts /\ pidf[v[2]] = v[1]}
  <2>1. \A v \in VMs : vm'[v] \in Live => vm[v] \in Live /\ v \notin S
    BY <1>6, EndOnlyEnds DEF KillNamed
  <2>2. ASSUME NEW l \in Launches, NEW j \in Instances, seen'[<<l, j>>] = "named"
        PROVE  vm'[<<l, j>>] \notin Live
    BY <1>0, <1>6, <2>1, <2>2 DEF KillNamed, Reached
  <2> QED BY <1>6, <2>2 DEF KillNamed, Reached
<1>7. CASE RemoveTaps
  BY <1>0, <1>7 DEF RemoveTaps, Reached
<1>8. CASE RemoveDirs
  BY <1>8 DEF RemoveDirs, Reached
<1> QED BY <1>1, <1>2, <1>3, <1>4, <1>5, <1>6, <1>7, <1>8 DEF Next, Killer

\* When launches do not overlap, a kill_firecracker.sh that has done its SIGKILLs has
\* ended every VM whose socket and pid file it found, also when the launch cleaned up
\* under its hands; only a new launch that empties the directory takes one from it.
THEOREM KillerReaches ==
  ASSUME ~Overlap
  PROVE  Spec => []KillReaches
<1>1. Init => NamedUntilKilled
  BY DEF Init, NamedUntilKilled, VMs
<1>2. TypeInv /\ SerialInv /\ CleanupAhead /\ NamedUntilKilled /\ [Next]_vars
        => NamedUntilKilled'
  BY NamedStep
<1>3. NamedUntilKilled => KillReaches
  BY DEF NamedUntilKilled, KillReaches, VMs
<1> QED
  BY <1>1, <1>2, <1>3, TypeInvariance, SerialInvariance, CleanupAheadInvariance, PTL DEF Spec
=============================================================================
