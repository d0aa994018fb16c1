------------------------------- MODULE Fleet -------------------------------
(***************************************************************************)
(* The life of a fleet of Firecracker microVMs on one host: launches (each *)
(* one execution of run_firecracker.sh), the VM processes they fork, the   *)
(* operator's kill_firecracker.sh, and the host state all of them share    *)
(* through the file system and the kernel: API sockets, pid files, TAP     *)
(* devices, generated configs, cgroup leaves and the cpuset of the pool.   *)
(*                                                                         *)
(* A script runs its commands one at a time, so an action is a command, or *)
(* a group of commands that touch one shared resource.  Signals, crashes   *)
(* and the other scripts may come between any two of them.                 *)
(***************************************************************************)
EXTENDS Naturals, FiniteSets

CONSTANTS
  Launches,   \* executions of run_firecracker.sh, each one happening once
  NoLaunch,   \* "nobody's": a resource that does not exist
  MaxN,       \* largest -n an operator asks for
  Capacity,   \* fc_mem_capacity: how many instances the host's RAM holds
  Overlap,    \* TRUE: a launch may begin while another launch or a kill is running, or
              \* while a VM forked earlier is still on its way to exec
  Faults      \* what may go wrong, a subset of FaultKinds

FaultKinds == {"signal", "sigkill", "crash", "error"}

ASSUME LaunchesAssumption == NoLaunch \notin Launches
ASSUME MaxNAssumption     == MaxN \in Nat \ {0}
ASSUME CapacityAssumption == Capacity \in Nat
ASSUME OverlapAssumption  == Overlap \in BOOLEAN
ASSUME FaultsAssumption   == Faults \subseteq FaultKinds

Instances == 0..(MaxN - 1)
VMs       == Launches \X Instances

VARIABLES
  \* --- each launch, a bash process
  pc,      \* the command it is about to run
  n,       \* NUM_INSTANCES
  at,      \* k, the index of the launch loop
  pids,    \* PIDS, the kill list of its cleanup, as instance ids
  trap,    \* is cleanup registered for EXIT, INT and TERM?
  ret,     \* where the shell resumes once cleanup has returned
  cgok,    \* CGROUP_OK
  \* --- the VM processes
  vm,      \* "none", "starting" (forked), "up" (serving its API), "gone"
  \* --- the host
  sdir,    \* does API_SOCKET_FOLDER exist?
  rdir,    \* does FC_RUN_DIR exist?
  sock,    \* whose API socket is the file <k>.socket?
  pidf,    \* whose VM does <k>.pid name?
  cfg,     \* whose config and scratch drive are there for k?
  tap,     \* who created tap<k>?
  leaf,    \* the cgroup leaves vm<k> that exist
  pool,    \* whose cpuset is on the parent cgroup?
  \* --- kill_firecracker.sh
  kpc,     \* the command it is about to run, "off" when it is not running
  insts,   \* INSTANCES, what fc_instances returned
  \* --- history, read by properties only
  stray,   \* VMs forked where no cleanup of their launch can know of them
  seen     \* what each VM was when kill_firecracker.sh looked at the sockets: "named"
           \* if it was up and its pid file was there, and no launch removed it since

launchVars == <<pc, n, at, pids, trap, ret, cgok>>
hostVars   == <<sdir, rdir, sock, pidf, cfg, tap, leaf, pool>>
killVars   == <<kpc, insts, seen>>
vars == <<launchVars, vm, hostVars, killVars, stray>>

Prelude == {"clear", "taps", "unpool", "pool", "configs", "register"}
Loop    == {"fork", "append", "pidfile"}
Cleanup == {"cl_term", "cl_kill", "cl_rm", "cl_dev", "cl_pool"}
Ended   == {"done", "failed", "killed"}
PCs     == {"idle", "wait"} \cup Prelude \cup Loop \cup Cleanup \cup Ended

Live == {"starting", "up"}

(***************************************************************************)
(* Helpers.                                                                *)
(***************************************************************************)
Requested(l) == {j \in Instances : j < n[l]}
OnList(l)    == {<<l, j>> : j \in pids[l]}

\* A resource per instance that is lost, or that l now owns, for the instances in S.
Lose(res, S)    == [j \in Instances |-> IF j \in S THEN NoLaunch ELSE res[j]]
Take(res, l, S) == [j \in Instances |-> IF j \in S THEN l ELSE res[j]]

\* The processes of the VMs in S end; their sockets stay behind on disk.
End(S) == [v \in VMs |-> IF v \in S /\ vm[v] \in Live THEN "gone" ELSE vm[v]]

\* rm -rf of API_SOCKET_FOLDER, and of FC_RUN_DIR.
RemoveSockets == sock' = Lose(sock, Instances) /\ pidf' = Lose(pidf, Instances)
RemoveConfigs == cfg' = Lose(cfg, Instances)

Goto(l, from, to) == pc[l] = from /\ pc' = [pc EXCEPT ![l] = to]

\* Mutant: the handler does not begin with `trap - EXIT INT TERM`.
Handle_StaysArmed(l, r) ==
  /\ trap[l]
  /\ trap' = trap
  /\ ret'  = [ret EXCEPT ![l] = r]
  /\ pc'   = [pc EXCEPT ![l] = "cl_term"]

\* The EXIT, INT or TERM handler begins; afterwards the shell goes on at r.
Handle(l, r) ==
  /\ trap[l]
  /\ trap' = [trap EXCEPT ![l] = FALSE]
  /\ ret'  = [ret EXCEPT ![l] = r]
  /\ pc'   = [pc EXCEPT ![l] = "cl_term"]

\* `set -e`, or the end of the script: the EXIT handler if there is one.
Exit(l) ==
  \/ Handle(l, "done")
  \/ /\ ~trap[l]
     /\ pc' = [pc EXCEPT ![l] = "done"]
     /\ UNCHANGED <<trap, ret>>

(***************************************************************************)
(* run_firecracker.sh up to the launch loop.                               *)
(***************************************************************************)
Init ==
  /\ pc    = [l \in Launches |-> "idle"]
  /\ n     = [l \in Launches |-> 0]
  /\ at    = [l \in Launches |-> 0]
  /\ pids  = [l \in Launches |-> {}]
  /\ trap  = [l \in Launches |-> FALSE]
  /\ ret   = [l \in Launches |-> "done"]
  /\ cgok  = [l \in Launches |-> FALSE]
  /\ vm    = [v \in VMs |-> "none"]
  /\ sdir  = FALSE
  /\ rdir  = FALSE
  /\ sock  = [j \in Instances |-> NoLaunch]
  /\ pidf  = [j \in Instances |-> NoLaunch]
  /\ cfg   = [j \in Instances |-> NoLaunch]
  /\ tap   = [j \in Instances |-> NoLaunch]
  /\ leaf  = {}
  /\ pool  = NoLaunch
  /\ kpc   = "off"
  /\ insts = {}
  /\ stray = {}
  /\ seen  = [v \in VMs |-> "no"]

\* A launch is refused before it touches the host when RAM cannot hold it.
Preflight(l) ==
  /\ \/ Overlap
     \/ /\ kpc = "off"
        /\ \A m \in Launches : pc[m] \in {"idle"} \cup Ended
        /\ \A v \in VMs : vm[v] # "starting"
  /\ \E want \in 1..MaxN :
       /\ n' = [n EXCEPT ![l] = want]
       /\ Goto(l, "idle", IF want > Capacity THEN "failed" ELSE "clear")
  /\ UNCHANGED <<at, pids, trap, ret, cgok, vm, hostVars, killVars, stray>>

\* Mutant: only the run directory is cleared.
ClearDirs_KeepsSockets(l) ==
  /\ Goto(l, "clear", "taps")
  /\ RemoveConfigs /\ rdir' = TRUE /\ sdir' = TRUE
  /\ UNCHANGED <<n, at, pids, trap, ret, cgok, vm, sock, pidf, tap, leaf, pool,
                 killVars, stray>>

ClearDirs(l) ==
  /\ Goto(l, "clear", "taps")
  /\ RemoveSockets /\ sdir' = TRUE
  /\ RemoveConfigs /\ rdir' = TRUE
  /\ seen' = [v \in VMs |-> IF seen[v] = "named" THEN "loose" ELSE seen[v]]
  /\ UNCHANGED <<n, at, pids, trap, ret, cgok, vm, tap, leaf, pool, kpc, insts, stray>>

\* setup_tap.sh: each TAP is deleted, whoever made it, and created anew.
SetupTaps(l) ==
  /\ Goto(l, "taps", "unpool")
  /\ tap' = Take(tap, l, Requested(l))
  /\ UNCHANGED <<n, at, pids, trap, ret, cgok, vm, sdir, rdir, sock, pidf, cfg, leaf, pool,
                 killVars, stray>>

\* Mutant: the pool is cleared only by the launch that asks for one.
ClearPool_Keeps(l) ==
  /\ Goto(l, "unpool", "pool")
  /\ \E ok \in BOOLEAN : cgok' = [cgok EXCEPT ![l] = ok]
  /\ UNCHANGED <<n, at, pids, trap, ret, vm, hostVars, killVars, stray>>

\* The pool outlives a run, so it is cleared whether or not this run has one.
ClearPool(l) ==
  /\ Goto(l, "unpool", "pool")
  /\ \E ok \in BOOLEAN :
       /\ cgok' = [cgok EXCEPT ![l] = ok]
       /\ pool' = IF ok THEN NoLaunch ELSE pool
  /\ UNCHANGED <<n, at, pids, trap, ret, vm, sdir, rdir, sock, pidf, cfg, tap, leaf,
                 killVars, stray>>

\* CPU_POOL or OVERSUB may ask for a pool; without a cgroup it is ignored.
SetPool(l) ==
  /\ Goto(l, "pool", "configs")
  /\ \E wanted \in BOOLEAN : pool' = IF wanted /\ cgok[l] THEN l ELSE pool
  /\ UNCHANGED <<n, at, pids, trap, ret, cgok, vm, sdir, rdir, sock, pidf, cfg, tap, leaf,
                 killVars, stray>>

\* Scratch drives and configs; the writes fail, and `set -e` ends the script,
\* when the run directory has been removed meanwhile.
WriteConfigs(l) ==
  /\ Goto(l, "configs", IF rdir THEN "register" ELSE "failed")
  /\ cfg' = IF rdir THEN Take(cfg, l, Requested(l)) ELSE cfg
  /\ UNCHANGED <<n, at, pids, trap, ret, cgok, vm, sdir, rdir, sock, pidf, tap, leaf, pool,
                 killVars, stray>>

RegisterCleanup(l) ==
  /\ Goto(l, "register", "fork")
  /\ trap' = [trap EXCEPT ![l] = TRUE]
  /\ pids' = [pids EXCEPT ![l] = {}]
  /\ at'   = [at EXCEPT ![l] = 0]
  /\ UNCHANGED <<n, ret, cgok, vm, hostVars, killVars, stray>>

\* A command of the prelude fails: exit 1, with no handler registered yet.
FailPrelude(l) ==
  /\ "error" \in Faults
  /\ pc[l] \in Prelude \ {"register"}
  /\ pc' = [pc EXCEPT ![l] = "failed"]
  /\ UNCHANGED <<n, at, pids, trap, ret, cgok, vm, hostVars, killVars, stray>>

(***************************************************************************)
(* The launch loop: fork, append to PIDS, write the pid file, wait.        *)
(***************************************************************************)
Fork(l) ==
  /\ at[l] < n[l]
  /\ Goto(l, "fork", "append")
  /\ vm' = [vm EXCEPT ![<<l, at[l]>>] = "starting"]
  /\ stray' = IF trap[l] THEN stray ELSE stray \cup {<<l, at[l]>>}
  /\ UNCHANGED <<n, at, pids, trap, ret, cgok, hostVars, killVars>>

\* Mutant: PIDS=($!) instead of PIDS+=($!).
AppendPid_Replaces(l) ==
  /\ Goto(l, "append", "pidfile")
  /\ pids' = [pids EXCEPT ![l] = {at[l]}]
  /\ UNCHANGED <<n, at, trap, ret, cgok, vm, hostVars, killVars, stray>>

AppendPid(l) ==
  /\ Goto(l, "append", "pidfile")
  /\ pids' = [pids EXCEPT ![l] = @ \cup {at[l]}]
  /\ UNCHANGED <<n, at, trap, ret, cgok, vm, hostVars, killVars, stray>>

\* Mutant: a pid file that cannot be written is not fatal.
WritePidFile_Ignored(l) ==
  /\ Goto(l, "pidfile", "fork")
  /\ pidf' = IF sdir THEN Take(pidf, l, {at[l]}) ELSE pidf
  /\ at'   = [at EXCEPT ![l] = @ + 1]
  /\ UNCHANGED <<n, pids, trap, ret, cgok, vm, sdir, rdir, sock, cfg, tap, leaf, pool,
                 killVars, stray>>

\* `tee` cannot create the pid file once the socket directory is gone.
WritePidFile(l) ==
  /\ pc[l] = "pidfile"
  /\ \/ /\ sdir
        /\ Goto(l, "pidfile", "fork")
        /\ pidf' = Take(pidf, l, {at[l]})
        /\ at'   = [at EXCEPT ![l] = @ + 1]
        /\ UNCHANGED <<trap, ret>>
     \/ /\ ~sdir
        /\ Exit(l)
        /\ UNCHANGED <<pidf, at>>
  /\ UNCHANGED <<n, pids, cgok, vm, sdir, rdir, sock, cfg, tap, leaf, pool, killVars, stray>>

\* A command before the fork fails, for instance the console cannot be created.
FailLoop(l) ==
  /\ "error" \in Faults
  /\ pc[l] = "fork" /\ at[l] < n[l]
  /\ Exit(l)
  /\ UNCHANGED <<n, at, pids, cgok, vm, hostVars, killVars, stray>>

LoopEnds(l) ==
  /\ at[l] >= n[l]
  /\ Goto(l, "fork", "wait")
  /\ UNCHANGED <<n, at, pids, trap, ret, cgok, vm, hostVars, killVars, stray>>

WaitReturns(l) ==
  /\ pc[l] = "wait"
  /\ \A j \in Instances : vm[<<l, j>>] \notin Live
  /\ Exit(l)
  /\ UNCHANGED <<n, at, pids, cgok, vm, hostVars, killVars, stray>>

(***************************************************************************)
(* cleanup().  It does not call exit: after a signal the shell resumes the *)
(* command it was at, unless that command died of the same signal.         *)
(***************************************************************************)
CleanTerm(l) ==
  /\ Goto(l, "cl_term", "cl_kill")
  /\ \E obey \in SUBSET OnList(l) : vm' = End(obey)
  /\ UNCHANGED <<n, at, pids, trap, ret, cgok, hostVars, killVars, stray>>

\* Mutant: no kill -9 after the TERM.
CleanKill_TermIsEnough(l) ==
  /\ Goto(l, "cl_kill", "cl_rm")
  /\ UNCHANGED <<n, at, pids, trap, ret, cgok, vm, hostVars, killVars, stray>>

CleanKill(l) ==
  /\ Goto(l, "cl_kill", "cl_rm")
  /\ vm' = End(OnList(l))
  /\ UNCHANGED <<n, at, pids, trap, ret, cgok, hostVars, killVars, stray>>

CleanDirs(l) ==
  /\ Goto(l, "cl_rm", "cl_dev")
  /\ RemoveSockets /\ sdir' = FALSE
  /\ RemoveConfigs /\ rdir' = FALSE
  /\ UNCHANGED <<n, at, pids, trap, ret, cgok, vm, tap, leaf, pool, killVars, stray>>

\* rmdir fails on a leaf that still holds a process.
Occupied(j) == \E l \in Launches : vm[<<l, j>>] = "up" /\ cgok[l]

\* Mutant: only the devices of the instances that were started are removed.
CleanDevices_OfStarted(l) ==
  /\ Goto(l, "cl_dev", "cl_pool")
  /\ tap'  = Lose(tap, pids[l])
  /\ leaf' = {j \in leaf : j \in pids[l] => Occupied(j)}
  /\ UNCHANGED <<n, at, pids, trap, ret, cgok, vm, sdir, rdir, sock, pidf, cfg, pool,
                 killVars, stray>>

CleanDevices(l) ==
  /\ Goto(l, "cl_dev", "cl_pool")
  /\ tap'  = Lose(tap, Requested(l))
  /\ leaf' = {j \in leaf : j \in Requested(l) => Occupied(j)}
  /\ UNCHANGED <<n, at, pids, trap, ret, cgok, vm, sdir, rdir, sock, pidf, cfg, pool,
                 killVars, stray>>

CleanPool(l) ==
  /\ Goto(l, "cl_pool", ret[l])
  /\ pool' = NoLaunch
  /\ UNCHANGED <<n, at, pids, trap, ret, cgok, vm, sdir, rdir, sock, pidf, cfg, tap, leaf,
                 killVars, stray>>

(***************************************************************************)
(* Signals.                                                                *)
(***************************************************************************)
\* INT or TERM with the handler registered.  A fork not yet in PIDS is lost to
\* every later command of this launch.  `wait` is interrupted and ends the script.
Interrupt(l) ==
  /\ "signal" \in Faults
  /\ pc[l] \in Loop \cup {"wait"}
  /\ \/ Handle(l, "done") /\ pc[l] # "append"
     \/ Handle(l, pc[l])  /\ pc[l] # "wait"
  /\ stray' = IF pc[l] = "append" THEN stray \cup {<<l, at[l]>>} ELSE stray
  /\ UNCHANGED <<n, at, pids, cgok, vm, hostVars, killVars>>

\* INT or TERM with no handler (before it is registered, during cleanup, after
\* it), or SIGKILL at any moment: the shell is gone, its VMs are not.
LauncherDies(l) ==
  /\ pc[l] \notin {"idle"} \cup Ended
  /\ "sigkill" \in Faults \/ ("signal" \in Faults /\ ~trap[l])
  /\ pc' = [pc EXCEPT ![l] = "killed"]
  /\ UNCHANGED <<n, at, pids, trap, ret, cgok, vm, hostVars, killVars, stray>>

(***************************************************************************)
(* The forked VM: the subshell joins its leaf and execs firecracker, which *)
(* reads its config and binds its socket.                                  *)
(***************************************************************************)
VmStart(l, j) ==
  /\ vm[<<l, j>>] = "starting"
  /\ sdir /\ cfg[j] # NoLaunch
  /\ sock[j] = NoLaunch
  /\ vm'   = [vm EXCEPT ![<<l, j>>] = "up"]
  /\ sock' = Take(sock, l, {j})
  /\ leaf' = IF cgok[l] THEN leaf \cup {j} ELSE leaf
  /\ UNCHANGED <<launchVars, sdir, rdir, pidf, cfg, tap, pool, killVars, stray>>

\* The VM cannot start: no config, or its socket file is there already.
VmRefuses(l, j) ==
  /\ vm[<<l, j>>] = "starting"
  /\ ~sdir \/ cfg[j] = NoLaunch \/ sock[j] # NoLaunch \/ "crash" \in Faults
  /\ vm'   = End({<<l, j>>})
  /\ leaf' = IF cgok[l] THEN leaf \cup {j} ELSE leaf
  /\ UNCHANGED <<launchVars, sdir, rdir, sock, pidf, cfg, tap, pool, killVars, stray>>

\* The guest shuts down or the VMM crashes; the socket file remains.
VmEnds(l, j) ==
  /\ "crash" \in Faults
  /\ vm[<<l, j>>] = "up"
  /\ vm' = End({<<l, j>>})
  /\ UNCHANGED <<launchVars, hostVars, killVars, stray>>

(***************************************************************************)
(* kill_firecracker.sh.                                                    *)
(***************************************************************************)
\* fc_instances: the ids of the socket files.
OnDisk == {j \in Instances : sock[j] # NoLaunch}

Look(v) ==
  IF vm[v] # "up" THEN "no"
  ELSE IF sock[v[2]] = v[1] /\ pidf[v[2]] = v[1] THEN "named" ELSE "loose"

Discover ==
  /\ kpc = "off"
  /\ insts' = OnDisk
  /\ seen'  = [v \in VMs |-> Look(v)]
  /\ kpc'   = IF OnDisk = {} THEN "pkill" ELSE "cad"
  /\ UNCHANGED <<launchVars, vm, hostVars, stray>>

\* pkill sends one TERM to every process that has exec'd firecracker.
KillStrays ==
  /\ kpc = "pkill"
  /\ \E obey \in SUBSET {v \in VMs : vm[v] = "up"} : vm' = End(obey)
  /\ kpc' = "taps"
  /\ UNCHANGED <<launchVars, hostVars, insts, seen, stray>>

\* Mutant: guests are trusted to obey, nothing is killed afterwards.
CtrlAltDel_Trusted ==
  /\ kpc = "cad"
  /\ \E obey \in SUBSET {v \in VMs : v[2] \in insts /\ sock[v[2]] = v[1]} : vm' = End(obey)
  /\ kpc' = "taps"
  /\ UNCHANGED <<launchVars, hostVars, insts, seen, stray>>

\* Ctrl-Alt-Del goes to whoever listens on the socket; a guest may ignore it.
CtrlAltDel ==
  /\ kpc = "cad"
  /\ \E obey \in SUBSET {v \in VMs : v[2] \in insts /\ sock[v[2]] = v[1]} : vm' = End(obey)
  /\ kpc' = "kill"
  /\ UNCHANGED <<launchVars, hostVars, insts, seen, stray>>

KillNamed ==
  /\ kpc = "kill"
  /\ vm'  = End({v \in VMs : v[2] \in insts /\ pidf[v[2]] = v[1]})
  /\ kpc' = "taps"
  /\ UNCHANGED <<launchVars, hostVars, insts, seen, stray>>

\* Every TAP that could exist, not only those of the instances found.
RemoveTaps ==
  /\ kpc = "taps"
  /\ tap' = Lose(tap, Instances)
  /\ kpc' = "rm"
  /\ UNCHANGED <<launchVars, vm, sdir, rdir, sock, pidf, cfg, leaf, pool, insts, seen, stray>>

\* -k keeps the configs and the scratch drives for a post-mortem.
RemoveDirs ==
  /\ kpc = "rm"
  /\ RemoveSockets /\ sdir' = FALSE
  /\ \/ RemoveConfigs /\ rdir' = FALSE
     \/ UNCHANGED <<cfg, rdir>>
  /\ kpc'  = "off"
  /\ UNCHANGED <<launchVars, vm, tap, leaf, pool, insts, seen, stray>>

(***************************************************************************)
(* The specification.                                                      *)
(***************************************************************************)
Proceed(l) ==
  \/ ClearDirs(l) \/ SetupTaps(l) \/ ClearPool(l) \/ SetPool(l) \/ WriteConfigs(l)
  \/ RegisterCleanup(l) \/ Fork(l) \/ AppendPid(l) \/ WritePidFile(l) \/ LoopEnds(l)
  \/ WaitReturns(l) \/ CleanTerm(l) \/ CleanKill(l) \/ CleanDirs(l) \/ CleanDevices(l)
  \/ CleanPool(l)

Disturb(l) == FailPrelude(l) \/ FailLoop(l) \/ Interrupt(l) \/ LauncherDies(l)

VmStep(l, j) == VmStart(l, j) \/ VmRefuses(l, j)

Killer == KillStrays \/ CtrlAltDel \/ KillNamed \/ RemoveTaps \/ RemoveDirs

Next ==
  \/ \E l \in Launches : Preflight(l) \/ Proceed(l) \/ Disturb(l)
  \/ \E l \in Launches, j \in Instances : VmStep(l, j) \/ VmEnds(l, j)
  \/ Discover \/ Killer

Spec == Init /\ [][Next]_vars

\* Processes that have begun are scheduled: a shell runs its next command, a
\* forked VM starts or fails, a running kill_firecracker.sh goes on.  Nobody has
\* to launch, to signal or to kill, and no VM has to crash.
Fairness ==
  /\ \A l \in Launches : WF_vars(Proceed(l))
  /\ \A l \in Launches, j \in Instances : WF_vars(VmStep(l, j))
  /\ WF_vars(Killer)

FairSpec == Spec /\ Fairness
=============================================================================
