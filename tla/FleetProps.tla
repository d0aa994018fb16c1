----------------------------- MODULE FleetProps -----------------------------
(***************************************************************************)
(* What a fleet's scripts owe their operator (see Fleet).                  *)
(***************************************************************************)
EXTENDS Fleet

Owner == Launches \cup {NoLaunch}

LaunchTypeOK ==
  /\ pc    \in [Launches -> PCs]
  /\ n     \in [Launches -> 0..MaxN]
  /\ at    \in [Launches -> 0..MaxN]
  /\ pids  \in [Launches -> SUBSET Instances]
  /\ trap  \in [Launches -> BOOLEAN]
  /\ ret   \in [Launches -> Loop \cup {"done"}]
  /\ cgok  \in [Launches -> BOOLEAN]

VmTypeOK ==
  /\ vm    \in [VMs -> {"none", "gone"} \cup Live]
  /\ stray \in SUBSET VMs

HostTypeOK ==
  /\ sdir  \in BOOLEAN
  /\ rdir  \in BOOLEAN
  /\ sock  \in [Instances -> Owner]
  /\ pidf  \in [Instances -> Owner]
  /\ cfg   \in [Instances -> Owner]
  /\ tap   \in [Instances -> Owner]
  /\ leaf  \in SUBSET Instances
  /\ pool  \in Owner

KillTypeOK ==
  /\ kpc   \in {"off", "pkill", "cad", "kill", "taps", "rm"}
  /\ insts \in SUBSET Instances
  /\ seen  \in [VMs -> {"no", "loose", "named"}]

\* The loop index is that of an instance from the fork to the pid file, also while
\* a handler interrupts the two commands in between.
AtRecordsInstance ==
  \A l \in Launches :
    pc[l] \in {"append", "pidfile"} \/ (pc[l] \in Cleanup /\ ret[l] \in {"append", "pidfile"})
      => at[l] < n[l]

\* The type of every variable, launches, VM processes, host and killer, and the bound
\* of the launch loop: no instance is forked or recorded beyond NUM_INSTANCES.
TypeOK == LaunchTypeOK /\ AtRecordsInstance /\ VmTypeOK /\ HostTypeOK /\ KillTypeOK

\* A VM nobody is responsible for: it was forked out of its cleanup's reach, or
\* its launcher died without running one.
Orphan(l, j) == <<l, j>> \in stray \/ pc[l] = "killed"

(***************************************************************************)
(* The launcher and its kill list.                                         *)
(***************************************************************************)
\* Every live VM is on the kill list of its launch's cleanup, except the one
\* whose fork is being recorded right now and the orphans.  This is what "so a
\* failure part-way through the launch loop still tears down whatever is already
\* running" (run_firecracker.sh) rests on.
KillListComplete ==
  \A l \in Launches, j \in Instances :
    vm[<<l, j>>] \in Live /\ ~Orphan(l, j) =>
      j \in pids[l] \/ (pc[l] = "append" /\ at[l] = j)

\* A launch that ended through its handler leaves none of its VMs alive but the
\* stray ones, wherever in the launch loop a signal or a failure struck it, and
\* whatever other scripts do meanwhile.
TeardownEndsVMs ==
  \A l \in Launches, j \in Instances :
    pc[l] = "done" /\ vm[<<l, j>>] \in Live => <<l, j>> \in stray

\* It also leaves none of the TAPs, configs, pid files and sockets it made, and no pool
\* for the next launch or for fc_reserved_cpus to find; a cgroup leaf that is there has
\* held a VM of a launch that has not cleaned up, or a stray one.
TeardownFreesHost ==
  \A l \in Launches : pc[l] = "done" =>
    /\ \A j \in Instances :
         /\ l \notin {tap[j], cfg[j], pidf[j]}
         /\ sock[j] = l => <<l, j>> \in stray
    /\ \A j \in leaf : \E m \in Launches :
         /\ vm[<<m, j>>] \in {"up", "gone"}
         /\ pc[m] # "done" \/ <<m, j>> \in stray
    /\ pool # l

(***************************************************************************)
(* The inductive invariant behind the first two claims above (FleetProofs) *)
(***************************************************************************)
\* A VM that is alive and no orphan has a cleanup ahead of it, and is on its list:
\* the launch is in its loop or waiting with the handler armed, or the handler is
\* still ahead of its kill -9.
CleanupAhead ==
  \A l \in Launches, j \in Instances :
    vm[<<l, j>>] \in Live /\ ~Orphan(l, j) =>
      \/ /\ trap[l] /\ pc[l] \in Loop \cup {"wait"}
         /\ j \in pids[l] \/ (pc[l] = "append" /\ at[l] = j)
      \/ pc[l] \in {"cl_term", "cl_kill"} /\ j \in pids[l]

(***************************************************************************)
(* One launch after another.                                               *)
(***************************************************************************)
\* While a launch starts or runs its VMs, whatever an earlier launch left behind,
\* of its own accord or by dying, is out of the way: no TAP, config, pid file or
\* pool of another launch is in the place of its own.
NothingInherited ==
  \A l \in Launches : pc[l] \in Loop \cup {"wait"} /\ trap[l] =>
    /\ \A j \in Requested(l) : {tap[j], cfg[j], pidf[j]} \subseteq {l, NoLaunch}
    /\ cgok[l] => pool \in {l, NoLaunch}

\* Two live VMs share an instance id, and with it a TAP name, an address and a
\* cgroup leaf, only if one of them is an orphan.
OneVMPerInstance ==
  \A l, m \in Launches, j \in Instances :
    l # m /\ vm[<<l, j>>] = "up" /\ vm[<<m, j>>] = "up" => Orphan(l, j) \/ Orphan(m, j)

\* "Firecracker refuses to start if its socket already exists, so the previous
\* run's state is cleared": a VM about to bind its socket finds the path free,
\* also when the launch before was killed or its VMs crashed.
SocketFree ==
  \A l \in Launches, j \in Instances : vm[<<l, j>>] = "starting" => sock[j] = NoLaunch

(***************************************************************************)
(* kill_firecracker.sh.                                                    *)
(***************************************************************************)
\* Once the killer is past its SIGKILLs, every VM that had its socket and its pid
\* file on disk when the killer looked is gone: a guest that ignores Ctrl-Alt-Del,
\* a launcher that cleans up at the same time or a VM started meanwhile change
\* nothing about that; only a new launch that empties the directory does.
KillReaches ==
  kpc \in {"taps", "rm"} /\ insts # {} =>
    \A v \in VMs : seen[v] = "named" => vm[v] \notin Live

(***************************************************************************)
(* The promise behind the commands (see FleetAbstract).                    *)
(***************************************************************************)
\* How far a launch is, seen from outside.  After its handler the shell may resume
\* the launch loop, with the handler disarmed: that launch is still stopping.
Stage(l) ==
  CASE pc[l] \in {"idle"} \cup Prelude              -> "idle"
    [] pc[l] \in Loop \cup {"wait"} /\ trap[l]      -> "running"
    [] pc[l] \in Cleanup                            -> "stopping"
    [] pc[l] \in Loop \cup {"wait"} /\ ~trap[l]     -> "stopping"
    [] pc[l] \in {"done", "failed"}                 -> "over"
    [] pc[l] = "killed"                             -> "lost"

CaredFor(v) == vm[v] \in Live /\ ~Orphan(v[1], v[2])

StageMap == [l \in Launches |-> Stage(l)]
Ours     == {v \in VMs : CaredFor(v)}

Abstract == INSTANCE FleetAbstract WITH stage <- StageMap, ours <- Ours

\* run_firecracker.sh implements the promise of FleetAbstract: VMs it answers for are
\* started only while it runs, none once its handler has begun, even if the launch
\* loop goes on after it, and it is over only when none of them is left.
KeepsPromise == Abstract!Spec

(***************************************************************************)
(* Progress.                                                               *)
(***************************************************************************)
\* A launcher whose handler has begun does end, although cleanup does not exit and
\* the shell resumes the launch loop after it.  A kill_firecracker.sh that comes in the
\* middle of a launch ends the launch, too: the next pid file cannot be written.
LaunchesEnd ==
  \A l \in Launches :
    /\ Stage(l) = "stopping" ~> pc[l] \in Ended
    /\ (pc[l] \in Loop /\ at[l] < n[l] /\ ~sdir) ~> pc[l] \in Ended
=============================================================================
