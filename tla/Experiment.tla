----------------------------- MODULE Experiment -----------------------------
(***************************************************************************)
(* fc_experiment.sh: one power-measurement experiment.  It launches a      *)
(* fleet or takes over a running one, finds the process behind every       *)
(* socket, starts collectors that end by themselves after TOTAL_DURATION,  *)
(* invokes every VM once per round, all VMs of a round at the same time,   *)
(* and stops what it started.  Time is counted in seconds from the start   *)
(* of the collectors, and passes only while the script sleeps or waits.    *)
(***************************************************************************)
EXTENDS Integers, FiniteSets

CONSTANTS
  Ids,       \* instances that may have a socket
  Nobody,    \* no process
  Stranger,  \* a process that is no Firecracker
  NumVms,    \* -N
  Rounds,    \* -n, COUNT
  Est,       \* -E, EST_INVOKE_SECS
  Delay,     \* -d, between rounds
  Before,    \* baseline sleep before the first round (8 in the code)
  After,     \* sleep after the last round (3)
  Margin,    \* what TOTAL_DURATION has to spare (30)
  Slowest    \* the longest an invocation takes

ASSUME IdsAssumption    == Ids \subseteq Nat /\ IsFiniteSet(Ids) /\ Nobody \notin Ids
ASSUME StrangerAssumption == Stranger \notin Ids \cup {Nobody}
ASSUME NumVmsAssumption == NumVms \in Nat \ {0} /\ 0..(NumVms - 1) \subseteq Ids
ASSUME TimesAssumption  ==
  /\ Rounds \in Nat /\ Est \in Nat /\ Delay \in Nat /\ Slowest \in Nat
  /\ Before \in Nat /\ After \in Nat /\ Margin \in Nat
ASSUME MarginAssumption == Before + After <= Margin

VARIABLES
  pc,       \* the step of the script
  at,       \* k, the loop index of the steps that go through the instances
  alive,    \* instances whose Firecracker process runs
  sock,     \* instances whose socket file exists
  started,  \* FC_STARTED
  pids,     \* FC_PIDS: whose process was found for each instance
  round,    \* i, the round
  inv,      \* the invocations of the round: "idle", "running" or "done"
  rows,     \* how many rows invocations.csv has for a round and an instance
  coll,     \* the collectors: "off", "on" or "stopped"
  watch,    \* the process fc_proc.py samples for each instance
  exact,    \* is fuser or ss installed on this host?
  lsof,     \* is lsof?
  now,      \* seconds since they were started
  until,    \* when the current sleep is over
  since,    \* when the current round was fired
  killed    \* history: instances this experiment killed

fleet == <<alive, sock, started, pids, killed>>
tools == <<exact, lsof>>
colls == <<coll, watch, tools>>
vars  == <<pc, at, fleet, round, inv, rows, colls, now, until, since>>

Mine == 0..(NumVms - 1)

\* Mutant: the gaps between rounds are forgotten.
TotalDuration_NoGaps == Rounds * Est + Margin

TotalDuration == Rounds * (Est + Delay) + Margin

\* A fleet may be running already, with VMs that crashed and left their socket.
Init ==
  /\ pc = "check" /\ at = 0
  /\ sock  \in SUBSET Ids
  /\ alive \in SUBSET sock
  /\ started = FALSE
  /\ pids  = [k \in Mine |-> Nobody]
  /\ round = 0
  /\ inv   = [k \in Mine |-> "idle"]
  /\ rows  = [r \in 1..Rounds |-> [k \in Mine |-> 0]]
  /\ coll  = "off" /\ watch = [k \in Mine |-> Nobody] /\ exact \in BOOLEAN /\ lsof \in BOOLEAN
  /\ now = 0 /\ until = 0 /\ since = 0
  /\ killed = {}

Goto(s, t) == pc = s /\ pc' = t
Timing     == <<now, until, since>>
Invoking   == <<round, inv, rows>>

(***************************************************************************)
(* A fleet, and who is who in it.                                          *)
(***************************************************************************)
Check ==
  /\ pc = "check"
  /\ started' = (sock = {})
  /\ pc' = IF sock = {} \/ Cardinality(sock) >= NumVms THEN "sockets" ELSE "failed"
  /\ UNCHANGED <<at, alive, sock, pids, killed, Invoking, colls, Timing>>

\* run_firecracker.sh, in another terminal, brings a VM up.
Boot(k) ==
  /\ started /\ pc = "sockets" /\ k \notin sock
  /\ sock'  = sock \cup {k}
  /\ alive' = alive \cup {k}
  /\ UNCHANGED <<pc, at, started, pids, killed, Invoking, colls, Timing>>

\* A VM goes down at any time; its socket file stays.
VmCrash(k) ==
  /\ k \in alive
  /\ alive' = alive \ {k}
  /\ UNCHANGED <<pc, at, sock, started, pids, killed, Invoking, colls, Timing>>

\* Mutant: a socket is waited for without a limit.
AwaitSocket_Forever ==
  /\ pc = "sockets"
  /\ \/ at < NumVms /\ at \in sock /\ at' = at + 1 /\ UNCHANGED pc
     \/ at = NumVms /\ pc' = "confirm" /\ at' = 0
  /\ UNCHANGED <<fleet, Invoking, colls, Timing>>

\* Each socket is waited for; after 30 s without it the experiment gives up.
AwaitSocket ==
  /\ pc = "sockets"
  /\ \/ at < NumVms /\ at \in sock /\ at' = at + 1 /\ UNCHANGED pc
     \/ at < NumVms /\ at \notin sock /\ pc' = "failed" /\ UNCHANGED at
     \/ at = NumVms /\ pc' = "confirm" /\ at' = 0
  /\ UNCHANGED <<fleet, Invoking, colls, Timing>>

\* Mutant: by name first.
Resolve_ByName(k) == IF alive = {} THEN {Nobody} ELSE alive

\* Mutant: by name any Firecracker passes, not only the last one there is.
Resolve_Any(k) ==
  IF exact /\ k \in alive THEN {k} ELSE IF alive # {} THEN alive ELSE {Nobody}

\* fc_pid.sh: what it may answer.  fuser and ss know the process that listens on the
\* socket, and nobody listens for a dead VM.  `lsof -t -U <socket>` lists whoever has
\* the file open OR has a UNIX socket at all: whichever Firecracker it names first
\* passes, alive or dead as the instance asked for may be.  By name, the only
\* Firecracker there is passes.
Resolve(k) ==
  IF exact /\ k \in alive THEN {k}
  ELSE IF alive # {} /\ (lsof \/ Cardinality(alive) = 1) THEN alive
  ELSE {Nobody}

Confirm ==
  /\ pc = "confirm"
  /\ \/ /\ at < NumVms
        /\ \E p \in Resolve(at) \ {Nobody} : pids' = [pids EXCEPT ![at] = p]
        /\ at' = at + 1 /\ UNCHANGED pc
     \/ /\ at < NumVms /\ Nobody \in Resolve(at)
        /\ pc' = "failed" /\ UNCHANGED <<pids, at>>
     \/ at = NumVms /\ pc' = "collect" /\ UNCHANGED <<pids, at>>
  /\ UNCHANGED <<alive, sock, started, killed, Invoking, colls, Timing>>

(***************************************************************************)
(* Collectors, rounds, sleeps.                                             *)
(***************************************************************************)
\* fc_proc.py's find_pid: what fc_pid.sh says; else the first line of lsof, whatever
\* process that is; else, by name, any Firecracker.
FindPid(k) ==
  IF Nobody \notin Resolve(k) THEN Resolve(k)
  ELSE IF lsof THEN {Stranger}
  ELSE IF alive # {} THEN alive
  ELSE {Nobody}

Collect ==
  /\ Goto("collect", "before")
  /\ coll'  = "on"
  /\ watch' \in {w \in [Mine -> Ids \cup {Nobody, Stranger}] : \A k \in Mine : w[k] \in FindPid(k)}
  /\ until' = now + Before
  /\ UNCHANGED <<at, fleet, Invoking, tools, now, since>>

Asleep == pc \in {"before", "gap", "after"} /\ now < until
Busy   == pc = "barrier" /\ now < since + Slowest /\ \E k \in Mine : inv[k] = "running"

Tick ==
  /\ Asleep \/ Busy
  /\ now' = now + 1
  /\ UNCHANGED <<pc, at, fleet, Invoking, colls, until, since>>

Awake(s) == pc = s /\ now >= until

\* The next round, or the sleep after the last one.
NextRound ==
  /\ Awake("before") \/ Awake("gap")
  /\ IF round < Rounds
     THEN pc' = "fire"  /\ round' = round + 1 /\ UNCHANGED until
     ELSE pc' = "after" /\ until' = now + After /\ UNCHANGED round
  /\ UNCHANGED <<at, fleet, inv, rows, colls, now, since>>

Fire ==
  /\ Goto("fire", "barrier")
  /\ inv'   = [k \in Mine |-> "running"]
  /\ since' = now
  /\ UNCHANGED <<at, fleet, round, rows, colls, now, until>>

\* Mutant: `set -e` is in force, so a failing invocation ends without its row.
Finish_ErrExit(k) ==
  /\ inv[k] = "running"
  /\ inv'  = [inv EXCEPT ![k] = "done"]
  /\ rows' = IF k \in alive THEN [rows EXCEPT ![round][k] = @ + 1] ELSE rows
  /\ UNCHANGED <<pc, at, fleet, round, colls, Timing>>

\* invoke.sh returns, whatever came of it, and invoke_vm appends its row.
Finish(k) ==
  /\ inv[k] = "running"
  /\ inv'  = [inv EXCEPT ![k] = "done"]
  /\ rows' = [rows EXCEPT ![round][k] = @ + 1]
  /\ UNCHANGED <<pc, at, fleet, round, colls, Timing>>

\* Mutant: `wait -n`, which returns with the first.
RoundOver_First == \E k \in Mine : inv[k] = "done"

RoundOver == \A k \in Mine : inv[k] = "done"

Barrier ==
  /\ RoundOver
  /\ Goto("barrier", "gap")
  /\ until' = now + Delay
  /\ UNCHANGED <<at, fleet, Invoking, colls, now, since>>

(***************************************************************************)
(* The end.                                                                *)
(***************************************************************************)
\* Mutant: what has been launched and what has been found are both torn down.
AfterStop_KillAlways == "kill"

AfterStop == IF started THEN "kill" ELSE "done"

\* The collectors are signalled, and after a second killed.
Stop ==
  /\ Awake("after")
  /\ pc'   = AfterStop
  /\ coll' = "stopped"
  /\ UNCHANGED <<at, fleet, Invoking, watch, tools, Timing>>

\* kill_firecracker.sh; its failure is ignored.
KillFleet ==
  /\ Goto("kill", "kill_pids")
  /\ \E dead \in SUBSET alive :
       /\ alive'  = alive \ dead
       /\ killed' = killed \cup dead
  /\ sock' \in {{}, sock}
  /\ UNCHANGED <<at, started, pids, Invoking, colls, Timing>>

KillPids ==
  /\ Goto("kill_pids", "done")
  /\ LET found == {pids[k] : k \in Mine} IN
       /\ alive'  = alive \ found
       /\ killed' = killed \cup (alive \cap found)
  /\ UNCHANGED <<at, sock, started, pids, Invoking, colls, Timing>>

Script ==
  Check \/ AwaitSocket \/ Confirm \/ Collect \/ NextRound \/ Fire \/ Barrier \/ Stop
  \/ KillFleet \/ KillPids

Next ==
  \/ Script \/ Tick
  \/ \E k \in Mine : Boot(k) \/ Finish(k)
  \/ \E k \in Ids : VmCrash(k)

Spec == Init /\ [][Next]_vars

\* The shell runs its next command, time passes, and invoke.sh returns: curl has a
\* --max-time.
Fairness == WF_vars(Script) /\ WF_vars(Tick) /\ \A k \in Mine : WF_vars(Finish(k))

FairSpec == Spec /\ Fairness
=============================================================================
