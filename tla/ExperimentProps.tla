--------------------------- MODULE ExperimentProps ---------------------------
(***************************************************************************)
(* What an experiment owes the one who reads its traces (see Experiment).  *)
(***************************************************************************)
EXTENDS Experiment

\* Every variable has its type.
TypeOK ==
  /\ pc \in {"check", "sockets", "confirm", "collect", "before", "fire", "barrier", "gap",
             "after", "kill", "kill_pids", "done", "failed"}
  /\ at \in 0..NumVms
  /\ alive \subseteq Ids /\ sock \subseteq Ids /\ killed \subseteq Ids
  /\ started \in BOOLEAN
  /\ pids \in [Mine -> Ids \cup {Nobody}]
  /\ round \in 0..Rounds
  /\ inv \in [Mine -> {"idle", "running", "done"}]
  /\ rows \in [1..Rounds -> [Mine -> Nat]]
  /\ coll \in {"off", "on", "stopped"} /\ exact \in BOOLEAN /\ lsof \in BOOLEAN
  /\ watch \in [Mine -> Ids \cup {Nobody, Stranger}]
  /\ now \in Nat /\ until \in Nat /\ since \in Nat

\* No invocation of a round begins while one of the round before is still out: the
\* VMs of a round contend with each other and with nobody else.
RoundBarrier ==
  [][\A k \in Mine : inv'[k] = "running" /\ inv[k] # "running" =>
       \A j \in Mine : inv[j] # "running"]_vars

\* Between rounds invocations.csv has one row for each instance and round so far,
\* also for VMs that died and calls that failed.
RowsComplete ==
  pc \in {"gap", "after", "kill", "kill_pids", "done"} =>
    \A r \in 1..Rounds, k \in Mine : rows[r][k] = IF r <= round THEN 1 ELSE 0

\* "Collectors must outlast the whole experiment": as long as the estimate per
\* invocation holds, they still run when the samples after the last round are taken.
CollectorsOutlast == coll = "on" /\ Slowest <= Est => now <= TotalDuration

\* "If instances are already running it reuses them and leaves them up; if it launched
\* them itself it tears them down": no process it has found in its own fleet runs on,
\* whether kill_firecracker.sh worked or not, and it kills nothing in another's.
FleetAsFound ==
  /\ ~started => killed = {}
  /\ pc = "done" /\ started => \A k \in Mine : pids[k] \notin alive

\* "If it launched them itself it tears them down": where fuser or ss is installed, an
\* experiment that has launched its fleet and comes to its end leaves no Firecracker
\* behind, also when kill_firecracker.sh fails and nobody asks why, and when VMs that
\* crashed earlier have been given the process of another.
TornDown == pc = "done" /\ started /\ exact => alive = {}

\* The same as the docs have it, of an experiment that gives up as well.
LaunchedGoes == pc \in {"done", "failed"} /\ started /\ exact => alive = {}

\* "ml_features.csv" is among the files of an experiment: fc_ml_metrics.sh, which makes it
\* of its samples when its time is up, is not stopped before.
FeaturesWritten == [][coll = "on" /\ coll' = "stopped" => now >= TotalDuration]_vars

\* "Only safe when exactly one Firecracker is running": where fuser or ss is installed and
\* lsof is not, two instances are taken for one process only if that is the last
\* Firecracker there is; as long as two live, the collectors of neither are on the other.
SharedIsLast ==
  exact /\ ~lsof =>
    \A j, k \in Mine : j # k /\ pids[j] = pids[k] /\ pids[j] # Nobody => alive \subseteq {pids[j]}
=============================================================================
