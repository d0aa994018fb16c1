--------------------------- MODULE FleetAbstract ---------------------------
(***************************************************************************)
(* What a launch of a fleet promises its operator, without the files, TAPs *)
(* and commands it takes (Fleet has those and implements this): VMs are    *)
(* started only while the launch runs, none is started once it has begun   *)
(* to stop, and it is over only when none of its VMs is left.  It may give *)
(* up responsibility for a VM in two ways only: a signal that strikes it   *)
(* between a fork and the command after it, or its own violent death.      *)
(***************************************************************************)
EXTENDS Naturals

CONSTANTS Launches, MaxN

VARIABLES
  stage,  \* of each launch: "idle", "running", "stopping", "over" or "lost"
  ours    \* the VMs that live and that a launch is responsible for

vars == <<stage, ours>>

VMs == Launches \X (0..(MaxN - 1))

Init == stage = [l \in Launches |-> "idle"] /\ ours = {}

Become(l, next) == stage' = [stage EXCEPT ![l] = next]

OursOf(l) == {v \in ours : v[1] = l}

Begin(l)   == stage[l] = "idle" /\ Become(l, "running") /\ UNCHANGED ours

Refuse(l)  == stage[l] = "idle" /\ Become(l, "over") /\ UNCHANGED ours

StartVm(l) ==
  /\ stage[l] = "running"
  /\ \E v \in VMs \ ours : v[1] = l /\ ours' = ours \cup {v}
  /\ UNCHANGED stage

\* VMs end: killed by the launch or by somebody else, shut down, or crashed.
EndVms     == \E S \in SUBSET ours : ours' = ours \ S /\ UNCHANGED stage

\* At most one VM gets away, the one being started.
Stop(l) ==
  /\ stage[l] = "running" /\ Become(l, "stopping")
  /\ ours' = ours \/ \E v \in OursOf(l) : ours' = ours \ {v}

Finish(l)  ==
  /\ stage[l] = "stopping" /\ OursOf(l) = {}
  /\ Become(l, "over") /\ UNCHANGED ours

Die(l) ==
  /\ stage[l] \in {"idle", "running", "stopping"}
  /\ Become(l, "lost")
  /\ ours' = ours \ OursOf(l)

Next ==
  \/ EndVms
  \/ \E l \in Launches : Begin(l) \/ Refuse(l) \/ StartVm(l) \/ Stop(l) \/ Finish(l) \/ Die(l)

Spec == Init /\ [][Next]_vars
=============================================================================
