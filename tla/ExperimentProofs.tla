-------------------------- MODULE ExperimentProofs --------------------------
(***************************************************************************)
(* Proofs about Experiment, for any number of VMs and rounds and for all   *)
(* times: type correctness, the barrier between rounds, and the fate of    *)
(* the fleet, whether it was found or launched.                            *)
(***************************************************************************)
EXTENDS MCExperiment, FiniteSetTheorems, TLAPS

\* The steps after the collectors' start.
Measuring == {"before", "fire", "barrier", "gap", "after", "kill", "kill_pids", "done"}

\* What the step of the script says of the other variables.
Phases ==
  /\ pc = "check" => ~started
  /\ pc \in {"kill", "kill_pids"} => started
  /\ coll # "off" <=> pc \in Measuring
  /\ pc # "barrier" => \A k \in Mine : inv[k] # "running"

\* With fuser or ss, an instance that lives and has been looked for has been found.
Found ==
  exact => \A k \in Mine \cap alive :
    (pc = "confirm" /\ k < at) \/ pc = "collect" \/ pc \in Measuring => pids[k] = k

\* An experiment that launched its fleet, because there was no socket, has no VMs
\* but the ones it asked for.
OwnFleet ==
  /\ pc = "check" => alive \subseteq sock
  /\ started => alive \subseteq Mine

IInv == TypeOK /\ Phases /\ FleetAsFound /\ Found /\ OwnFleet /\ TornDown

----------------------------------------------------------------------------
LEMMA MineAreIds == Mine \subseteq Ids /\ Mine \subseteq Nat
BY NumVmsAssumption DEF Mine

\* The loops over the instances stay among them.
LEMMA AtIsMine ==
  ASSUME at \in 0..NumVms
  PROVE  /\ \A k \in Mine : ~(k < 0)
         /\ at < NumVms => at \in Mine
         /\ at = NumVms => \A k \in Mine : k < at
BY NumVmsAssumption DEF Mine

\* What fc_pid.sh and fc_proc.py answer is a process; with fuser or ss, of an instance
\* that lives, its own.
LEMMA ProcessAnswers ==
  ASSUME alive \subseteq Ids, NEW k \in Mine
  PROVE  /\ Resolve(k) \subseteq Ids \cup {Nobody}
         /\ FindPid(k) \subseteq Ids \cup {Nobody, Stranger}
         /\ exact /\ k \in alive => Resolve(k) = {k}
BY MineAreIds, IdsAssumption DEF Resolve, FindPid

\* The script's counters and clocks.
Counters ==
  /\ at \in 0..NumVms /\ round \in 0..Rounds
  /\ now \in Nat /\ until \in Nat /\ since \in Nat

\* Everything else.
Rest ==
  /\ pc \in {"check", "sockets", "confirm", "collect", "before", "fire", "barrier", "gap",
             "after", "kill", "kill_pids", "done", "failed"}
  /\ alive \subseteq Ids /\ sock \subseteq Ids /\ killed \subseteq Ids
  /\ started \in BOOLEAN
  /\ pids \in [Mine -> Ids \cup {Nobody}]
  /\ inv \in [Mine -> {"idle", "running", "done"}]
  /\ coll \in {"off", "on", "stopped"} /\ exact \in BOOLEAN /\ lsof \in BOOLEAN
  /\ watch \in [Mine -> Ids \cup {Nobody, Stranger}]

RowsType == rows \in [1..Rounds -> [Mine -> Nat]]

LEMMA TypeParts == TypeOK <=> Counters /\ Rest /\ RowsType
BY DEF TypeOK, Counters, Rest, RowsType

LEMMA InitIInv == ASSUME Init PROVE IInv
<1>1. Counters
  <2>1. NumVms \in Nat /\ Rounds \in Nat
    BY NumVmsAssumption, TimesAssumption
  <2> QED
    BY <2>1 DEF Init, Counters
<1>2. Rest
  BY DEF Init, Rest
<1>3. RowsType
  <2>1. [k \in Mine |-> 0] \in [Mine -> Nat]
    OBVIOUS
  <2> QED
    BY <2>1 DEF Init, RowsType
<1>4. Phases /\ FleetAsFound /\ Found /\ OwnFleet /\ TornDown
  BY DEF Init, Phases, FleetAsFound, Found, OwnFleet, TornDown, Measuring
<1> QED BY <1>1, <1>2, <1>3, <1>4, TypeParts DEF IInv

----------------------------------------------------------------------------
\* No loop index runs past the VMs, and no round past COUNT.
LEMMA CountersStep == ASSUME Counters, [Next]_vars PROVE Counters'
<1> USE DEF Counters, Timing, Invoking
<1>0. /\ NumVms \in Nat /\ Rounds \in Nat
      /\ Delay \in Nat /\ Before \in Nat /\ After \in Nat
  BY NumVmsAssumption, TimesAssumption
<1>1. CASE Check \/ Stop \/ KillFleet \/ KillPids \/ UNCHANGED vars
           \/ (\E k \in Mine : Boot(k) \/ Finish(k)) \/ (\E k \in Ids : VmCrash(k))
  <2>1. UNCHANGED <<at, round, now, until, since>>
    BY <1>1 DEF Check, Stop, KillFleet, KillPids, vars, Boot, Finish, VmCrash
  <2> QED
    BY <2>1
<1>2. CASE AwaitSocket \/ Confirm
  <2>1. /\ UNCHANGED <<round, now, until, since>>
        /\ (at < NumVms /\ at' = at + 1) \/ at' = 0 \/ at' = at
    BY <1>2 DEF AwaitSocket, Confirm
  <2> QED
    BY <1>0, <2>1
<1>3. CASE Collect
  BY <1>0, <1>3 DEF Collect
<1>4. CASE Tick
  BY <1>4 DEF Tick
<1>5. CASE NextRound
  <2>1. /\ UNCHANGED <<at, now, since>>
        /\ \/ round < Rounds /\ round' = round + 1 /\ until' = until
           \/ round' = round /\ until' = now + After
    BY <1>5 DEF NextRound
  <2> QED
    BY <1>0, <2>1
<1>6. CASE Fire
  BY <1>6 DEF Fire
<1>7. CASE Barrier
  BY <1>0, <1>7 DEF Barrier
<1> QED
  BY <1>1, <1>2, <1>3, <1>4, <1>5, <1>6, <1>7 DEF Next, Script

\* Only Finish writes a row.
LEMMA RowsStep == ASSUME RowsType, [Next]_vars PROVE RowsType'
<1>1. ASSUME NEW k \in Mine, Finish(k) PROVE RowsType'
  <2>1. rows' = [rows EXCEPT ![round] = [rows[round] EXCEPT ![k] = rows[round][k] + 1]]
    BY <1>1 DEF Finish
  <2>2. CASE round \in 1..Rounds
    <3>1. rows[round] \in [Mine -> Nat]
      BY <2>2 DEF RowsType
    <3>2. rows[round][k] + 1 \in Nat
      BY <3>1
    <3>3. [rows[round] EXCEPT ![k] = rows[round][k] + 1] \in [Mine -> Nat]
      BY <3>1, <3>2
    <3> HIDE DEF RowsType
    <3> QED
      BY <2>1, <3>3 DEF RowsType
  <2>3. CASE round \notin 1..Rounds
    BY <2>1, <2>3 DEF RowsType
  <2> QED
    BY <2>2, <2>3
<1>2. CASE ~\E k \in Mine : Finish(k)
  <2>1. rows' = rows
    BY <1>2 DEF Next, Script, Check, AwaitSocket, Confirm, Collect, NextRound, Fire, Barrier,
         Stop, KillFleet, KillPids, Tick, Boot, VmCrash, Invoking, vars
  <2> QED
    BY <2>1 DEF RowsType
<1> QED
  BY <1>1, <1>2

LEMMA RestStep == ASSUME Counters, Rest, [Next]_vars PROVE Rest'
<1> USE DEF Rest, Timing, Invoking, fleet, colls, tools, Goto, Awake
<1>1. CASE Check
  BY <1>1 DEF Check
<1>2. CASE AwaitSocket
  BY <1>2 DEF AwaitSocket
<1>3. CASE Confirm
  <2>1. CASE UNCHANGED pids
    BY <1>3, <2>1 DEF Confirm
  <2>2. CASE /\ at < NumVms
             /\ \E p \in Resolve(at) \ {Nobody} : pids' = [pids EXCEPT ![at] = p]
             /\ at' = at + 1 /\ UNCHANGED pc
    <3>1. at \in Mine
      BY <2>2, AtIsMine DEF Counters
    <3>2. pids' \in [Mine -> Ids \cup {Nobody}]
      BY <2>2, <3>1, ProcessAnswers
    <3> QED
      BY <1>3, <2>2, <3>2 DEF Confirm
  <2> QED
    BY <1>3, <2>1, <2>2 DEF Confirm
<1>4. CASE Collect
  BY <1>4 DEF Collect
<1>5. CASE NextRound
  BY <1>5 DEF NextRound
<1>6. CASE Fire
  BY <1>6 DEF Fire
<1>7. CASE Barrier
  BY <1>7 DEF Barrier
<1>8. CASE Stop
  BY <1>8 DEF Stop, AfterStop
<1>9. CASE KillFleet
  BY <1>9 DEF KillFleet
<1>10. CASE KillPids
  BY <1>10 DEF KillPids
<1>11. CASE Tick
  BY <1>11 DEF Tick
<1>12. ASSUME NEW k \in Mine, Boot(k) PROVE Rest'
  BY <1>12, MineAreIds DEF Boot
<1>13. ASSUME NEW k \in Mine, Finish(k) PROVE Rest'
  BY <1>13 DEF Finish
<1>14. ASSUME NEW k \in Ids, VmCrash(k) PROVE Rest'
  BY <1>14 DEF VmCrash
<1>15. CASE UNCHANGED vars
  BY <1>15 DEF vars
<1> QED
  BY <1>1, <1>2, <1>3, <1>4, <1>5, <1>6, <1>7, <1>8, <1>9, <1>10, <1>11, <1>12, <1>13,
     <1>14, <1>15 DEF Next, Script

LEMMA TypeStep == ASSUME TypeOK, [Next]_vars PROVE TypeOK'
<1>1. Counters /\ Rest /\ RowsType
  BY TypeParts
<1>2. Counters' /\ Rest' /\ RowsType'
  BY <1>1, CountersStep, RestStep, RowsStep
<1> QED
  BY <1>2 DEF TypeOK, Counters, Rest, RowsType

\* Only Fire starts invocations, and only after the barrier; only an experiment that
\* launched its fleet comes to the kills.
LEMMA PhasesStep == ASSUME TypeOK, Phases, [Next]_vars PROVE Phases'
<1> USE DEF Phases, Measuring, Timing, Invoking, fleet, colls, tools, Goto, Awake
<1>1. CASE Check
  BY <1>1 DEF Check
<1>2. CASE AwaitSocket
  BY <1>2 DEF AwaitSocket
<1>3. CASE Confirm
  BY <1>3 DEF Confirm
<1>4. CASE Collect
  BY <1>4 DEF Collect
<1>5. CASE NextRound
  BY <1>5 DEF NextRound
<1>6. CASE Fire
  BY <1>6 DEF Fire
<1>7. CASE Barrier
  BY <1>7 DEF Barrier, RoundOver
<1>8. CASE Stop
  BY <1>8 DEF Stop, AfterStop
<1>9. CASE KillFleet
  BY <1>9 DEF KillFleet
<1>10. CASE KillPids
  BY <1>10 DEF KillPids
<1>11. CASE Tick
  BY <1>11 DEF Tick
<1>12. ASSUME NEW k \in Mine, Boot(k) PROVE Phases'
  BY <1>12 DEF Boot
<1>13. ASSUME NEW k \in Mine, Finish(k) PROVE Phases'
  BY <1>13 DEF Finish, TypeOK
<1>14. ASSUME NEW k \in Ids, VmCrash(k) PROVE Phases'
  BY <1>14 DEF VmCrash
<1>15. CASE UNCHANGED vars
  BY <1>15 DEF vars
<1> QED
  BY <1>1, <1>2, <1>3, <1>4, <1>5, <1>6, <1>7, <1>8, <1>9, <1>10, <1>11, <1>12, <1>13,
     <1>14, <1>15 DEF Next, Script

LEMMA FleetStep ==
  ASSUME TypeOK, Phases, FleetAsFound, [Next]_vars PROVE FleetAsFound'
<1> USE DEF Phases, FleetAsFound, Timing, Invoking, fleet, colls, tools, Goto, Awake
<1>1. CASE Check
  BY <1>1 DEF Check
<1>2. CASE KillFleet
  BY <1>2 DEF KillFleet
<1>3. CASE KillPids
  <2>1. \A k \in Mine : pids[k] \notin alive'
    BY <1>3 DEF KillPids
  <2> QED
    BY <1>3, <2>1 DEF KillPids
<1>4. CASE Stop
  BY <1>4 DEF Stop, AfterStop
<1>5. ASSUME NEW k \in Mine, Boot(k) PROVE FleetAsFound'
  BY <1>5 DEF Boot
<1>6. ASSUME NEW k \in Ids, VmCrash(k) PROVE FleetAsFound'
  BY <1>6 DEF VmCrash
<1>7. CASE Confirm
  BY <1>7 DEF Confirm
<1>8. CASE AwaitSocket \/ Collect \/ NextRound \/ Fire \/ Barrier \/ Tick
           \/ (\E k \in Mine : Finish(k)) \/ UNCHANGED vars
  <2>1. UNCHANGED fleet /\ (pc' = "done" => pc = "done")
    BY <1>8 DEF AwaitSocket, Collect, NextRound, Fire, Barrier, Tick, Finish, vars
  <2> QED
    BY <2>1
<1> QED
  BY <1>1, <1>2, <1>3, <1>4, <1>5, <1>6, <1>7, <1>8 DEF Next, Script

\* With fuser or ss the process found for an instance that still lives is its own: it
\* lived when it was looked for, since no VM comes up once the sockets are there.
LEMMA FoundStep == ASSUME TypeOK, Phases, Found, [Next]_vars PROVE Found'
<1> USE DEF Phases, Found, Measuring, Timing, Invoking, fleet, colls, tools, Goto, Awake
<1>1. CASE Check
  BY <1>1 DEF Check
<1>2. CASE AwaitSocket
  <2>1. /\ pc = "sockets" /\ pc' \in {"sockets", "confirm", "failed"}
        /\ pc' = "confirm" => at' = 0
        /\ UNCHANGED <<fleet, colls>>
    BY <1>2 DEF AwaitSocket
  <2>2. \A k \in Mine : ~(k < 0)
    BY AtIsMine DEF TypeOK
  <2> QED
    BY <2>1, <2>2
<1>3. CASE Confirm
  <2> SUFFICES ASSUME exact, NEW k \in Mine, k \in alive,
                      (pc' = "confirm" /\ k < at') \/ pc' = "collect"
               PROVE  pids'[k] = k
    BY <1>3 DEF Confirm
  <2>1. CASE /\ at < NumVms
             /\ \E p \in Resolve(at) \ {Nobody} : pids' = [pids EXCEPT ![at] = p]
             /\ at' = at + 1 /\ UNCHANGED pc
    <3>1. at \in Mine
      BY <2>1, AtIsMine DEF TypeOK
    <3>2. CASE k = at
      <4>1. Resolve(at) = {k}
        BY <3>1, <3>2, ProcessAnswers DEF TypeOK
      <4> QED
        BY <2>1, <3>1, <3>2, <4>1 DEF TypeOK
    <3>3. CASE k # at
      <4>1. k < at
        BY <1>3, <2>1, <3>3, <3>1, MineAreIds DEF Confirm
      <4>2. pids[k] = k
        BY <1>3, <4>1 DEF Confirm
      <4> QED
        BY <2>1, <3>3, <4>2 DEF TypeOK
    <3> QED
      BY <3>2, <3>3
  <2>2. CASE at < NumVms /\ pc' = "failed"
    BY <2>2
  <2>3. CASE at = NumVms /\ UNCHANGED <<pids, at>>
    <3>1. k < at
      BY <2>3, AtIsMine DEF TypeOK
    <3> QED
      BY <1>3, <2>3, <3>1 DEF Confirm
  <2> QED
    BY <1>3, <2>1, <2>2, <2>3 DEF Confirm
<1>4. CASE Collect
  BY <1>4 DEF Collect
<1>5. CASE NextRound \/ Fire \/ Barrier \/ Tick \/ (\E k \in Mine : Finish(k)) \/ UNCHANGED vars
  <2>1. UNCHANGED <<fleet, colls, at>> /\ (pc' = pc \/ (pc \in Measuring /\ pc' \in Measuring))
    BY <1>5 DEF NextRound, Fire, Barrier, Tick, Finish, vars
  <2> QED
    BY <2>1
<1>6. CASE Stop
  <2>1. Awake("after") /\ UNCHANGED <<fleet, tools, at>>
    BY <1>6 DEF Stop
  <2>2. pc \in Measuring /\ pc' \in Measuring
    BY <1>6 DEF Stop, AfterStop
  <2> QED
    BY <2>1, <2>2
<1>7. CASE KillFleet
  BY <1>7 DEF KillFleet
<1>8. CASE KillPids
  BY <1>8 DEF KillPids
<1>9. ASSUME NEW k \in Mine, Boot(k) PROVE Found'
  BY <1>9 DEF Boot
<1>10. ASSUME NEW k \in Ids, VmCrash(k) PROVE Found'
  BY <1>10 DEF VmCrash
<1> QED
  BY <1>1, <1>2, <1>3, <1>4, <1>5, <1>6, <1>7, <1>8, <1>9, <1>10 DEF Next, Script

LEMMA OwnFleetStep == ASSUME Phases, OwnFleet, [Next]_vars PROVE OwnFleet'
<1> USE DEF Phases, OwnFleet, Timing, Invoking, fleet, colls, Goto, Awake
<1>1. CASE Check
  BY <1>1 DEF Check
<1>2. ASSUME NEW k \in Mine, Boot(k) PROVE OwnFleet'
  BY <1>2 DEF Boot
<1>3. ASSUME NEW k \in Ids, VmCrash(k) PROVE OwnFleet'
  BY <1>3 DEF VmCrash
<1>4. CASE KillFleet \/ KillPids
  <2>1. alive' \subseteq alive /\ started' = started /\ pc' # "check"
    BY <1>4 DEF KillFleet, KillPids
  <2> QED BY <2>1
<1>5. CASE \/ AwaitSocket \/ Confirm \/ Collect \/ NextRound \/ Fire \/ Barrier \/ Stop
           \/ Tick \/ (\E k \in Mine : Finish(k)) \/ UNCHANGED vars
  <2>1. UNCHANGED <<alive, sock, started>> /\ (pc' = "check" => pc = "check")
    BY <1>5 DEF AwaitSocket, Confirm, Collect, NextRound, Fire, Barrier, Stop, AfterStop, Tick,
         Finish, vars
  <2> QED BY <2>1
<1> QED
  BY <1>1, <1>2, <1>3, <1>4, <1>5 DEF Next, Script

\* The last command of the teardown kills what was found, and that is the whole fleet.
LEMMA TornDownStep ==
  ASSUME Phases, Found, OwnFleet, TornDown, [Next]_vars PROVE TornDown'
<1> USE DEF TornDown, Timing, Invoking, fleet, colls, tools, Goto, Awake
<1>1. CASE KillPids
  <2> SUFFICES ASSUME started, exact PROVE alive' = {}
    BY <1>1 DEF KillPids
  <2>1. \A k \in Mine \cap alive : pids[k] = k
    BY <1>1 DEF KillPids, Found, Measuring
  <2>2. alive \subseteq {pids[k] : k \in Mine}
    BY <2>1 DEF OwnFleet
  <2> QED BY <1>1, <2>2 DEF KillPids
<1>2. ASSUME NEW k \in Ids, VmCrash(k) PROVE TornDown'
  BY <1>2 DEF VmCrash
<1>3. ASSUME NEW k \in Mine, Boot(k) PROVE TornDown'
  BY <1>3 DEF Boot
<1>4. CASE Stop
  BY <1>4 DEF Stop, AfterStop
<1>5. CASE KillFleet
  BY <1>5 DEF KillFleet
<1>6. CASE \/ Check \/ AwaitSocket \/ Confirm \/ Collect \/ NextRound \/ Fire \/ Barrier
           \/ Tick \/ (\E k \in Mine : Finish(k)) \/ UNCHANGED vars
  <2>1. /\ UNCHANGED <<alive, exact>> /\ (pc' = "done" => pc = "done")
        /\ pc = "check" \/ UNCHANGED started
    BY <1>6 DEF Check, AwaitSocket, Confirm, Collect, NextRound, Fire, Barrier, Tick, Finish, vars
  <2> QED BY <2>1
<1> QED
  BY <1>1, <1>2, <1>3, <1>4, <1>5, <1>6 DEF Next, Script

LEMMA Invariance == Spec => []IInv
<1>1. IInv /\ [Next]_vars => IInv'
  BY TypeStep, PhasesStep, FleetStep, FoundStep, OwnFleetStep, TornDownStep DEF IInv
<1> QED
  BY <1>1, InitIInv, PTL DEF Spec

----------------------------------------------------------------------------
\* Every variable has its type; in particular no round beyond COUNT is begun.
THEOREM TypeCorrect == Spec => []TypeOK
<1>1. IInv => TypeOK
  BY DEF IInv
<1> QED BY <1>1, Invariance, PTL

\* fc_experiment.sh's rounds never overlap: `wait` after each is a barrier.
THEOREM Rounded == Spec => RoundBarrier
<1>1. ASSUME IInv, [Next]_vars, NEW k \in Mine, inv'[k] = "running", inv[k] # "running"
      PROVE  \A j \in Mine : inv[j] # "running"
  <2>1. CASE Fire
    BY <1>1, <2>1 DEF Fire, Goto, IInv, Phases
  <2>2. ASSUME NEW j \in Mine, Finish(j) PROVE FALSE
    BY <1>1, <2>2 DEF Finish, IInv, TypeOK
  <2>3. CASE ~Fire /\ ~\E j \in Mine : Finish(j)
    <3>1. inv' = inv
      BY <1>1, <2>3 DEF Next, Script, Check, AwaitSocket, Confirm, Collect, NextRound,
           Barrier, Stop, KillFleet, KillPids, Tick, Boot, VmCrash, Invoking, vars
    <3> QED
      BY <1>1, <3>1
  <2> QED
    BY <2>1, <2>2, <2>3
<1>2. IInv /\ [Next]_vars =>
        [\A k \in Mine : inv'[k] = "running" /\ inv[k] # "running" =>
           \A j \in Mine : inv[j] # "running"]_vars
  BY <1>1
<1> QED BY <1>2, Invariance, PTL DEF Spec, RoundBarrier

\* A fleet that was running is left up, and one it launched is torn down.
THEOREM LeftAsFound == Spec => []FleetAsFound
<1>1. IInv => FleetAsFound
  BY DEF IInv
<1> QED BY <1>1, Invariance, PTL

\* A fleet the experiment launched itself is gone when it is done, whatever
\* kill_firecracker.sh did and however many VMs crashed before or after they were looked
\* for.
THEOREM Teardown == Spec => []TornDown
<1>1. IInv => TornDown
  BY DEF IInv
<1> QED BY <1>1, Invariance, PTL

----------------------------------------------------------------------------
\* With fuser or ss and without lsof, an instance has been given the process of another
\* only when that was the last Firecracker there was, and none comes up after that.
Given ==
  exact /\ ~lsof =>
    /\ pc \in {"check", "sockets"} => \A k \in Mine : pids[k] = Nobody
    /\ \A k \in Mine : pids[k] \notin {k, Nobody} => alive \subseteq {pids[k]}

LEMMA GivenStep == ASSUME TypeOK, Given, [Next]_vars PROVE Given'
<1> USE DEF Given, Timing, Invoking, fleet, colls, tools, Goto, Awake
<1>1. CASE Confirm
  <2>1. CASE UNCHANGED pids
    BY <1>1, <2>1 DEF Confirm
  <2>2. ASSUME at < NumVms, NEW p \in Resolve(at) \ {Nobody}, pids' = [pids EXCEPT ![at] = p],
               pc' = "confirm", UNCHANGED <<alive, tools>>
        PROVE  Given'
    <3> SUFFICES ASSUME exact, ~lsof, NEW k \in Mine, pids'[k] \notin {k, Nobody}
                 PROVE  alive \subseteq {pids'[k]}
      BY <2>2
    <3>1. at \in Mine /\ pids \in [Mine -> Ids \cup {Nobody}]
      BY <2>2, AtIsMine DEF TypeOK
    <3>2. CASE k # at
      BY <2>2, <3>1, <3>2
    <3>3. CASE k = at
      <4>1. pids'[k] = p /\ p # k
        BY <2>2, <3>1, <3>3
      <4>2. p \in alive /\ Cardinality(alive) = 1
        BY <3>3, <4>1 DEF Resolve
      <4>3. IsFiniteSet(alive)
        BY IdsAssumption, FS_Subset DEF TypeOK
      <4>4. \E x : alive = {x}
        BY <4>2, <4>3, FS_Singleton
      <4> QED BY <4>1, <4>2, <4>4
    <3> QED BY <3>2, <3>3
  <2>3. \/ UNCHANGED pids
        \/ /\ at < NumVms /\ pc' = "confirm" /\ UNCHANGED <<alive, tools>>
           /\ \E p \in Resolve(at) \ {Nobody} : pids' = [pids EXCEPT ![at] = p]
    BY <1>1 DEF Confirm
  <2> QED BY <2>1, <2>2, <2>3
<1>2. ASSUME NEW k \in Mine, Boot(k) PROVE Given'
  BY <1>2 DEF Boot
<1>3. ASSUME NEW k \in Ids, VmCrash(k) PROVE Given'
  BY <1>3 DEF VmCrash
<1>4. CASE ~Confirm /\ ~(\E k \in Mine : Boot(k)) /\ ~(\E k \in Ids : VmCrash(k))
  <2>1. /\ UNCHANGED <<pids, exact, lsof>> /\ alive' \subseteq alive
        /\ pc' \in {"check", "sockets"} => pc \in {"check", "sockets"}
    BY <1>4 DEF Next, Script, Check, AwaitSocket, Collect, NextRound, Fire, Barrier, Stop,
         AfterStop, KillFleet, KillPids, Tick, Finish, vars
  <2> QED BY <2>1
<1> QED
  BY <1>1, <1>2, <1>3, <1>4

\* "Only safe when exactly one Firecracker is running": on a host with fuser or ss and
\* without lsof, for any number of VMs and whenever they crash, two instances are taken
\* for one process only if no second Firecracker lives.
THEOREM Shared == Spec => []SharedIsLast
<1>1. Init => Given
  BY DEF Init, Given
<1>2. IInv /\ Given /\ [Next]_vars => Given'
  BY GivenStep DEF IInv
<1>3. Given => SharedIsLast
  BY DEF Given, SharedIsLast
<1> QED BY <1>1, <1>2, <1>3, Invariance, PTL DEF Spec

----------------------------------------------------------------------------
\* The script's numbers are naturals.
LEMMA Numbers ==
  ASSUME TypeOK
  PROVE  /\ round \in Nat /\ round <= Rounds
         /\ now \in Nat /\ until \in Nat /\ since \in Nat
         /\ Rounds \in Nat /\ Est \in Nat /\ Delay \in Nat /\ Slowest \in Nat
         /\ Before \in Nat /\ After \in Nat /\ Margin \in Nat
<1>1. Counters
  BY TypeParts
<1> QED BY <1>1, TimesAssumption DEF Counters

\* The rows written so far: those of the rounds before, and those of the invocations of
\* this round that have returned.
Rowed(r, k) ==
  r < round \/ (r = round /\ pc # "fire" /\ (pc = "barrier" => inv[k] = "done"))

RowsSoFar ==
  \A r \in 1..Rounds, k \in Mine : rows[r][k] = IF Rowed(r, k) THEN 1 ELSE 0

\* Away from the rounds the script's position does not matter to the rows.
LEMMA RowsElsewhere ==
  ASSUME RowsSoFar, rows' = rows, round' = round,
         pc \notin {"fire", "barrier"} \/ (pc' = pc /\ inv' = inv),
         pc' \notin {"fire", "barrier"} \/ (pc' = pc /\ inv' = inv)
  PROVE  RowsSoFar'
<1>1. \A r \in 1..Rounds, k \in Mine : Rowed(r, k)' <=> Rowed(r, k)
  BY DEF Rowed
<1> QED BY <1>1 DEF RowsSoFar

LEMMA RowsSoFarStep == ASSUME TypeOK, Phases, RowsSoFar, [Next]_vars PROVE RowsSoFar'
<1>0. round \in Nat
  BY Numbers
<1>1. ASSUME NEW j \in Mine, Finish(j) PROVE RowsSoFar'
  <2>1. /\ inv' = [inv EXCEPT ![j] = "done"] /\ inv[j] = "running"
        /\ rows' = [rows EXCEPT ![round] = [rows[round] EXCEPT ![j] = rows[round][j] + 1]]
        /\ pc' = pc /\ round' = round
    BY <1>1 DEF Finish
  <2>2. pc = "barrier"
    BY <2>1 DEF Phases
  <2> SUFFICES ASSUME NEW r \in 1..Rounds, NEW k \in Mine
               PROVE  rows'[r][k] = IF Rowed(r, k)' THEN 1 ELSE 0
    BY DEF RowsSoFar, Rowed
  <2>3. rows[r][k] = IF Rowed(r, k) THEN 1 ELSE 0
    BY DEF RowsSoFar
  <2>4. rows \in [1..Rounds -> [Mine -> Nat]] /\ rows[r] \in [Mine -> Nat]
    BY DEF TypeOK
  <2>5. CASE r = round /\ k = j
    <3>1. ~Rowed(r, k) /\ Rowed(r, k)'
      BY <1>0, <2>1, <2>2, <2>5 DEF Rowed, TypeOK
    <3>2. rows'[r][k] = rows[r][k] + 1
      BY <2>1, <2>4, <2>5
    <3> QED BY <2>3, <3>1, <3>2
  <2>6. CASE ~(r = round /\ k = j)
    <3>1. Rowed(r, k)' <=> Rowed(r, k)
      BY <2>1, <2>6 DEF Rowed, TypeOK
    <3>2. rows'[r][k] = rows[r][k]
      BY <2>1, <2>4, <2>6
    <3> QED BY <2>3, <3>1, <3>2
  <2> QED BY <2>5, <2>6
<1>2. CASE NextRound
  <2>1. /\ rows' = rows /\ pc \in {"before", "gap"}
        /\ \/ round' = round + 1 /\ pc' = "fire"
           \/ round' = round /\ pc' = "after"
    BY <1>2 DEF NextRound, Awake
  <2>2. \A r \in 1..Rounds, k \in Mine : Rowed(r, k)' <=> Rowed(r, k)
    BY <1>0, <2>1 DEF Rowed
  <2> QED BY <2>1, <2>2 DEF RowsSoFar
<1>3. CASE Fire
  <2>1. /\ rows' = rows /\ round' = round /\ pc = "fire" /\ pc' = "barrier"
        /\ \A k \in Mine : inv'[k] # "done"
    BY <1>3 DEF Fire, Goto
  <2>2. \A r \in 1..Rounds, k \in Mine : Rowed(r, k)' <=> Rowed(r, k)
    BY <1>0, <2>1 DEF Rowed
  <2> QED BY <2>1, <2>2 DEF RowsSoFar
<1>4. CASE Barrier
  <2>1. /\ rows' = rows /\ round' = round /\ pc = "barrier" /\ pc' = "gap"
        /\ \A k \in Mine : inv[k] = "done"
    BY <1>4 DEF Barrier, Goto, RoundOver, Invoking
  <2>2. \A r \in 1..Rounds, k \in Mine : Rowed(r, k)' <=> Rowed(r, k)
    BY <1>0, <2>1 DEF Rowed
  <2> QED BY <2>1, <2>2 DEF RowsSoFar
<1>5. CASE \/ Check \/ AwaitSocket \/ Confirm \/ Collect \/ Stop \/ KillFleet \/ KillPids
           \/ Tick \/ (\E k \in Mine : Boot(k)) \/ (\E k \in Ids : VmCrash(k))
           \/ UNCHANGED vars
  <2>1. /\ rows' = rows /\ round' = round /\ inv' = inv
        /\ pc' = pc \/ (pc \notin {"fire", "barrier"} /\ pc' \notin {"fire", "barrier"})
    BY <1>5 DEF Check, AwaitSocket, Confirm, Collect, Stop, AfterStop, Awake, KillFleet,
         KillPids, Tick, Boot, VmCrash, Goto, Invoking, vars
  <2> QED BY <2>1, RowsElsewhere
<1> QED
  BY <1>1, <1>2, <1>3, <1>4, <1>5 DEF Next, Script

\* invocations.csv is complete at the end of each round: one row, and only one, for every
\* instance and round, for any number of VMs and rounds.
THEOREM Rows == Spec => []RowsComplete
<1>1. Init => RowsSoFar
  BY DEF Init, RowsSoFar, Rowed
<1>2. IInv /\ RowsSoFar /\ [Next]_vars => RowsSoFar'
  BY RowsSoFarStep DEF IInv
<1>3. IInv /\ RowsSoFar => RowsComplete
  <2> SUFFICES ASSUME IInv, RowsSoFar, NEW r \in 1..Rounds, NEW k \in Mine,
                      pc \in {"gap", "after", "kill", "kill_pids", "done"}
               PROVE  rows[r][k] = IF r <= round THEN 1 ELSE 0
    BY DEF RowsComplete
  <2>1. round \in Nat /\ Rounds \in Nat
    BY Numbers DEF IInv
  <2>2. Rowed(r, k) <=> r <= round
    BY <2>1 DEF Rowed
  <2> QED BY <2>2 DEF RowsSoFar
<1> QED BY <1>1, <1>2, <1>3, Invariance, PTL DEF Spec

----------------------------------------------------------------------------
\* When the sleep after round r is over at the latest.
By(r) == Before + r * (Est + Delay)

LEMMA ByGrows ==
  ASSUME NEW r \in Nat
  PROVE  /\ By(r) \in Nat /\ Before <= By(r)
         /\ By(r + 1) = By(r) + Est + Delay
         /\ \A s \in Nat : r <= s => By(r) <= By(s)
<1> DEFINE P == Est + Delay
<1>1. P \in Nat /\ Before \in Nat /\ Est \in Nat /\ Delay \in Nat
  BY TimesAssumption
<1>2. \A a, b \in Nat : a * b \in Nat
  OBVIOUS
<1>3. (r + 1) * P = r * P + P
  BY <1>1
<1>4. ASSUME NEW s \in Nat, r <= s PROVE r * P <= s * P
  <2>1. s = r + (s - r) /\ s - r \in Nat
    BY <1>4
  <2>2. (r + (s - r)) * P = r * P + (s - r) * P
    BY <1>1
  <2>3. (s - r) * P \in Nat /\ r * P \in Nat
    BY <1>1, <1>2, <2>1
  <2> HIDE DEF P
  <2> QED BY <2>1, <2>2, <2>3
<1>5. r * P \in Nat
  BY <1>1, <1>2
<1>6. \A s \in Nat : By(s) = Before + s * P
  BY DEF By
<1>7. \A s \in Nat : s * P \in Nat
  BY <1>1, <1>2
<1>8. By(r) = Before + r * P /\ By(r + 1) = Before + (r + 1) * P
  BY <1>6
<1>9. P = Est + Delay
  OBVIOUS
<1> HIDE DEF P
<1>10. \A s \in Nat : r <= s => By(r) <= By(s)
  BY <1>1, <1>4, <1>5, <1>6, <1>7
<1> QED BY <1>1, <1>3, <1>5, <1>8, <1>9, <1>10

\* As long as no invocation takes longer than estimated, each phase is over in its time.
OnTime ==
  /\ pc \notin Measuring => now = 0
  /\ pc \in {"before", "gap"} => now <= until /\ until <= By(round)
  /\ pc = "fire"    => now + Est + Delay <= By(round)
  /\ pc = "barrier" => since + Est + Delay <= By(round) /\ now <= since + Slowest
  /\ pc = "after"   => now <= until /\ until <= By(Rounds) + After
  /\ pc \in {"kill", "kill_pids", "done"} => coll = "stopped"

LEMMA OnTimeStep ==
  ASSUME Slowest <= Est, TypeOK, Phases, OnTime, [Next]_vars
  PROVE  OnTime'
<1> USE DEF OnTime, Measuring, Timing, Invoking, colls, tools, Goto, Awake
<1>0. /\ round \in Nat /\ round <= Rounds /\ now \in Nat /\ until \in Nat /\ since \in Nat
      /\ Rounds \in Nat /\ Est \in Nat /\ Delay \in Nat /\ Slowest \in Nat
      /\ Before \in Nat /\ After \in Nat
  BY Numbers
<1>1. /\ By(round) \in Nat /\ By(Rounds) \in Nat
      /\ Before <= By(round) /\ By(round) <= By(Rounds)
      /\ By(round + 1) = By(round) + Est + Delay
  BY <1>0, ByGrows
<1>2. CASE Tick
  <2>1. Asleep => now + 1 <= until
    BY <1>0 DEF Asleep
  <2>2. Busy => now + 1 <= since + Slowest /\ pc = "barrier"
    BY <1>0 DEF Busy
  <2>3. UNCHANGED <<pc, round, coll, until, since>> /\ now' = now + 1 /\ (Asleep \/ Busy)
    BY <1>2 DEF Tick
  <2>4. CASE Asleep
    BY <1>0, <2>1, <2>3, <2>4 DEF Asleep, By
  <2>5. CASE Busy
    BY <1>0, <2>2, <2>3, <2>5 DEF By
  <2> QED BY <2>3, <2>4, <2>5
<1>3. CASE Collect
  <2>1. /\ pc = "collect" /\ pc' = "before" /\ until' = now + Before
        /\ UNCHANGED <<round, now, since>>
    BY <1>3 DEF Collect
  <2>2. By(round)' = By(round)
    BY <2>1 DEF By
  <2> QED BY <1>0, <1>1, <2>1, <2>2
<1>4. CASE NextRound
  <2>1. pc \in {"before", "gap"} /\ UNCHANGED <<coll, now, since>>
    BY <1>4 DEF NextRound
  <2>2. now <= By(round)
    BY <1>0, <1>1, <2>1
  <2>3. CASE pc' = "fire" /\ round' = round + 1
    <3>1. By(round)' = By(round + 1)
      BY <2>3 DEF By
    <3> QED BY <1>0, <1>1, <2>1, <2>2, <2>3, <3>1
  <2>4. CASE pc' = "after" /\ until' = now + After
    <3>1. By(Rounds)' = By(Rounds)
      BY DEF By
    <3> QED BY <1>0, <1>1, <2>1, <2>2, <2>4, <3>1
  <2> QED BY <1>4, <2>3, <2>4 DEF NextRound
<1>5. CASE Fire
  <2>1. /\ pc = "fire" /\ pc' = "barrier" /\ since' = now /\ UNCHANGED <<round, now>>
    BY <1>5 DEF Fire
  <2>2. By(round)' = By(round)
    BY <2>1 DEF By
  <2> QED BY <1>0, <1>1, <2>1, <2>2
<1>6. CASE Barrier
  <2>1. /\ pc = "barrier" /\ pc' = "gap" /\ until' = now + Delay /\ UNCHANGED <<round, now>>
    BY <1>6 DEF Barrier
  <2>2. By(round)' = By(round)
    BY <2>1 DEF By
  <2> QED BY <1>0, <1>1, <2>1, <2>2
<1>7. CASE Stop
  BY <1>7 DEF Stop, AfterStop
<1>8. CASE KillFleet \/ KillPids
  BY <1>8 DEF KillFleet, KillPids
<1>9. CASE Check \/ AwaitSocket \/ Confirm
  <2>1. /\ pc \in {"check", "sockets", "confirm"} /\ now' = now
        /\ pc' \in {"check", "sockets", "confirm", "collect", "failed"}
    BY <1>9 DEF Check, AwaitSocket, Confirm
  <2> QED BY <2>1
<1>10. CASE \/ \E k \in Mine : Boot(k) \/ Finish(k)
            \/ \E k \in Ids : VmCrash(k)
            \/ UNCHANGED vars
  <2>1. UNCHANGED <<pc, round, coll, now, until, since>>
    BY <1>10 DEF Boot, Finish, VmCrash, vars
  <2>2. By(round)' = By(round) /\ By(Rounds)' = By(Rounds)
    BY <2>1 DEF By
  <2> QED BY <2>1, <2>2
<1> QED
  BY <1>2, <1>3, <1>4, <1>5, <1>6, <1>7, <1>8, <1>9, <1>10 DEF Next, Script

\* The collectors outlast the experiment for all rounds and times: what TOTAL_DURATION
\* has to spare covers the two sleeps, and each round stays within its estimate.
THEOREM Outlast == Spec => []CollectorsOutlast
<1>1. CASE Slowest <= Est
  <2>1. Init => OnTime
    BY DEF Init, OnTime, Measuring
  <2>2. IInv /\ OnTime /\ [Next]_vars => OnTime'
    BY <1>1, OnTimeStep DEF IInv
  <2>3. IInv /\ OnTime => CollectorsOutlast
    <3> SUFFICES ASSUME IInv, OnTime, coll = "on" PROVE now <= TotalDuration
      BY DEF CollectorsOutlast
    <3>1. /\ round \in Nat /\ round <= Rounds /\ now \in Nat /\ until \in Nat /\ since \in Nat
          /\ Rounds \in Nat /\ Est \in Nat /\ Delay \in Nat /\ Slowest \in Nat
          /\ Before \in Nat /\ After \in Nat /\ Margin \in Nat
      BY Numbers DEF IInv
    <3>2. By(round) <= By(Rounds) /\ By(round) \in Nat /\ By(Rounds) \in Nat
      BY <3>1, ByGrows
    <3>3. now <= By(Rounds) + After
      <4>1. pc \in {"before", "fire", "barrier", "gap", "after"}
        BY DEF IInv, Phases, OnTime, Measuring
      <4> QED BY <1>1, <3>1, <3>2, <4>1 DEF OnTime
    <3>4. TotalDuration = Rounds * (Est + Delay) + Margin /\ By(Rounds) = Before + Rounds * (Est + Delay)
      BY DEF TotalDuration, By
    <3>5. Rounds * (Est + Delay) \in Nat
      BY <3>1
    <3> QED BY <3>1, <3>2, <3>3, <3>4, <3>5, MarginAssumption
  <2> QED BY <2>1, <2>2, <2>3, Invariance, PTL DEF Spec
<1>2. CASE ~(Slowest <= Est)
  <2>1. CollectorsOutlast
    BY <1>2 DEF CollectorsOutlast
  <2> QED BY <2>1, PTL
<1> QED BY <1>1, <1>2

----------------------------------------------------------------------------
\* What the five components promise holds of the composition that the run checks, too.
THEOREM Composed == ExperimentsSpec => Spec /\ MeterSpec /\ S!Spec /\ DriverSpec /\ I!Spec
<1>1. ExperimentsInit => Init /\ MeterInit /\ S!Init /\ DriverInit /\ I!Init
  BY DEF ExperimentsInit
<1>2. [ExperimentsNext]_allVars => [Next]_vars
  BY DEF ExperimentsNext, allVars
<1>3. [ExperimentsNext]_allVars => [MeterNext]_meterVars
  BY DEF ExperimentsNext, allVars
<1>4. [ExperimentsNext]_allVars => [S!Next]_(S!vars)
  BY DEF ExperimentsNext, allVars, vmVars, S!vars, S!host, S!proc, S!pressure
<1>5. [ExperimentsNext]_allVars => [DriverNext]_driverVars
  BY DEF ExperimentsNext, allVars
<1>6. [ExperimentsNext]_allVars => [I!Next]_(I!vars)
  BY DEF ExperimentsNext, allVars, invokeVars, I!vars
<1> QED
  BY <1>1, <1>2, <1>3, <1>4, <1>5, <1>6, PTL
  DEF ExperimentsSpec, Spec, MeterSpec, S!Spec, DriverSpec, I!Spec
=============================================================================
