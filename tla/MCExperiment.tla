---------------------------- MODULE MCExperiment ----------------------------
(***************************************************************************)
(* An experiment and what it starts, for TLC.  Either fc_experiment.sh on  *)
(* two of three instances (Experiment); or a collector: of the host's      *)
(* energy, from three counters of which two have the same name             *)
(* (EnergyMeter), or of a VM (VmSamplers); or a client: the SAAF driver    *)
(* (SaafDriver), or invoke.sh (Invoke).  The five have no state in common, *)
(* so a behaviour is one of them.                                          *)
(***************************************************************************)
EXTENDS ExperimentProps, Samplers, Clients

VARIABLE part  \* "script", "energy", "vm", "driver" or "invoke"

allVars == <<part, vars, meterVars, vmVars, driverVars, invokeVars>>

ThreeIds == 0..2

ThreeDomains == 0..2
TwoNames     == {"package-0", "dram"}
DramTwice    == [d \in ThreeDomains |-> IF d = 0 THEN "package-0" ELSE "dram"]
PsiFiles     == {"cpu", "io"}

\* The components a behaviour is not about begin, and stay, in one state each.
Quiet ==
  /\ part # "script" => sock = {} /\ ~exact /\ ~lsof
  /\ part # "energy" => /\ kind = "rapl" /\ counter = [d \in Domains |-> 0]
                        /\ doms = [n \in Names |-> Latest({d \in Domains : NameOf[d] = n})]
  /\ part # "vm"     => psi = {} /\ step["proc"] = "done"
  /\ part # "invoke" => socks = {}

ExperimentsInit ==
  /\ part \in {"script", "energy", "vm", "driver", "invoke"}
  /\ Init /\ MeterInit /\ S!Init /\ DriverInit /\ I!Init
  /\ Quiet

ExperimentsNext ==
  /\ UNCHANGED part
  /\ \/ part = "script" /\ Next /\ UNCHANGED <<meterVars, vmVars, driverVars, invokeVars>>
     \/ part = "energy" /\ MeterNext /\ UNCHANGED <<vars, vmVars, driverVars, invokeVars>>
     \/ part = "vm" /\ S!Next /\ UNCHANGED <<vars, meterVars, driverVars, invokeVars>>
     \/ part = "driver" /\ DriverNext /\ UNCHANGED <<vars, meterVars, vmVars, invokeVars>>
     \/ part = "invoke" /\ I!Next /\ UNCHANGED <<vars, meterVars, vmVars, driverVars>>

\* The fairness of the component the behaviour is of: see Fairness in Experiment,
\* VmSamplers, SaafDriver and Invoke.
ExperimentsSpec ==
  /\ ExperimentsInit /\ [][ExperimentsNext]_allVars
  /\ WF_vars(part = "script" /\ Script) /\ WF_vars(part = "script" /\ Tick)
  /\ \A k \in Mine : WF_vars(part = "script" /\ Finish(k))
  /\ WF_vmVars(part = "vm" /\ S!ProcStep) /\ WF_vmVars(part = "vm" /\ S!PressureStep)
  /\ WF_driverVars(part = "driver" /\ Main)
  /\ \A e \in Eps : WF_driverVars(part = "driver" /\ Thread(e))
  /\ WF_invokeVars(part = "invoke" /\ I!Script)
  /\ \A k \in Instances : WF_invokeVars(part = "invoke" /\ I!Return(k))

\* The experiment comes to an end, with VMs crashing at any point.
Ends == part = "script" => <>(pc \in {"done", "failed"})

\* "PID exited", or --duration: both collectors of a VM end, whatever becomes of it.
SamplersEnd == part = "vm" => <>S!Over

\* Both clients end even if the guests do not answer: their requests time out.
ClientsEnd ==
  part \in {"driver", "invoke"} =>
    <>(IF part = "driver" THEN phase = "exit" ELSE shell \in {"exit", "killed"})
=============================================================================
