------------------------------- MODULE MCHost -------------------------------
(***************************************************************************)
(* What a launch needs of its host, for TLC.  Either the arithmetic of     *)
(* Host, every instance id in turn and every choice of sizes; or the pools *)
(* of CpuPool, over every topology of four CPUs on one or two nodes; or    *)
(* the installation (Install), whose scripts are run again and again.  The *)
(* three have no state in common, so a behaviour is one of them.           *)
(***************************************************************************)
EXTENDS CpuPoolProps, Host

CONSTANTS
  Parts,                                       \* the components of a run
  Totals, Reserves, Mems, Templates, Spread,
  MaxFaults, MaxCrashes, InOrder               \* of Install

ASSUME InstallAssumption == MaxFaults \in Nat /\ MaxCrashes \in Nat /\ InOrder \in BOOLEAN

VARIABLES
  part,      \* "arithmetic", "pools" or "install"
  instance, total, reserve, mem, template,
  pc, art, partial, image, mounts, folder, inFolder, bin, drive, last, verdict,
  faults, crashes

sizes == <<total, reserve, mem, template>>

installVars == <<pc, art, partial, image, mounts, folder, inFolder, bin, drive, last,
                 verdict, faults, crashes>>

I == INSTANCE MCInstall

TwoNodes == {0, 1}
\* OVERSUB = 0.5, 1.5 and 3
ThreeRatios == {<<1, 2>>, <<3, 2>>, <<3, 1>>}

Overhead == 8                      \* FC_VMM_OVERHEAD_MIB

AnyHost == /\ core = [c \in Cpus |-> c] /\ node = [c \in Cpus |-> 0] /\ delegated

HostInit ==
  /\ part \in Parts /\ Init /\ I!Init
  /\ part # "pools" => AnyHost
  /\ part # "install" => ~folder
  /\ instance = 0
  /\ total = 0 /\ reserve = 0 /\ mem = 1 /\ template = 1

NextInstance ==
  /\ CheckInstance(instance + 1) /\ sizes = <<0, 0, 1, 1>>
  /\ instance' = instance + 1
  /\ UNCHANGED <<part, sizes>>

NextSizes ==
  /\ instance = 0
  /\ total' \in Totals /\ reserve' \in Reserves
  /\ mem' \in Mems /\ template' \in Templates
  /\ UNCHANGED <<part, instance>>

HostNext ==
  \/ part = "arithmetic" /\ (NextInstance \/ NextSizes) /\ UNCHANGED <<vars, installVars>>
  \/ part = "pools" /\ Next /\ UNCHANGED <<part, instance, sizes, installVars>>
  \/ part = "install" /\ I!Next /\ UNCHANGED <<part, instance, sizes, vars>>

\* The fairness is that of the installation: see Fairness in Install.
HostSpec ==
  /\ HostInit /\ [][HostNext]_<<vars, part, instance, sizes, installVars>>
  /\ WF_installVars(part = "install" /\ I!Download)
  /\ WF_installVars(part = "install" /\ (I!Build \/ I!FunctionDrive))
  /\ WF_installVars(part = "install" /\ I!Stuck /\ I!Abort)
  /\ SF_installVars(part = "install" /\ I!BeginDownload)
  /\ SF_installVars(part = "install" /\ I!BeginBuild)

\* Every instance id that passes fc_check_instance has usable addresses, those of one
\* /30 of its own and the two bytes of its MAC, and shares neither subnet nor MAC with
\* a neighbouring or a distant instance.
Addressable ==
  /\ AddressesUsable(instance)
  /\ \A d \in Spread : CheckInstance(instance + d) => Distinct(instance, instance + d)

\* The memory ceiling of the preflight is exact at its boundary, and the CPU quota of a
\* guest can be spent on the vCPUs it is given.
SizesExact ==
  /\ LET c == MemCapacity(total, reserve, Overhead, mem)
     IN  \A n \in {c, c + 1} : n > 0 => CapacityExact(total, reserve, Overhead, mem, n)
  /\ QuotaSpendable(template, mem)

\* An image that has its final name is finished (see MCInstall).
PublishedIsComplete == I!PublishedIsComplete

\* The next download and build bring the image back, whatever is left of those
\* before (see MCInstall).
ImageAgain == part = "install" => I!ImageAgain
=============================================================================
