------------------------------ MODULE Samplers ------------------------------
(***************************************************************************)
(* The collectors that are programs of their own: the two that read the    *)
(* energy counters of the host (EnergyMeter), and the two that watch a VM  *)
(* (VmSamplers).  They share no state.                                     *)
(***************************************************************************)
EXTENDS EnergyMeter

CONSTANTS MaxTicks, Duration, Resources

VARIABLES vm, leaf, psi, used, step, csv, cs, st, net, prevStat, prevNet, begun, tracked,
          row2, cgSeen

vmVars == <<vm, leaf, psi, used, step, csv, cs, st, net, prevStat, prevNet, begun,
            tracked, row2, cgSeen>>

S == INSTANCE VmSamplers WITH Nothing <- NoValue, rows <- csv, row <- row2

\* The entries of proc.csv add up to what the VM used (see VmSamplers).
ProcAddsUp == S!ProcAddsUp

\* An entry of pressure.csv was read in its own sample (see VmSamplers).
StallsAreRead == S!StallsAreRead
=============================================================================
