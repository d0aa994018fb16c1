------------------------------- MODULE Clients -------------------------------
(***************************************************************************)
(* The two clients a fleet has: the SAAF driver (SaafDriver), and one      *)
(* execution of invoke.sh (Invoke).  They share no state.                  *)
(***************************************************************************)
EXTENDS MCSaafDriver

CONSTANT Instances  \* those that may be up

ASSUME InstancesAssumption == Instances \subseteq Nat /\ IsFiniteSet(Instances)

VARIABLES shell, socks, targets, turn, job, file, failed, out, exitCode

invokeVars == <<shell, socks, targets, turn, job, file, failed, out, exitCode>>

I == INSTANCE MCInvoke
       WITH Ids <- Instances, pc <- shell, sock <- socks, at <- turn, code <- exitCode

\* The exit code of invoke.sh speaks for every call (see MCInvoke).
ExitTellsAll == I!ExitTellsAll

\* What invoke.sh prints is whole and in the order of the instances (see MCInvoke).
OutputInOrder == I!OutputInOrder
=============================================================================
