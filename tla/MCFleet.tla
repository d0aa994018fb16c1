------------------------------ MODULE MCFleet ------------------------------
(***************************************************************************)
(* Fleet for TLC: the launches are interchangeable.                        *)
(***************************************************************************)
EXTENDS FleetProps, TLC

Symmetry == Permutations(Launches)
=============================================================================
