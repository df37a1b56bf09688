------------------------------ MODULE MCPilot -------------------------------
(***************************************************************************)
(* Pilot for TLC: a pilot of two orders instead of twenty, and one         *)
(* operator at the control file.                                           *)
(***************************************************************************)
EXTENDS Pilot, TLC

Symmetry == Permutations(Orders)

=============================================================================
