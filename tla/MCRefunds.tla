----------------------------- MODULE MCRefunds -----------------------------
(***************************************************************************)
(* Refunds for TLC.  Approval requests are interchangeable in runs that    *)
(* check no liveness property.                                             *)
(***************************************************************************)
EXTENDS Refunds, TLC

ApprovalSymmetry == Permutations(Approvers)

=============================================================================
