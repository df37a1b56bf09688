--------------------------- MODULE MCPaymentFlow ---------------------------
(***************************************************************************)
(* PaymentFlow for TLC.  create_payment requests are interchangeable: the  *)
(* safety runs use that symmetry, the liveness runs have one request.      *)
(***************************************************************************)
EXTENDS PaymentFlow, TLC

RequestSymmetry == Permutations(Clients)

=============================================================================
