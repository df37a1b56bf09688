---------------------------- MODULE MCDeliveries ----------------------------
(***************************************************************************)
(* Deliveries for TLC: two rows of the outbox, one of them with a bad      *)
(* address, or a marketing and a transactional notification.               *)
(***************************************************************************)
EXTENDS Deliveries, TLC

MCKinds == { 1 :> "webhook" @@ 2 :> "misaddressed",
             1 :> "marketing" @@ 2 :> "transactional" }

=============================================================================
