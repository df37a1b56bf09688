----------------------------- MODULE MCShipping -----------------------------
(***************************************************************************)
(* Shipping for TLC: workers "a" and "b" overlap.  Bookings and exports    *)
(* are looked at one after the other.                                      *)
(***************************************************************************)
EXTENDS Shipping

MCWorkers == {"a", "b"}
MCSetups == { [modes |-> {"manual"}, exports |-> TRUE],
              [modes |-> {"disabled", "sandbox", "live"}, exports |-> FALSE] }

=============================================================================
