----------------------------- MODULE MCCheckout -----------------------------
(***************************************************************************)
(* Checkout for TLC: the referrer and a friend, two orders, a promo code   *)
(* for one use and one point.                                              *)
(***************************************************************************)
EXTENDS Checkout, TLC

CONSTANTS o1, o2, key1, key2, anna, boris

MCStartPoints == anna :> 0 @@ boris :> 1
Symmetric == Permutations({o1, o2}) \cup Permutations({key1, key2})

=============================================================================
