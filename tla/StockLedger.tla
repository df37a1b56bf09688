---------------------------- MODULE StockLedger ----------------------------
(***************************************************************************)
(* What the stock of the shop promises, whatever locks its transactions    *)
(* take one by one and whoever else writes it: as if each checkout, sale   *)
(* and release happened at one instant, an order is reserved only if all   *)
(* of it is there, once, and then sold or released, once; and what anybody *)
(* else makes of the stock leaves the reserved units there.                *)
(***************************************************************************)
EXTENDS Integers

CONSTANTS Variants, Orders,
          Lines         \* Lines[o][v]: the quantity of v in order o

VARIABLES
    stock,      \* units of each variant
    reserved,   \* those that orders hold
    chain       \* what became of each order

Init ==
    /\ stock \in [Variants -> Nat]
    /\ reserved = [v \in Variants |-> 0]
    /\ chain = [o \in Orders |-> "none"]

Reserve(o) ==
    /\ chain[o] = "none"
    /\ \A v \in Variants : reserved[v] + Lines[o][v] <= stock[v]
    /\ reserved' = [v \in Variants |-> reserved[v] + Lines[o][v]]
    /\ chain' = [chain EXCEPT ![o] = "reserved"]
    /\ UNCHANGED stock

Returned(o) == reserved' = [v \in Variants |-> reserved[v] - Lines[o][v]]

Sell(o) ==
    /\ chain[o] = "reserved"
    /\ Returned(o)
    /\ stock' = [v \in Variants |-> stock[v] - Lines[o][v]]
    /\ chain' = [chain EXCEPT ![o] = "sold"]

Release(o) ==
    /\ chain[o] = "reserved"
    /\ Returned(o)
    /\ chain' = [chain EXCEPT ![o] = "released"]
    /\ UNCHANGED stock

\* An adjustment, an inspection, a page of a synchronisation.
Recount ==
    /\ stock' \in [Variants -> Nat]
    /\ \A v \in Variants : reserved[v] <= stock'[v]
    /\ UNCHANGED <<reserved, chain>>

Next ==
    \/ \E o \in Orders : Reserve(o) \/ Sell(o) \/ Release(o)
    \/ Recount

Spec == Init /\ [][Next]_<<stock, reserved, chain>>

=============================================================================
