---------------------------- MODULE RefundLedger ----------------------------
(***************************************************************************)
(* What the refunds of one order promise, whoever acts and whatever the    *)
(* provider answers: each return request is paid back once, for good, and  *)
(* together they never exceed what the customer paid.                      *)
(***************************************************************************)
EXTENDS Integers, Functions

CONSTANTS
    Returns,    \* the return requests of the order
    Total       \* what the customer paid

VARIABLE refunded   \* what each request has been paid back; 0 if nothing yet

Init == refunded = [r \in Returns |-> 0]

Exceeds(r, amount) == SumFunctionOnSet(refunded, Returns \ {r}) + amount > Total

Complete(r, amount) ==
    /\ refunded[r] = 0
    /\ ~Exceeds(r, amount)
    /\ refunded' = [refunded EXCEPT ![r] = amount]

Next == \E r \in Returns, amount \in 1..Total : Complete(r, amount)

Spec == Init /\ [][Next]_refunded

=============================================================================
