----------------------------- MODULE Inventory -----------------------------
(***************************************************************************)
(* Stock and reservations of product variants: checkout reserves the lines *)
(* of an order, payment settlement sells them, cancellation releases them  *)
(* and administrators set the stock, all concurrently.                     *)
(*                                                                         *)
(* A transaction takes its row locks one by one and keeps them until it    *)
(* commits or rolls back; what it changes becomes visible when it commits. *)
(* Which of the two ends an order's reservation comes to is decided under  *)
(* the order's own row lock (module PaymentFlow), so an order has at most  *)
(* one transaction here at a time.  An order whose reservation was         *)
(* released is taken not to be sold later; the one interleaving where it   *)
(* is belongs to PaymentFlow (its NeverReleasedAndSold).                   *)
(***************************************************************************)
EXTENDS Integers, FiniteSets, Functions

CONSTANTS
    Variants,       \* variant ids; rows are locked in the order of their ids
    Orders,
    Customers,
    CustomerOf,     \* whose order it is
    Lines,          \* Lines[o][v]: the quantity of v in order o
    MaxStock        \* bound on the stock an administrator sets

ASSUME OrdersAssumption == IsFiniteSet(Orders)
ASSUME VariantsAssumption == Variants \subseteq Nat \ {0}
ASSUME CustomerOfAssumption == CustomerOf \in [Orders -> Customers]
ASSUME LinesAssumption == Lines \in [Orders -> [Variants -> Nat]]
ASSUME MaxStockAssumption == MaxStock \in Nat

Operations == {"reserve", "commit", "release"}
Chain == {"none", "reserved", "sold", "released"}

VARIABLES
    stock,      \* committed stock_qty of each variant
    reserved,   \* committed reserved_qty of each variant
    chain,      \* the inventory movements of each order
    op,         \* the transaction each order is in
    locked,     \* the variant rows it has locked
    customer    \* whether it has locked its customer's row

vars == <<stock, reserved, chain, op, locked, customer>>

TypeOK ==
    /\ stock \in [Variants -> Nat]
    /\ reserved \in [Variants -> Nat]
    /\ chain \in [Orders -> Chain]
    /\ op \in [Orders -> Operations \cup {"none"}]
    /\ locked \in [Orders -> SUBSET Variants]
    /\ customer \in [Orders -> BOOLEAN]

Init ==
    /\ stock \in [Variants -> 0..MaxStock]
    /\ reserved = [v \in Variants |-> 0]
    /\ chain = [o \in Orders |-> "none"]
    /\ op = [o \in Orders |-> "none"]
    /\ locked = [o \in Orders |-> {}]
    /\ customer = [o \in Orders |-> FALSE]

Items(o) == {v \in Variants : Lines[o][v] > 0}

-----------------------------------------------------------------------------
Ends(o) ==
    /\ op' = [op EXCEPT ![o] = "none"]
    /\ locked' = [locked EXCEPT ![o] = {}]
    /\ customer' = [customer EXCEPT ![o] = FALSE]

\* Checkout of an active cart, or the settlement or cancellation of its order.
Begin(o, kind) ==
    /\ op[o] = "none"
    /\ chain[o] = IF kind = "reserve" THEN "none" ELSE "reserved"
    /\ op' = [op EXCEPT ![o] = kind]
    /\ UNCHANGED <<stock, reserved, chain, locked, customer>>

\* When the customer's row is locked: before any variant, except to cancel.
CustomerDue(o) == op[o] \in {"reserve", "commit"} /\ locked[o] = {}

CustomerFree(o) ==
    \A p \in Orders : CustomerOf[p] = CustomerOf[o] => ~customer[p]

LockCustomer(o) ==
    /\ CustomerDue(o)
    /\ ~customer[o]
    /\ CustomerFree(o)
    /\ customer' = [customer EXCEPT ![o] = TRUE]
    /\ UNCHANGED <<stock, reserved, chain, op, locked>>

\* Variant: a row is read without its lock.
RowUnlocked(v) == TRUE

RowFree(v) == \A p \in Orders : v \notin locked[p]

Available(v, q) == stock[v] - reserved[v] >= q

\* Variant: rows are locked as they come.
AnyRow(o, v) == v \in Items(o) \ locked[o]

\* The next row to lock: rows are locked in ascending order of their ids.
NextRow(o, v) ==
    /\ v \in Items(o) \ locked[o]
    /\ \A w \in Items(o) \ locked[o] : v <= w

(***************************************************************************)
(* reserve_variant locks a row and decides on what it then reads; an order *)
(* that does not fit is rolled back as a whole.                            *)
(***************************************************************************)
LockRow(o, v) ==
    /\ op[o] # "none"
    /\ CustomerDue(o) => customer[o]
    /\ NextRow(o, v)
    /\ RowFree(v)
    /\ IF op[o] = "reserve" /\ ~Available(v, Lines[o][v])
       THEN Ends(o)
       ELSE /\ locked' = [locked EXCEPT ![o] = @ \cup {v}]
            /\ UNCHANGED <<op, customer>>
    /\ UNCHANGED <<stock, reserved, chain>>

Complete(o, kind) ==
    /\ op[o] = kind
    /\ locked[o] = Items(o)
    /\ kind = "commit" => customer[o]

CommitReservation(o) ==
    /\ Complete(o, "reserve")
    /\ reserved' = [v \in Variants |-> reserved[v] + Lines[o][v]]
    /\ chain' = [chain EXCEPT ![o] = "reserved"]
    /\ Ends(o)
    /\ UNCHANGED stock

Covered(o) == \A v \in Items(o) : reserved[v] >= Lines[o][v]

\* Variant: the reservation stays when the stock is sold.
SaleKeepsReservation(o) ==
    /\ Complete(o, "commit")
    /\ Covered(o)
    /\ stock' = [v \in Variants |-> stock[v] - Lines[o][v]]
    /\ chain' = [chain EXCEPT ![o] = "sold"]
    /\ Ends(o)
    /\ UNCHANGED reserved

CommitSale(o) ==
    /\ Complete(o, "commit")
    /\ Covered(o)
    /\ \A v \in Items(o) : stock[v] >= Lines[o][v]
    /\ reserved' = [v \in Variants |-> reserved[v] - Lines[o][v]]
    /\ stock' = [v \in Variants |-> stock[v] - Lines[o][v]]
    /\ chain' = [chain EXCEPT ![o] = "sold"]
    /\ Ends(o)

CommitRelease(o) ==
    /\ Complete(o, "release")
    /\ Covered(o)
    /\ reserved' = [v \in Variants |-> reserved[v] - Lines[o][v]]
    /\ chain' = [chain EXCEPT ![o] = "released"]
    /\ Ends(o)
    /\ UNCHANGED stock

\* A failed check, any other error of the transaction, or its process dying.
Rollback(o) ==
    /\ op[o] # "none"
    /\ Ends(o)
    /\ UNCHANGED <<stock, reserved, chain>>

AdjustStock(v, q) ==
    /\ RowFree(v)
    /\ q >= reserved[v]
    /\ stock' = [stock EXCEPT ![v] = q]
    /\ UNCHANGED <<reserved, chain, op, locked, customer>>

OrderStep(o) ==
    \/ \E kind \in Operations : Begin(o, kind)
    \/ LockCustomer(o)
    \/ \E v \in Variants : LockRow(o, v)
    \/ CommitReservation(o) \/ CommitSale(o) \/ CommitRelease(o)
    \/ Rollback(o)

Next ==
    \/ \E o \in Orders : OrderStep(o)
    \/ \E v \in Variants, q \in 0..MaxStock : AdjustStock(v, q)

Spec == Init /\ [][Next]_vars

-----------------------------------------------------------------------------
(***************************************************************************)
(* Properties.                                                             *)
(***************************************************************************)

(***************************************************************************)
(* No interleaving of checkouts, sales, cancellations and adjustments      *)
(* promises more than is in stock, so the check constraint                 *)
(* ck_product_variants_reserved_within_stock never rejects a transaction.  *)
(***************************************************************************)
ReservedWithinStock == \A v \in Variants : reserved[v] <= stock[v]

(***************************************************************************)
(* A variant's reserved quantity is exactly what the orders that hold a    *)
(* reservation are owed: nothing leaks through a rollback or a race, and   *)
(* the mismatch checks of release and commit never refuse an order.        *)
(***************************************************************************)
ReservedIsOwed ==
    \A v \in Variants :
        reserved[v] = SumFunctionOnSet([o \in Orders |-> Lines[o][v]],
                                       {o \in Orders : chain[o] = "reserved"})

(***************************************************************************)
(* Every checkout, settlement and cancellation that begins also ends.      *)
(***************************************************************************)
TransactionsEnd == \A o \in Orders : op[o] # "none" ~> op[o] = "none"

=============================================================================
