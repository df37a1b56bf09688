------------------------------ MODULE Checkout ------------------------------
(***************************************************************************)
(* From the cart to the paid order: cart operations, the promo code, the   *)
(* loyalty points a cart holds, the delivery quote, the idempotent         *)
(* checkout, and what settlement, cancellation and a full refund then do   *)
(* to points, promo uses and referral rewards.                             *)
(*                                                                         *)
(* Every operation is one transaction under the row locks of the customer, *)
(* the cart, the promo code and the loyalty profile, so it is one action.  *)
(* Only the cart's items may be stale in it: get_or_create_cart loads them *)
(* and commits before the lock, and SELECT ... FOR UPDATE does not refresh *)
(* rows the session already holds.  Stock is the subject of module         *)
(* Inventory, the payment itself of PaymentFlow.                           *)
(***************************************************************************)
EXTENDS Integers, FiniteSets, Functions

CONSTANTS
    Customers,
    Orders,         \* ids the database hands out
    Keys,           \* idempotency keys
    Quotes,         \* courier quotes each customer may request
    Pickup,         \* the checkout needs no prior quote
    Referrer,       \* the customer whose referral code the others apply
    MaxUses,        \* of the promo code; 0 is without limit
    PromoMin,       \* number of items the promo code asks for
    MaxQuantity,    \* bound on the items of a cart
    StartPoints,    \* each customer's points to begin with
    Earned,         \* points an order earns
    Reward          \* points the referrer is rewarded with

ASSUME RowsAssumption == IsFiniteSet(Orders) /\ IsFiniteSet(Customers)
ASSUME LimitsAssumption == /\ MaxUses \in Nat
                           /\ PromoMin \in Nat
                           /\ MaxQuantity \in Nat
ASSUME PointsAssumption == /\ StartPoints \in [Customers -> Nat]
                           /\ Earned \in Nat
                           /\ Reward \in Nat
ASSUME ReferrerAssumption == Referrer \in Customers
ASSUME PickupAssumption == Pickup \notin Quotes

Requestable == Quotes \cup {Pickup}

Carts == [quantity : 0..MaxQuantity, promo : BOOLEAN, points : Nat,
          hold : Nat, referral : BOOLEAN]
HoldStatus == {"none", "reserved", "committed", "released", "refunded"}
OrderStatus == {"created", "paid", "cancelled", "refunded"}
OrderRows == [status : OrderStatus, owner : Customers, promo : BOOLEAN,
              points : Nat, held : Nat, hold : HoldStatus,
              referral : BOOLEAN, rewarded : BOOLEAN,
              key : Keys, quote : Requestable]
QuoteStatus == {"none", "created", "accepted"}
AttributionStatus == {"none", "pending", "rewarded", "ineligible", "reversed"}

NoOrder == [status |-> "none"]
EmptyCart == [quantity |-> 0, promo |-> FALSE, points |-> 0, hold |-> 0,
              referral |-> FALSE]

VARIABLES
    cart,           \* each customer's active cart, its reserved hold included
    order,
    quote,          \* status of each customer's quotes
    used,           \* used_count of the promo code
    promoValid,     \* the promo code is active and has not expired
    balance,        \* loyalty points
    clawed,         \* history: points refunds took back
    attribution,    \* referral attribution of each customer
    codeUses,       \* used_count of the referral code
    misled          \* history: a checkout returned an order of other data

vars == <<cart, order, quote, used, promoValid, balance, clawed,
          attribution, codeUses, misled>>

TypeOK ==
    /\ cart \in [Customers -> Carts]
    /\ order \in [Orders -> OrderRows \cup {NoOrder}]
    /\ quote \in [Customers -> [Quotes -> QuoteStatus]]
    /\ used \in Nat
    /\ promoValid \in BOOLEAN
    /\ balance \in [Customers -> Nat]
    /\ clawed \in [Customers -> Nat]
    /\ attribution \in [Customers -> AttributionStatus]
    /\ codeUses \in Nat
    /\ misled \in BOOLEAN

Init ==
    /\ cart = [c \in Customers |-> EmptyCart]
    /\ order = [o \in Orders |-> NoOrder]
    /\ quote = [c \in Customers |-> [q \in Quotes |-> "none"]]
    /\ used = 0
    /\ promoValid = TRUE
    /\ balance = StartPoints
    /\ clawed = [c \in Customers |-> 0]
    /\ attribution = [c \in Customers |-> "none"]
    /\ codeUses = 0
    /\ misled = FALSE

-----------------------------------------------------------------------------
(* Promo code and points.                                                  *)

\* Variant: the usage limit was checked when the cart took the code.
PromoAllowedLate(quantity) == promoValid /\ quantity >= PromoMin

\* validate_promo, for a subtotal of so many items.
PromoAllowed(quantity) ==
    /\ promoValid
    /\ MaxUses > 0 => used < MaxUses
    /\ quantity >= PromoMin

\* Points of c that the hold of order o reserves, and the holds of all orders.
HeldFor(c, o) ==
    IF order[o] # NoOrder /\ order[o].owner = c /\ order[o].hold = "reserved"
    THEN order[o].held ELSE 0
ReservedByOrders(c) == SumFunction([o \in Orders |-> HeldFor(c, o)])

\* Variant: what other carts and orders hold is not set aside.
AffordableAlone(c, quantity, p) == p <= quantity /\ p <= balance[c]

\* p points may be redeemed in c's cart of so many items: an item takes one.
Affordable(c, quantity, p) ==
    /\ p <= quantity
    /\ ReservedByOrders(c) + p <= balance[c]

\* reconcile_cart_adjustments of the cart k this transaction leaves c with:
\* the promo code is kept if it still applies, the points are cut to the most
\* that is affordable, and the hold follows them.
Reconcile(c, k) ==
    \E p \in 0..k.points :
        /\ p > 0 => Affordable(c, k.quantity, p)
        /\ \A r \in (p + 1)..k.points : ~Affordable(c, k.quantity, r)
        /\ cart' = [cart EXCEPT ![c] =
                       [k EXCEPT !.promo = k.promo /\ PromoAllowed(k.quantity),
                                 !.points = p,
                                 !.hold = p]]

-----------------------------------------------------------------------------
(* Cart operations.                                                        *)

OnlyCart == UNCHANGED <<order, quote, used, promoValid, balance, clawed,
                        codeUses, misled>>
OnlyItems == UNCHANGED attribution /\ OnlyCart

ViewCart(c) == Reconcile(c, cart[c]) /\ OnlyItems

\* An item in the cart already counts from the quantity the session loaded,
\* which another session may have changed since: any quantity.
AddItem(c) ==
    \E row \in IF cart[c].quantity > 0 THEN 1..MaxQuantity ELSE {0} :
        /\ row + 1 <= MaxQuantity
        /\ Reconcile(c, [cart[c] EXCEPT !.quantity = row + 1])
        /\ OnlyItems

UpdateItem(c, quantity) ==
    /\ cart[c].quantity > 0
    /\ Reconcile(c, [cart[c] EXCEPT !.quantity = quantity])
    /\ OnlyItems

RemoveItem(c) ==
    /\ cart[c].quantity > 0
    /\ Reconcile(c, [cart[c] EXCEPT !.quantity = 0])
    /\ OnlyItems

ApplyPromo(c) ==
    /\ PromoAllowed(cart[c].quantity)
    /\ Reconcile(c, [cart[c] EXCEPT !.promo = TRUE])
    /\ OnlyItems

\* Of a session that loaded the cart without the code, ViewCart.
RemovePromo(c) ==
    /\ Reconcile(c, [cart[c] EXCEPT !.promo = FALSE])
    /\ OnlyItems

ApplyLoyalty(c, points) ==
    /\ points > 0 => Affordable(c, cart[c].quantity, points)
    /\ Reconcile(c, [cart[c] EXCEPT !.points = points])
    /\ OnlyItems

Settled(o) == order[o].status \in {"paid", "refunded"}
SettledBefore(c, except) ==
    \E o \in Orders \ except : order[o] # NoOrder /\ order[o].owner = c /\ Settled(o)

\* Whoever has paid before is too late for a referral code.
ApplyReferral(c) ==
    /\ c # Referrer
    /\ ~SettledBefore(c, {})
    /\ attribution' = [attribution EXCEPT ![c] = IF @ = "none" THEN "pending" ELSE @]
    /\ Reconcile(c, [cart[c] EXCEPT !.referral = TRUE])
    /\ OnlyCart

-----------------------------------------------------------------------------
(* Delivery quotes.                                                        *)

OnlyQuote == UNCHANGED <<cart, order, used, promoValid, balance, clawed,
                         attribution, codeUses, misled>>

CreateQuote(c, q) ==
    /\ quote[c][q] = "none"
    /\ quote' = [quote EXCEPT ![c][q] = "created"]
    /\ OnlyQuote

\* It expires, or no longer matches the tariff it is checked against; its id
\* then stands for the next quote.
QuoteLapses(c, q) ==
    /\ quote[c][q] = "created"
    /\ quote' = [quote EXCEPT ![c][q] = "none"]
    /\ OnlyQuote

PromoExpires ==
    /\ promoValid
    /\ promoValid' = FALSE
    /\ UNCHANGED <<cart, order, quote, used, balance, clawed,
                   attribution, codeUses, misled>>

-----------------------------------------------------------------------------
(* Checkout.                                                               *)

Attempts(c, k) ==
    {o \in Orders : order[o] # NoOrder /\ order[o].owner = c /\ order[o].key = k}

\* Variant: the fingerprint is not compared.
RepeatsAnything(o, q) == TRUE

\* _load_existing_checkout: the key's order, for the very same data.
Repeats(o, q) == order[o].quote = q

CheckoutAgain(c, k, q) ==
    \E o \in Attempts(c, k) :
        /\ Repeats(o, q)
        /\ misled' = (misled \/ order[o].quote # q)
        /\ UNCHANGED <<cart, order, quote, used, promoValid, balance, clawed,
                       attribution, codeUses>>

\* A hold the cart's points do not ask for stays behind, linked to no order.
Placed(c, k, q) ==
    LET held == IF cart[c].points > 0 THEN cart[c].points ELSE cart[c].hold
    IN [status |-> "created", owner |-> c, promo |-> cart[c].promo,
        points |-> cart[c].points, held |-> held,
        hold |-> IF held > 0 THEN "reserved" ELSE "none",
        referral |-> cart[c].referral, rewarded |-> FALSE,
        key |-> k, quote |-> q]

PlaceOrder(c, k, q, o) ==
    /\ Attempts(c, k) = {}
    /\ order[o] = NoOrder
    /\ q \in Quotes => quote[c][q] = "created"
    /\ cart[c].quantity > 0
    /\ cart[c].promo => PromoAllowed(cart[c].quantity)
    /\ cart[c].points > 0 => Affordable(c, cart[c].quantity, cart[c].points)
    /\ order' = [order EXCEPT ![o] = Placed(c, k, q)]
    /\ quote' = IF q \in Quotes
                THEN [quote EXCEPT ![c][q] = "accepted"] ELSE quote
    /\ used' = IF cart[c].promo THEN used + 1 ELSE used
    /\ cart' = [cart EXCEPT ![c] = EmptyCart]
    /\ UNCHANGED <<promoValid, balance, clawed, attribution, codeUses, misled>>

-----------------------------------------------------------------------------
(* What becomes of an order.                                               *)

\* The hold of an order, once something happens to its points.
Moved(o, status) ==
    IF order[o].points > 0 THEN status ELSE order[o].hold

\* Variant: every paid order of the friend.
RewardsAlways(o) ==
    attribution[order[o].owner] # "none" /\ order[o].referral

\* reward_referral_after_first_paid_order.
Rewards(o) ==
    /\ attribution[order[o].owner] = "pending"
    /\ ~SettledBefore(order[o].owner, {o})
    /\ order[o].referral

\* add_points refuses to leave a negative balance.
Spendable(o) == order[o].points <= balance[order[o].owner]

\* settle_paid_order, refused when the points are not there.
Settle(o) ==
    LET c == order[o].owner
    IN /\ order[o].status = "created"
       /\ Spendable(o)
       /\ order' = [order EXCEPT ![o].status = "paid",
                                 ![o].hold = Moved(o, "committed"),
                                 ![o].rewarded = Rewards(o)]
       /\ balance' = [x \in Customers |->
                        balance[x]
                        + (IF x = c THEN Earned - order[o].points ELSE 0)
                        + (IF Rewards(o) /\ x = Referrer THEN Reward ELSE 0)]
       /\ attribution' = IF attribution[c] # "pending" THEN attribution
                         ELSE [attribution EXCEPT ![c] =
                                 IF Rewards(o) THEN "rewarded" ELSE "ineligible"]
       /\ codeUses' = IF Rewards(o) THEN codeUses + 1 ELSE codeUses
       /\ UNCHANGED <<cart, quote, used, promoValid, clawed, misled>>

\* cancel_order_before_settlement.
Cancel(o) ==
    /\ order[o].status = "created"
    /\ order' = [order EXCEPT ![o].status = "cancelled",
                              ![o].hold = Moved(o, "released")]
    /\ used' = IF order[o].promo /\ used > 0 THEN used - 1 ELSE used
    /\ UNCHANGED <<cart, quote, promoValid, balance, clawed,
                   attribution, codeUses, misled>>

\* What a full refund takes back from x: never more than x has.
TakenBack(o, x) ==
    LET due == (IF x = order[o].owner THEN Earned ELSE 0)
               + (IF order[o].rewarded /\ x = Referrer THEN Reward ELSE 0)
    IN IF due <= balance[x] THEN due ELSE balance[x]

\* apply_full_refund_loyalty: rewards are taken back before the redeemed
\* points are restored.
Refund(o) ==
    LET c == order[o].owner
    IN /\ order[o].status = "paid"
       /\ order' = [order EXCEPT ![o].status = "refunded",
                                 ![o].hold = Moved(o, "refunded")]
       /\ balance' = [x \in Customers |->
                        balance[x] - TakenBack(o, x)
                        + (IF x = c THEN order[o].points ELSE 0)]
       /\ clawed' = [x \in Customers |-> clawed[x] + TakenBack(o, x)]
       /\ attribution' = IF order[o].rewarded /\ attribution[c] = "rewarded"
                         THEN [attribution EXCEPT ![c] = "reversed"]
                         ELSE attribution
       /\ codeUses' = IF /\ order[o].rewarded
                         /\ attribution[c] = "rewarded"
                         /\ codeUses > 0
                      THEN codeUses - 1 ELSE codeUses
       /\ UNCHANGED <<cart, quote, used, promoValid, misled>>

-----------------------------------------------------------------------------
CartStep(c) ==
    \/ ViewCart(c) \/ AddItem(c) \/ RemoveItem(c)
    \/ \E quantity \in 1..MaxQuantity : UpdateItem(c, quantity)
    \/ ApplyPromo(c) \/ RemovePromo(c)
    \/ \E points \in 0..MaxQuantity : ApplyLoyalty(c, points)
    \/ ApplyReferral(c)

QuoteStep(c) == \E q \in Quotes : CreateQuote(c, q) \/ QuoteLapses(c, q)

CheckoutStep(c) ==
    \E k \in Keys, q \in Requestable :
        \/ CheckoutAgain(c, k, q)
        \/ \E o \in Orders : PlaceOrder(c, k, q, o)

OrderStep(o) == Settle(o) \/ Cancel(o) \/ Refund(o)

Next ==
    \/ \E c \in Customers : CartStep(c) \/ QuoteStep(c) \/ CheckoutStep(c)
    \/ \E o \in Orders : OrderStep(o)
    \/ PromoExpires

Spec == Init /\ [][Next]_vars

-----------------------------------------------------------------------------
\* The use count of the promo code is the number of orders that carry it and
\* were not cancelled, and never exceeds the limit, however many carts hold
\* the code (orders.py:490, order_cancellation.py:157, promos.py:49).
PromoCounted ==
    /\ used = Cardinality({o \in Orders : /\ order[o] # NoOrder
                                          /\ order[o].status # "cancelled"
                                          /\ order[o].promo})
    /\ MaxUses > 0 => used <= MaxUses

\* Points held by the cart and the unpaid orders of a customer are there to be
\* spent, up to what refunds of earlier orders took back: neither two carts
\* nor a cart and a settlement count the same points twice
\* (cart_adjustments.py:204, orders.py:231, refund_loyalty.py:128).
HeldIsCovered ==
    \A c \in Customers :
        ReservedByOrders(c) + cart[c].hold <= balance[c] + clawed[c]

\* A checkout answers with the order that very request made: one order for
\* each key, and one for each delivery quote (orders.py:125, 369, 498).
CheckoutIsIdempotent ==
    /\ \A a, b \in {o \in Orders : order[o] # NoOrder} :
          /\ a # b
          /\ order[a].owner = order[b].owner
          => /\ order[a].key # order[b].key
             /\ order[a].quote \in Quotes => order[a].quote # order[b].quote
    /\ ~misled

\* A friend's first paid order rewards the referrer once: a rewarded
\* attribution belongs to exactly one order, paid and not refunded in full,
\* and the code counts just those (loyalty.py:266-301, refund_loyalty.py:202).
RewardedOnce ==
    /\ \A c \in Customers :
          LET rewarding == {o \in Orders : /\ order[o] # NoOrder
                                           /\ order[o].owner = c
                                           /\ order[o].rewarded}
          IN /\ Cardinality(rewarding) =
                  IF attribution[c] \in {"rewarded", "reversed"} THEN 1 ELSE 0
             /\ attribution[c] = "rewarded" =>
                  \A o \in rewarding : order[o].status = "paid"
    /\ codeUses = Cardinality({c \in Customers : attribution[c] = "rewarded"})

=============================================================================
