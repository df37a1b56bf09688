--------------------------- MODULE CheckoutProofs ---------------------------
(***************************************************************************)
(* Proofs about Checkout for every number of customers, orders, keys and   *)
(* quotes, and any promo limit and points.                                 *)
(***************************************************************************)
EXTENDS Checkout, FiniteSetTheorems, WellFoundedInduction, TLAPS

-----------------------------------------------------------------------------
(***************************************************************************)
(* Sums over finite sets.  SumFunctionOnSet folds over the subsets of the  *)
(* set; what it computes follows from a smallest counterexample among      *)
(* those subsets.                                                          *)
(***************************************************************************)

\* Of finitely many things, every nonempty collection of sets has a smallest.
LEMMA SmallestSet ==
    ASSUME NEW S, IsFiniteSet(S), NEW B, B \subseteq SUBSET S, B # {}
    PROVE  \E T \in B : \A U \in B : ~(U \subseteq T /\ U # T)
<1>1. IsWellFoundedOn(StrictSubsetOrdering(S), SUBSET S)
    BY FS_StrictSubsetOrderingWellFounded, FS_FiniteSubsetsOfFinite
<1>2. PICK T \in B : \A U \in B : ~(<<U, T>> \in StrictSubsetOrdering(S))
    BY <1>1, WFMin
<1>3. ASSUME NEW U \in B, U \subseteq T, U # T
      PROVE  FALSE
    BY <1>2, <1>3 DEF StrictSubsetOrdering
<1> QED
    BY <1>2, <1>3

Any(T) == CHOOSE x \in T : TRUE

\* g sums f over every subset of S, in the order in which a fold takes them.
Sums(g, f, S) ==
    g = [T \in SUBSET S |-> IF T = {} THEN 0 ELSE f[Any(T)] + g[T \ {Any(T)}]]

LEMMA SumIsFold ==
    ASSUME NEW f, NEW S
    PROVE  SumFunctionOnSet(f, S) = (CHOOSE g : Sums(g, f, S))[S]
BY Zenon DEF SumFunctionOnSet, FoldFunctionOnSet, MapThenFoldSet, Sums, Any

\* Two such functions agree where both are defined.
LEMMA SumsCoincide ==
    ASSUME NEW f, NEW S, IsFiniteSet(S), NEW g, NEW h, NEW W \in SUBSET S, NEW V,
           NEW T \in SUBSET W, W \subseteq V,
           Sums(g, f, W), Sums(h, f, V)
    PROVE  g[T] = h[T]
<1> DEFINE B == {U \in SUBSET W : g[U] # h[U]}
<1> SUFFICES ASSUME B # {} PROVE FALSE
    OBVIOUS
<1>1. B \subseteq SUBSET S
    OBVIOUS
<1>2. PICK U \in B : \A D \in B : ~(D \subseteq U /\ D # U)
    <2> HIDE DEF B
    <2> QED BY <1>1, SmallestSet
<1>3. U # {}
    BY DEF Sums
<1>4. Any(U) \in U
    BY <1>3 DEF Any
<1>5. g[U \ {Any(U)}] = h[U \ {Any(U)}]
    BY <1>2, <1>4
<1>6. g[U] = f[Any(U)] + g[U \ {Any(U)}] /\ h[U] = f[Any(U)] + h[U \ {Any(U)}]
    BY <1>3 DEF Sums
<1> QED
    BY <1>5, <1>6

\* There is one for every finite set.
LEMMA SumsExist ==
    ASSUME NEW f, NEW S, IsFiniteSet(S)
    PROVE  \E g : Sums(g, f, S)
<1> DEFINE B == {U \in SUBSET S : ~ \E g : Sums(g, f, U)}
<1> SUFFICES ASSUME B # {} PROVE FALSE
    OBVIOUS
<1>1. PICK U \in B : \A D \in B : ~(D \subseteq U /\ D # U)
    <2>1. B \subseteq SUBSET S
        OBVIOUS
    <2> HIDE DEF B
    <2> QED BY <2>1, SmallestSet
<1> DEFINE part(D) == CHOOSE g : Sums(g, f, D)
           value(T) == IF T = {} THEN 0
                       ELSE f[Any(T)] + part(T \ {Any(T)})[T \ {Any(T)}]
           h == [T \in SUBSET U |-> value(T)]
<1>2. ASSUME NEW D \in SUBSET U, D # U
      PROVE  Sums(part(D), f, D)
    BY <1>1, <1>2
<1>3. ASSUME NEW T \in SUBSET U, T # {}
      PROVE  h[T \ {Any(T)}] = part(T \ {Any(T)})[T \ {Any(T)}]
    <2> DEFINE D == T \ {Any(T)}
    <2>1. Any(T) \in T
        BY <1>3 DEF Any
    <2>2. D \in SUBSET U /\ D # U
        BY <2>1
    <2>3. Sums(part(D), f, D)
        BY <1>2, <2>2
    <2>4. CASE D = {}
        BY <2>3, <2>4 DEF Sums
    <2>5. CASE D # {}
        <3> DEFINE E == D \ {Any(D)}
        <3>1. Any(D) \in D
            BY <2>5 DEF Any
        <3>2. E \in SUBSET D /\ E \in SUBSET U /\ E # U
            BY <2>2, <3>1
        <3>3. Sums(part(E), f, E)
            BY <1>2, <3>2
        <3>4. part(E)[E] = part(D)[E]
            <4> HIDE DEF part, E, D
            <4> QED BY <2>2, <2>3, <3>2, <3>3, SumsCoincide
        <3>5. part(D)[D] = f[Any(D)] + part(D)[E]
            BY <2>3, <2>5 DEF Sums
        <3> QED
            BY <2>2, <2>5, <3>4, <3>5
    <2> QED
        BY <2>4, <2>5
<1>4. h = [T \in SUBSET U |-> IF T = {} THEN 0 ELSE f[Any(T)] + h[T \ {Any(T)}]]
    <2>1. ASSUME NEW T \in SUBSET U
          PROVE  value(T) = IF T = {} THEN 0 ELSE f[Any(T)] + h[T \ {Any(T)}]
        <3> HIDE DEF h, part
        <3>1. CASE T = {}
            BY <3>1
        <3>2. CASE T # {}
            BY <1>3, <3>2
        <3> QED BY <3>1, <3>2
    <2> HIDE DEF value
    <2> QED BY <2>1, Zenon
<1>5. Sums(h, f, U)
    <2> HIDE DEF h
    <2> QED BY <1>4 DEF Sums
<1> QED
    BY <1>5

LEMMA SumTake ==
    ASSUME NEW f, NEW S, IsFiniteSet(S)
    PROVE  SumFunctionOnSet(f, S) =
             IF S = {} THEN 0
             ELSE f[Any(S)] + SumFunctionOnSet(f, S \ {Any(S)})
<1> DEFINE D == S \ {Any(S)}
           g == CHOOSE k : Sums(k, f, S)
           h == CHOOSE k : Sums(k, f, D)
<1>1. IsFiniteSet(D)
    BY FS_Subset
<1>2. Sums(g, f, S) /\ Sums(h, f, D)
    BY <1>1, SumsExist
<1>3. SumFunctionOnSet(f, S) = g[S] /\ SumFunctionOnSet(f, D) = h[D]
    BY SumIsFold
<1>4. g[D] = h[D]
    <2>1. D \in SUBSET S /\ D \in SUBSET D /\ D \subseteq S
        OBVIOUS
    <2> HIDE DEF g, h, D
    <2> QED BY <1>2, <2>1, SumsCoincide
<1>5. g[S] = IF S = {} THEN 0 ELSE f[Any(S)] + g[D]
    <2> HIDE DEF g
    <2> QED BY <1>2 DEF Sums
<1> QED
    BY <1>3, <1>4, <1>5

\* The sum of numbers of one kind is of that kind.
LEMMA SumClosed ==
    ASSUME NEW f, NEW S, IsFiniteSet(S), NEW D, \A x \in S : f[x] \in D,
           0 \in D, \A m, n \in D : m + n \in D
    PROVE  SumFunctionOnSet(f, S) \in D
<1> DEFINE B == {T \in SUBSET S : SumFunctionOnSet(f, T) \notin D}
<1> SUFFICES ASSUME B # {} PROVE FALSE
    OBVIOUS
<1>1. PICK T \in B : \A U \in B : ~(U \subseteq T /\ U # T)
    <2>1. B \subseteq SUBSET S
        OBVIOUS
    <2> HIDE DEF B
    <2> QED BY <2>1, SmallestSet
<1>2. IsFiniteSet(T)
    BY FS_Subset
<1>3. T # {}
    <2>1. SumFunctionOnSet(f, {}) = 0
        BY FS_EmptySet, SumTake
    <2> QED BY <2>1
<1>4. Any(T) \in T
    BY <1>3 DEF Any
<1>5. SumFunctionOnSet(f, T \ {Any(T)}) \in D
    BY <1>1, <1>4
<1>6. SumFunctionOnSet(f, T) = f[Any(T)] + SumFunctionOnSet(f, T \ {Any(T)})
    BY <1>2, <1>3, SumTake
<1> QED
    BY <1>4, <1>5, <1>6

LEMMA SumType ==
    ASSUME NEW f, NEW S, IsFiniteSet(S), NEW D \in {Int, Nat}, \A x \in S : f[x] \in D
    PROVE  SumFunctionOnSet(f, S) \in D
<1>1. 0 \in D /\ \A m, n \in D : m + n \in D
    OBVIOUS
<1> QED
    BY <1>1, SumClosed

LEMMA SumZero ==
    ASSUME NEW f, NEW S, IsFiniteSet(S), \A x \in S : f[x] = 0
    PROVE  SumFunctionOnSet(f, S) = 0
<1>1. \A m, n \in {0} : m + n \in {0}
    OBVIOUS
<1>2. SumFunctionOnSet(f, S) \in {0}
    BY <1>1, SumClosed
<1> QED
    BY <1>2

\* Any element can be taken first.
LEMMA SumRemove ==
    ASSUME NEW f, NEW S, IsFiniteSet(S), \A x \in S : f[x] \in Int, NEW x \in S
    PROVE  SumFunctionOnSet(f, S) = f[x] + SumFunctionOnSet(f, S \ {x})
<1> DEFINE B == {T \in SUBSET S : \E y \in T :
                    SumFunctionOnSet(f, T) # f[y] + SumFunctionOnSet(f, T \ {y})}
<1> SUFFICES ASSUME B # {} PROVE FALSE
    OBVIOUS
<1>1. PICK T \in B : \A D \in B : ~(D \subseteq T /\ D # T)
    <2>1. B \subseteq SUBSET S
        OBVIOUS
    <2> HIDE DEF B
    <2> QED BY <2>1, SmallestSet
<1>2. PICK y \in T : SumFunctionOnSet(f, T) # f[y] + SumFunctionOnSet(f, T \ {y})
    OBVIOUS
<1> DEFINE z == Any(T)
           C == T \ {y, z}
<1>3. z \in T
    BY DEF Any
<1>4. SumFunctionOnSet(f, T) = f[z] + SumFunctionOnSet(f, T \ {z})
    <2>1. IsFiniteSet(T)
        BY FS_Subset
    <2> QED BY <1>2, <2>1, SumTake
<1>5. y # z
    BY <1>2, <1>4
<1>6. SumFunctionOnSet(f, T \ {z}) = f[y] + SumFunctionOnSet(f, C)
    <2>1. (T \ {z}) \ {y} = C /\ T \ {z} # T /\ y \in T \ {z}
        BY <1>3, <1>5
    <2> QED BY <1>1, <2>1
<1>7. SumFunctionOnSet(f, T \ {y}) = f[z] + SumFunctionOnSet(f, C)
    <2>1. (T \ {y}) \ {z} = C /\ T \ {y} # T /\ z \in T \ {y}
        BY <1>3, <1>5
    <2> QED BY <1>1, <2>1
<1>8. SumFunctionOnSet(f, C) \in Int /\ f[y] \in Int /\ f[z] \in Int
    <2>1. IsFiniteSet(C) /\ C \subseteq S
        BY FS_Subset
    <2> QED BY <1>3, <2>1, SumType
<1> HIDE DEF z, C
<1> QED
    BY <1>2, <1>4, <1>6, <1>7, <1>8

\* A sum depends on the values in its set only.
LEMMA SumSame ==
    ASSUME NEW f, NEW g, NEW S, \A x \in S : f[x] = g[x]
    PROVE  SumFunctionOnSet(f, S) = SumFunctionOnSet(g, S)
<1>1. ASSUME NEW T \in SUBSET S, T # {}
      PROVE  f[Any(T)] = g[Any(T)]
    BY <1>1 DEF Any
<1>2. ASSUME NEW k
      PROVE  Sums(k, f, S) <=> Sums(k, g, S)
    BY <1>1 DEF Sums
<1>3. (CHOOSE k : Sums(k, f, S)) = (CHOOSE k : Sums(k, g, S))
    BY <1>2, Zenon
<1> QED
    BY <1>3, SumIsFold

\* What one value contributes.
LEMMA SumChange ==
    ASSUME NEW f, NEW g, NEW S, IsFiniteSet(S), NEW x \in S,
           \A y \in S : f[y] \in Int /\ g[y] \in Int,
           \A y \in S \ {x} : f[y] = g[y]
    PROVE  /\ SumFunctionOnSet(f, S) \in Int
           /\ SumFunctionOnSet(g, S) = SumFunctionOnSet(f, S) - f[x] + g[x]
<1> DEFINE D == S \ {x}
           s == SumFunctionOnSet(f, D)
<1>1. SumFunctionOnSet(f, D) = SumFunctionOnSet(g, D)
    BY SumSame
<1>2. s \in Int
    <2>1. IsFiniteSet(D) /\ \A y \in D : f[y] \in Int
        BY FS_Subset
    <2> QED BY <2>1, SumType
<1>3. SumFunctionOnSet(f, S) = f[x] + s
    BY SumRemove
<1>4. SumFunctionOnSet(g, S) = g[x] + s
    BY <1>1, SumRemove
<1> HIDE DEF s
<1> QED
    BY <1>2, <1>3, <1>4

-----------------------------------------------------------------------------
(***************************************************************************)
(* Types.                                                                  *)
(***************************************************************************)

LEMMA RowType ==
    ASSUME TypeOK, NEW o \in Orders
    PROVE  /\ order[o] # NoOrder => order[o] \in OrderRows
           /\ order[o] = NoOrder <=> order[o].status = "none"
<1>1. order[o] \in OrderRows \cup {NoOrder}
    BY DEF TypeOK
<1>2. \A r \in OrderRows : r.status # "none"
    BY DEF OrderRows, OrderStatus
<1>3. NoOrder.status = "none"
    BY DEF NoOrder
<1> QED
    BY <1>1, <1>2, <1>3

LEMMA RowFields ==
    ASSUME NEW r \in OrderRows
    PROVE  /\ r.status \in OrderStatus /\ r.owner \in Customers
           /\ r.promo \in BOOLEAN /\ r.points \in Nat /\ r.held \in Nat
           /\ r.hold \in HoldStatus /\ r.referral \in BOOLEAN
           /\ r.rewarded \in BOOLEAN /\ r.key \in Keys /\ r.quote \in Requestable
BY DEF OrderRows

\* What every operation on a cart does: reconcile it, in some state of it.
CartKept(c, k) ==
    /\ Reconcile(c, k)
    /\ OnlyCart
    /\ \/ UNCHANGED attribution
       \/ attribution' = [attribution EXCEPT ![c] = IF @ = "none" THEN "pending" ELSE @]

LEMMA CartSteps ==
    ASSUME TypeOK, NEW c \in Customers, CartStep(c)
    PROVE  \E k \in Carts : CartKept(c, k)
<1>1. cart[c] \in Carts
    BY DEF TypeOK
<1>2. /\ \A q \in 0..MaxQuantity : [cart[c] EXCEPT !.quantity = q] \in Carts
      /\ \A b \in BOOLEAN : [cart[c] EXCEPT !.promo = b] \in Carts
      /\ \A p \in Nat : [cart[c] EXCEPT !.points = p] \in Carts
      /\ \A b \in BOOLEAN : [cart[c] EXCEPT !.referral = b] \in Carts
    BY <1>1 DEF Carts
<1>3. CASE ViewCart(c)
    BY <1>1, <1>3 DEF ViewCart, CartKept, OnlyItems
<1>4. CASE AddItem(c)
    <2>1. PICK row \in IF cart[c].quantity > 0 THEN 1..MaxQuantity ELSE {0} :
             /\ row + 1 <= MaxQuantity
             /\ Reconcile(c, [cart[c] EXCEPT !.quantity = row + 1])
             /\ OnlyItems
        BY <1>4 DEF AddItem
    <2>2. row + 1 \in 0..MaxQuantity
        BY <2>1, LimitsAssumption
    <2> QED
        BY <1>2, <2>1, <2>2 DEF CartKept, OnlyItems
<1>5. CASE RemoveItem(c)
    BY <1>2, <1>5, LimitsAssumption DEF RemoveItem, CartKept, OnlyItems
<1>6. CASE \E quantity \in 1..MaxQuantity : UpdateItem(c, quantity)
    BY <1>2, <1>6, LimitsAssumption DEF UpdateItem, CartKept, OnlyItems
<1>7. CASE ApplyPromo(c) \/ RemovePromo(c)
    BY <1>2, <1>7 DEF ApplyPromo, RemovePromo, CartKept, OnlyItems
<1>8. CASE \E points \in 0..MaxQuantity : ApplyLoyalty(c, points)
    BY <1>2, <1>8, LimitsAssumption DEF ApplyLoyalty, CartKept, OnlyItems
<1>9. CASE ApplyReferral(c)
    BY <1>2, <1>9 DEF ApplyReferral, CartKept
<1> QED
    BY <1>3, <1>4, <1>5, <1>6, <1>7, <1>8, <1>9 DEF CartStep

LEMMA ReconcileType ==
    ASSUME TypeOK, NEW c \in Customers, NEW k \in Carts, Reconcile(c, k)
    PROVE  cart' \in [Customers -> Carts]
<1>1. PICK p \in 0..k.points :
         cart' = [cart EXCEPT ![c] =
                     [k EXCEPT !.promo = k.promo /\ PromoAllowed(k.quantity),
                               !.points = p, !.hold = p]]
    BY DEF Reconcile
<1>2. p \in Nat
    BY DEF Carts
<1>3. (k.promo /\ PromoAllowed(k.quantity)) \in BOOLEAN
    OBVIOUS
<1>4. [k EXCEPT !.promo = k.promo /\ PromoAllowed(k.quantity),
                !.points = p, !.hold = p] \in Carts
    <2> DEFINE b == k.promo /\ PromoAllowed(k.quantity)
    <2>1. b \in BOOLEAN
        OBVIOUS
    <2> HIDE DEF b
    <2>2. [k EXCEPT !.promo = b, !.points = p, !.hold = p] \in Carts
        BY <1>2, <2>1 DEF Carts
    <2> QED
        BY <2>2 DEF b
<1> QED
    BY <1>1, <1>4 DEF TypeOK

LEMMA PlacedType ==
    ASSUME TypeOK, NEW c \in Customers, NEW k \in Keys, NEW q \in Requestable
    PROVE  Placed(c, k, q) \in OrderRows
<1>1. cart[c] \in Carts
    BY DEF TypeOK
<1>2. /\ cart[c].promo \in BOOLEAN /\ cart[c].points \in Nat
      /\ cart[c].hold \in Nat /\ cart[c].referral \in BOOLEAN
    BY <1>1 DEF Carts
<1> QED
    BY <1>2 DEF Placed, OrderRows, OrderStatus, HoldStatus

LEMMA OrderStepType ==
    ASSUME TypeOK, NEW o \in Orders, OrderStep(o)
    PROVE  TypeOK'
<1>1. order[o] \in OrderRows
    BY RowType DEF OrderStep, Settle, Cancel, Refund
<1>2. order[o].owner \in Customers /\ order[o].points \in Nat /\ order[o].hold \in HoldStatus
    BY <1>1, RowFields
<1>3. \A s \in HoldStatus : Moved(o, s) \in HoldStatus
    BY <1>2 DEF Moved
<1>4. Rewards(o) \in BOOLEAN
    BY DEF Rewards
<1>5. \A x \in Customers : balance[x] \in Nat /\ clawed[x] \in Nat
    BY DEF TypeOK
<1>6. Earned \in Nat /\ Reward \in Nat
    BY PointsAssumption
<1>7. CASE Settle(o)
    <2>1. order' \in [Orders -> OrderRows \cup {NoOrder}]
        <3> DEFINE w == Rewards(o)
                   h == Moved(o, "committed")
        <3>1. w \in BOOLEAN /\ h \in HoldStatus
            BY <1>3, <1>4 DEF HoldStatus
        <3>2. order' = [order EXCEPT ![o] =
                 [order[o] EXCEPT !.status = "paid", !.hold = h, !.rewarded = w]]
            BY <1>7 DEF Settle
        <3> HIDE DEF w, h
        <3>3. [order[o] EXCEPT !.status = "paid", !.hold = h, !.rewarded = w] \in OrderRows
            BY <1>1, <3>1 DEF OrderRows, OrderStatus
        <3> QED
            BY <3>2, <3>3 DEF TypeOK
    <2>2. balance' \in [Customers -> Nat]
        <3> DEFINE gain(x) == IF x = order[o].owner THEN Earned - order[o].points ELSE 0
                   prize(x) == IF Rewards(o) /\ x = Referrer THEN Reward ELSE 0
        <3>1. balance' = [x \in Customers |-> balance[x] + gain(x) + prize(x)]
            BY <1>7 DEF Settle
        <3>2. \A x \in Customers : balance[x] + gain(x) \in Nat
            BY <1>2, <1>5, <1>6, <1>7 DEF Settle, Spendable
        <3>3. \A x \in Customers : prize(x) \in Nat
            BY <1>6
        <3> HIDE DEF gain, prize
        <3>4. \A x \in Customers : balance[x] + gain(x) + prize(x) \in Nat
            BY <3>2, <3>3
        <3> QED
            BY <3>1, <3>4
    <2>3. attribution' \in [Customers -> AttributionStatus]
        BY <1>7 DEF Settle, TypeOK, AttributionStatus
    <2>4. codeUses' \in Nat
        BY <1>7 DEF Settle, TypeOK
    <2> QED
        BY <1>7, <2>1, <2>2, <2>3, <2>4 DEF Settle, TypeOK
<1>8. CASE Cancel(o)
    <2>1. order' \in [Orders -> OrderRows \cup {NoOrder}]
        <3> DEFINE h == Moved(o, "released")
        <3>1. h \in HoldStatus
            BY <1>3 DEF HoldStatus
        <3>2. order' = [order EXCEPT ![o] =
                 [order[o] EXCEPT !.status = "cancelled", !.hold = h]]
            BY <1>8 DEF Cancel
        <3> HIDE DEF h
        <3>3. [order[o] EXCEPT !.status = "cancelled", !.hold = h] \in OrderRows
            BY <1>1, <3>1 DEF OrderRows, OrderStatus
        <3> QED
            BY <3>2, <3>3 DEF TypeOK
    <2>2. used' \in Nat
        BY <1>8 DEF Cancel, TypeOK
    <2> QED
        BY <1>8, <2>1, <2>2 DEF Cancel, TypeOK
<1>9. CASE Refund(o)
    <2>1. order' \in [Orders -> OrderRows \cup {NoOrder}]
        <3> DEFINE h == Moved(o, "refunded")
        <3>1. h \in HoldStatus
            BY <1>3 DEF HoldStatus
        <3>2. order' = [order EXCEPT ![o] =
                 [order[o] EXCEPT !.status = "refunded", !.hold = h]]
            BY <1>9 DEF Refund
        <3> HIDE DEF h
        <3>3. [order[o] EXCEPT !.status = "refunded", !.hold = h] \in OrderRows
            BY <1>1, <3>1 DEF OrderRows, OrderStatus
        <3> QED
            BY <3>2, <3>3 DEF TypeOK
    <2>2. \A x \in Customers : TakenBack(o, x) \in Nat /\ TakenBack(o, x) =< balance[x]
        BY <1>5, <1>6 DEF TakenBack
    <2>3. balance' \in [Customers -> Nat] /\ clawed' \in [Customers -> Nat]
        BY <1>2, <1>5, <1>9, <2>2 DEF Refund
    <2>4. attribution' \in [Customers -> AttributionStatus]
        BY <1>9 DEF Refund, TypeOK, AttributionStatus
    <2>5. codeUses' \in Nat
        BY <1>9 DEF Refund, TypeOK
    <2> QED
        BY <1>9, <2>1, <2>3, <2>4, <2>5 DEF Refund, TypeOK
<1> QED
    BY <1>7, <1>8, <1>9 DEF OrderStep

LEMMA InitType == Init => TypeOK
<1> SUFFICES ASSUME Init PROVE TypeOK
    OBVIOUS
<1>1. EmptyCart \in Carts
    BY LimitsAssumption DEF EmptyCart, Carts
<1> QED
    BY <1>1, PointsAssumption DEF Init, TypeOK, QuoteStatus, AttributionStatus

LEMMA TypeStep == TypeOK /\ [Next]_vars => TypeOK'
<1> SUFFICES ASSUME TypeOK, [Next]_vars PROVE TypeOK'
    OBVIOUS
<1>1. ASSUME NEW c \in Customers, CartStep(c)
      PROVE  TypeOK'
    <2>1. PICK k \in Carts : CartKept(c, k)
        BY <1>1, CartSteps
    <2>2. cart' \in [Customers -> Carts]
        BY <2>1, ReconcileType DEF CartKept
    <2>3. attribution' \in [Customers -> AttributionStatus]
        BY <2>1 DEF CartKept, TypeOK, AttributionStatus
    <2> QED
        BY <2>1, <2>2, <2>3 DEF CartKept, OnlyCart, TypeOK
<1>2. ASSUME NEW c \in Customers, QuoteStep(c)
      PROVE  TypeOK'
    <2>1. PICK q \in Quotes, s \in QuoteStatus :
             OnlyQuote /\ quote' = [quote EXCEPT ![c][q] = s]
        BY <1>2 DEF QuoteStep, CreateQuote, QuoteLapses, QuoteStatus
    <2>2. quote' \in [Customers -> [Quotes -> QuoteStatus]]
        BY <2>1 DEF TypeOK
    <2> QED
        BY <2>1, <2>2 DEF OnlyQuote, TypeOK
<1>3. ASSUME NEW c \in Customers, CheckoutStep(c)
      PROVE  TypeOK'
    <2>1. PICK k \in Keys, q \in Requestable :
             \/ CheckoutAgain(c, k, q)
             \/ \E o \in Orders : PlaceOrder(c, k, q, o)
        BY <1>3 DEF CheckoutStep
    <2>2. CASE CheckoutAgain(c, k, q)
        <3>1. misled' \in BOOLEAN
            BY <2>2 DEF CheckoutAgain
        <3> QED
            BY <2>2, <3>1 DEF CheckoutAgain, TypeOK
    <2>3. ASSUME NEW o \in Orders, PlaceOrder(c, k, q, o)
          PROVE  TypeOK'
        <3>1. order' \in [Orders -> OrderRows \cup {NoOrder}]
            BY <2>3, PlacedType DEF PlaceOrder, TypeOK
        <3>2. quote' \in [Customers -> [Quotes -> QuoteStatus]]
            <4>1. CASE q \in Quotes
                <5>1. quote' = [quote EXCEPT ![c][q] = "accepted"]
                    BY <2>3, <4>1 DEF PlaceOrder
                <5> QED
                    BY <4>1, <5>1 DEF TypeOK, QuoteStatus
            <4>2. CASE q \notin Quotes
                BY <2>3, <4>2 DEF PlaceOrder, TypeOK
            <4> QED
                BY <4>1, <4>2
        <3>3. used' \in Nat
            BY <2>3 DEF PlaceOrder, TypeOK
        <3>4. cart' \in [Customers -> Carts]
            <4>1. EmptyCart \in Carts
                BY LimitsAssumption DEF EmptyCart, Carts
            <4> QED
                BY <2>3, <4>1 DEF PlaceOrder, TypeOK
        <3> QED
            BY <2>3, <3>1, <3>2, <3>3, <3>4 DEF PlaceOrder, TypeOK
    <2> QED
        BY <2>1, <2>2, <2>3
<1>4. ASSUME NEW o \in Orders, OrderStep(o)
      PROVE  TypeOK'
    BY <1>4, OrderStepType
<1>5. CASE PromoExpires
    BY <1>5 DEF PromoExpires, TypeOK
<1>6. CASE UNCHANGED vars
    BY <1>6 DEF vars, TypeOK
<1> QED
    BY <1>1, <1>2, <1>3, <1>4, <1>5, <1>6 DEF Next

-----------------------------------------------------------------------------
(***************************************************************************)
(* The inductive invariant.  The properties need three facts that none of  *)
(* them states: an ordered quote is used up, the points of an unpaid order *)
(* are held as they are, and only a paid order carries a reward.           *)
(***************************************************************************)

PlacedOrders == {o \in Orders : order[o] # NoOrder}

\* The quote an order was placed with is not there for another.
QuotesTaken ==
    \A o \in PlacedOrders :
        order[o].quote \in Quotes =>
            quote[order[o].owner][order[o].quote] = "accepted"

\* Until it is paid or cancelled, an order holds the points it redeems.
HoldsFit ==
    \A o \in PlacedOrders :
        order[o].status = "created" /\ order[o].points > 0 =>
            order[o].held = order[o].points /\ order[o].hold = "reserved"

RewardsArePaid ==
    \A o \in PlacedOrders :
        order[o].rewarded => order[o].status \in {"paid", "refunded"}

IInv ==
    /\ TypeOK
    /\ QuotesTaken /\ HoldsFit /\ RewardsArePaid
    /\ CheckoutIsIdempotent /\ PromoCounted /\ HeldIsCovered /\ RewardedOnce

-----------------------------------------------------------------------------
(***************************************************************************)
(* What a step does to the orders: nothing, a new one, or a new status of  *)
(* one.                                                                    *)
(***************************************************************************)

\* Order o moves on and keeps what was ordered.
MovesOn(o) ==
    /\ order[o] \in OrderRows
    /\ order'[o] \in OrderRows
    /\ \A p \in Orders \ {o} : order'[p] = order[p]
    /\ order'[o].owner = order[o].owner
    /\ order'[o].promo = order[o].promo
    /\ order'[o].points = order[o].points
    /\ order'[o].held = order[o].held
    /\ order'[o].key = order[o].key
    /\ order'[o].quote = order[o].quote

LEMMA OrderStepMoves ==
    ASSUME TypeOK, NEW o \in Orders, OrderStep(o)
    PROVE  /\ MovesOn(o)
           /\ Settle(o) => /\ order'[o].status = "paid"
                           /\ order'[o].hold = Moved(o, "committed")
                           /\ order'[o].rewarded = Rewards(o)
           /\ Cancel(o) => /\ order'[o].status = "cancelled"
                           /\ order'[o].hold = Moved(o, "released")
                           /\ order'[o].rewarded = order[o].rewarded
           /\ Refund(o) => /\ order'[o].status = "refunded"
                           /\ order'[o].hold = Moved(o, "refunded")
                           /\ order'[o].rewarded = order[o].rewarded
<1>1. order[o] \in OrderRows
    BY RowType DEF OrderStep, Settle, Cancel, Refund
<1>2. order \in [Orders -> OrderRows \cup {NoOrder}]
    BY DEF TypeOK
<1>3. order'[o] \in OrderRows \cup {NoOrder}
    BY OrderStepType DEF TypeOK
<1>4. ASSUME Settle(o)
      PROVE  /\ MovesOn(o)
             /\ order'[o].status = "paid"
             /\ order'[o].hold = Moved(o, "committed")
             /\ order'[o].rewarded = Rewards(o)
    <2>1. order' = [order EXCEPT ![o] =
             [order[o] EXCEPT !.status = "paid", !.hold = Moved(o, "committed"),
                 !.rewarded = Rewards(o)]]
        BY <1>4 DEF Settle
    <2>2. order'[o] = [order[o] EXCEPT !.status = "paid", !.hold = Moved(o, "committed"),
                 !.rewarded = Rewards(o)]
        BY <1>2, <2>1
    <2>3. order'[o].status = "paid"
        BY <1>1, <2>2 DEF OrderRows
    <2>4. order'[o] \in OrderRows
        BY <1>3, <2>3 DEF NoOrder
    <2> QED
        BY <1>1, <1>2, <2>1, <2>2, <2>4 DEF MovesOn, OrderRows
<1>5. ASSUME Cancel(o)
      PROVE  /\ MovesOn(o)
             /\ order'[o].status = "cancelled"
             /\ order'[o].hold = Moved(o, "released")
             /\ order'[o].rewarded = order[o].rewarded
    <2>1. order' = [order EXCEPT ![o] =
             [order[o] EXCEPT !.status = "cancelled", !.hold = Moved(o, "released")]]
        BY <1>5 DEF Cancel
    <2>2. order'[o] = [order[o] EXCEPT !.status = "cancelled", !.hold = Moved(o, "released")]
        BY <1>2, <2>1
    <2>3. order'[o].status = "cancelled"
        BY <1>1, <2>2 DEF OrderRows
    <2>4. order'[o] \in OrderRows
        BY <1>3, <2>3 DEF NoOrder
    <2> QED
        BY <1>1, <1>2, <2>1, <2>2, <2>4 DEF MovesOn, OrderRows
<1>6. ASSUME Refund(o)
      PROVE  /\ MovesOn(o)
             /\ order'[o].status = "refunded"
             /\ order'[o].hold = Moved(o, "refunded")
             /\ order'[o].rewarded = order[o].rewarded
    <2>1. order' = [order EXCEPT ![o] =
             [order[o] EXCEPT !.status = "refunded", !.hold = Moved(o, "refunded")]]
        BY <1>6 DEF Refund
    <2>2. order'[o] = [order[o] EXCEPT !.status = "refunded", !.hold = Moved(o, "refunded")]
        BY <1>2, <2>1
    <2>3. order'[o].status = "refunded"
        BY <1>1, <2>2 DEF OrderRows
    <2>4. order'[o] \in OrderRows
        BY <1>3, <2>3 DEF NoOrder
    <2> QED
        BY <1>1, <1>2, <2>1, <2>2, <2>4 DEF MovesOn, OrderRows
<1> QED
    BY <1>4, <1>5, <1>6 DEF OrderStep

\* Order o is new.
IsPlaced(c, k, q, o) ==
    /\ order[o] = NoOrder
    /\ order'[o] = Placed(c, k, q)
    /\ order'[o] \in OrderRows
    /\ \A p \in Orders \ {o} : order'[p] = order[p]

LEMMA PlaceOrderPlaces ==
    ASSUME TypeOK, NEW c \in Customers, NEW k \in Keys, NEW q \in Requestable,
           NEW o \in Orders, PlaceOrder(c, k, q, o)
    PROVE  IsPlaced(c, k, q, o)
BY PlacedType DEF PlaceOrder, IsPlaced, TypeOK

LEMMA NotPlaced == NoOrder \notin OrderRows
BY DEF NoOrder, OrderRows, OrderStatus

\* The steps that leave the orders alone change no count or sum of them, as
\* long as what these are compared with stays too.
LEMMA Steps ==
    ASSUME TypeOK, Next
    PROVE  \/ \E c \in Customers, k \in Carts : CartKept(c, k)
           \/ \E c \in Customers, q \in Quotes : CreateQuote(c, q) \/ QuoteLapses(c, q)
           \/ \E c \in Customers, k \in Keys, q \in Requestable : CheckoutAgain(c, k, q)
           \/ \E c \in Customers, k \in Keys, q \in Requestable, o \in Orders :
                 PlaceOrder(c, k, q, o)
           \/ \E o \in Orders : OrderStep(o)
           \/ PromoExpires
<1>1. CASE \E c \in Customers : CartStep(c)
    BY <1>1, CartSteps
<1>2. CASE \E c \in Customers : QuoteStep(c)
    BY <1>2 DEF QuoteStep
<1>3. CASE \E c \in Customers : CheckoutStep(c)
    BY <1>3 DEF CheckoutStep
<1> QED
    BY <1>1, <1>2, <1>3 DEF Next

-----------------------------------------------------------------------------
(***************************************************************************)
(* Idempotent checkout.                                                    *)
(***************************************************************************)

\* A step in which no order, or quote of an order, is touched.
LEMMA RequestsKept ==
    ASSUME TypeOK, CheckoutIsIdempotent, QuotesTaken,
           \A o \in Orders :
              /\ order'[o] = NoOrder <=> order[o] = NoOrder
              /\ order[o] # NoOrder => /\ order'[o].owner = order[o].owner
                                       /\ order'[o].key = order[o].key
                                       /\ order'[o].quote = order[o].quote,
           \A c \in Customers, q \in Quotes :
              quote[c][q] = "accepted" => quote'[c][q] = "accepted",
           misled' = misled
    PROVE  CheckoutIsIdempotent' /\ QuotesTaken'
<1>1. CheckoutIsIdempotent'
    BY DEF CheckoutIsIdempotent
<1>2. ASSUME NEW o \in Orders, order[o] # NoOrder
      PROVE  order[o].owner \in Customers
    BY <1>2, RowType, RowFields
<1>3. QuotesTaken'
    BY <1>2 DEF QuotesTaken, PlacedOrders
<1> QED
    BY <1>1, <1>3

LEMMA RequestsStep ==
    ASSUME TypeOK, CheckoutIsIdempotent, QuotesTaken, [Next]_vars
    PROVE  CheckoutIsIdempotent' /\ QuotesTaken'
<1>1. CASE \E c \in Customers, k \in Carts : CartKept(c, k)
    BY <1>1, RequestsKept DEF CartKept, OnlyCart
<1>2. CASE \E c \in Customers, q \in Quotes : CreateQuote(c, q) \/ QuoteLapses(c, q)
    <2>1. PICK c \in Customers, q \in Quotes : CreateQuote(c, q) \/ QuoteLapses(c, q)
        BY <1>2
    <2>2. quote[c][q] # "accepted" /\ \E s : quote' = [quote EXCEPT ![c][q] = s]
        BY <2>1 DEF CreateQuote, QuoteLapses
    <2>3. \A x \in Customers, y \in Quotes :
              quote[x][y] = "accepted" => quote'[x][y] = "accepted"
        BY <2>2 DEF TypeOK
    <2> QED
        BY <2>1, <2>3, RequestsKept DEF CreateQuote, QuoteLapses, OnlyQuote
<1>3. CASE \E c \in Customers, k \in Keys, q \in Requestable : CheckoutAgain(c, k, q)
    <2>1. PICK c \in Customers, k \in Keys, q \in Requestable : CheckoutAgain(c, k, q)
        BY <1>3
    <2>2. misled' = misled
        BY <2>1 DEF CheckoutAgain, Repeats, TypeOK
    <2> QED
        BY <2>1, <2>2, RequestsKept DEF CheckoutAgain
<1>4. ASSUME NEW c \in Customers, NEW k \in Keys, NEW q \in Requestable, NEW o \in Orders,
             PlaceOrder(c, k, q, o)
      PROVE  CheckoutIsIdempotent' /\ QuotesTaken'
    <2>1. IsPlaced(c, k, q, o)
        BY <1>4, PlaceOrderPlaces
    <2>2. order'[o].owner = c /\ order'[o].key = k /\ order'[o].quote = q
        BY <2>1 DEF IsPlaced, Placed
    <2>3. \A p \in Orders \ {o} : order'[p] = order[p]
        BY <2>1 DEF IsPlaced
    <2>4. ASSUME NEW p \in Orders \ {o}, order[p] # NoOrder, order[p].owner = c
          PROVE  order[p].key # k /\ (q \in Quotes => order[p].quote # q)
        <3>1. order[p].key # k
            BY <1>4, <2>4 DEF PlaceOrder, Attempts
        <3>2. q \in Quotes => quote[c][q] # "accepted"
            BY <1>4 DEF PlaceOrder
        <3> QED
            BY <2>4, <3>1, <3>2 DEF QuotesTaken, PlacedOrders
    <2>5. CheckoutIsIdempotent'
        <3>1. ~misled'
            BY <1>4 DEF PlaceOrder, CheckoutIsIdempotent
        <3>2. ASSUME NEW a \in Orders, NEW b \in Orders, a # b,
                     order'[a] # NoOrder, order'[b] # NoOrder,
                     order'[a].owner = order'[b].owner
              PROVE  /\ order'[a].key # order'[b].key
                     /\ order'[a].quote \in Quotes => order'[a].quote # order'[b].quote
            <4>1. CASE a = o
                BY <2>2, <2>3, <2>4, <3>2, <4>1
            <4>2. CASE b = o
                BY <2>2, <2>3, <2>4, <3>2, <4>2
            <4>3. CASE a # o /\ b # o
                BY <2>3, <3>2, <4>3 DEF CheckoutIsIdempotent
            <4> QED
                BY <4>1, <4>2, <4>3
        <3> QED
            BY <3>1, <3>2 DEF CheckoutIsIdempotent
    <2>6. \A x \in Customers, y \in Quotes :
              quote[x][y] = "accepted" => quote'[x][y] = "accepted"
        BY <1>4 DEF PlaceOrder, TypeOK
    <2>7. q \in Quotes => quote'[c][q] = "accepted"
        BY <1>4 DEF PlaceOrder, TypeOK
    <2>8. QuotesTaken'
        <3>1. ASSUME NEW p \in Orders, order'[p] # NoOrder, order'[p].quote \in Quotes
              PROVE  quote'[order'[p].owner][order'[p].quote] = "accepted"
            <4>1. CASE p = o
                BY <2>2, <2>7, <3>1, <4>1
            <4>2. CASE p # o
                <5>1. order[p] # NoOrder /\ order'[p] = order[p]
                    BY <2>3, <3>1, <4>2
                <5>2. order[p].owner \in Customers
                    BY <5>1, RowType, RowFields
                <5> QED
                    BY <2>6, <3>1, <5>1, <5>2 DEF QuotesTaken, PlacedOrders
            <4> QED
                BY <4>1, <4>2
        <3> QED
            BY <3>1 DEF QuotesTaken, PlacedOrders
    <2> QED
        BY <2>5, <2>8
<1>5. ASSUME NEW o \in Orders, OrderStep(o)
      PROVE  CheckoutIsIdempotent' /\ QuotesTaken'
    <2>1. MovesOn(o)
        BY <1>5, OrderStepMoves
    <2>2. quote' = quote /\ misled' = misled
        BY <1>5 DEF OrderStep, Settle, Cancel, Refund
    <2>3. \A p \in Orders :
              /\ order'[p] = NoOrder <=> order[p] = NoOrder
              /\ order[p] # NoOrder => /\ order'[p].owner = order[p].owner
                                       /\ order'[p].key = order[p].key
                                       /\ order'[p].quote = order[p].quote
        BY <2>1, NotPlaced DEF MovesOn
    <2> QED
        BY <2>2, <2>3, RequestsKept
<1>6. CASE PromoExpires \/ UNCHANGED vars
    BY <1>6, RequestsKept DEF PromoExpires, vars
<1> QED
    BY <1>1, <1>2, <1>3, <1>4, <1>5, <1>6, Steps

-----------------------------------------------------------------------------
(***************************************************************************)
(* Uses of the promo code.                                                 *)
(***************************************************************************)

\* The orders that carry the promo code and were not cancelled.
Carrying == {o \in Orders : /\ order[o] # NoOrder
                            /\ order[o].status # "cancelled"
                            /\ order[o].promo}

LEMMA CarryingType == IsFiniteSet(Carrying) /\ Cardinality(Carrying) \in Nat
BY RowsAssumption, FS_Subset, FS_CardinalityType DEF Carrying

\* A step that leaves use count and carrying orders as they are.
LEMMA PromoKept ==
    ASSUME PromoCounted, used' = used, Carrying' = Carrying
    PROVE  PromoCounted'
BY DEF PromoCounted, Carrying

LEMMA PromoStep ==
    ASSUME TypeOK, PromoCounted, [Next]_vars
    PROVE  PromoCounted'
<1>1. used = Cardinality(Carrying) /\ (MaxUses > 0 => used <= MaxUses)
    BY DEF PromoCounted, Carrying
<1>2. used \in Nat /\ MaxUses \in Nat
    BY LimitsAssumption DEF TypeOK
<1>3. CASE UNCHANGED <<order, used>>
    BY <1>3, PromoKept DEF Carrying
<1>4. ASSUME NEW c \in Customers, NEW k \in Keys, NEW q \in Requestable, NEW o \in Orders,
             PlaceOrder(c, k, q, o)
      PROVE  PromoCounted'
    <2>1. IsPlaced(c, k, q, o)
        BY <1>4, PlaceOrderPlaces
    <2>2. order'[o].promo = cart[c].promo /\ order'[o].status = "created"
        BY <2>1 DEF IsPlaced, Placed
    <2>3. o \notin Carrying
        BY <2>1 DEF IsPlaced, Carrying
    <2>4. CASE cart[c].promo
        <3>1. Carrying' = Carrying \cup {o}
            BY <2>1, <2>2, <2>4, NotPlaced DEF IsPlaced, Carrying
        <3>2. Cardinality(Carrying') = Cardinality(Carrying) + 1
            BY <2>3, <3>1, CarryingType, FS_AddElement
        <3>3. used' = used + 1 /\ (MaxUses > 0 => used < MaxUses)
            BY <1>4, <2>4 DEF PlaceOrder, PromoAllowed
        <3>4. used' = Cardinality(Carrying') /\ (MaxUses > 0 => used' <= MaxUses)
            BY <1>1, <1>2, <3>2, <3>3
        <3> QED
            BY <3>4 DEF PromoCounted, Carrying
    <2>5. CASE ~cart[c].promo
        <3>1. Carrying' = Carrying
            BY <2>1, <2>2, <2>5 DEF IsPlaced, Carrying
        <3>2. used' = used
            BY <1>4, <2>5 DEF PlaceOrder
        <3> QED
            BY <3>1, <3>2, PromoKept
    <2> QED
        BY <2>4, <2>5
<1>5. ASSUME NEW o \in Orders, OrderStep(o)
      PROVE  PromoCounted'
    <2>1. MovesOn(o)
        BY <1>5, OrderStepMoves
    <2>2. CASE Settle(o) \/ Refund(o)
        <3>1. order[o].status # "cancelled" /\ order'[o].status # "cancelled"
            BY <1>5, <2>2, OrderStepMoves DEF Settle, Refund
        <3>2. Carrying' = Carrying
            BY <2>1, <3>1, NotPlaced DEF MovesOn, Carrying
        <3> QED
            BY <2>2, <3>2, PromoKept DEF Settle, Refund
    <2>3. CASE Cancel(o)
        <3>1. order[o].status = "created" /\ order'[o].status = "cancelled"
            BY <1>5, <2>3, OrderStepMoves DEF Cancel
        <3>2. CASE order[o].promo
            <4>1. o \in Carrying
                BY <2>1, <3>1, <3>2, NotPlaced DEF MovesOn, Carrying
            <4>2. Carrying' = Carrying \ {o}
                BY <2>1, <3>1 DEF MovesOn, Carrying
            <4>3. Cardinality(Carrying') = Cardinality(Carrying) - 1
                BY <4>1, <4>2, CarryingType, FS_RemoveElement
            <4>4. Cardinality(Carrying) # 0
                BY <4>1, CarryingType, FS_EmptySet
            <4>5. used' = used - 1
                BY <1>1, <1>2, <2>3, <3>2, <4>4 DEF Cancel
            <4>6. used' = Cardinality(Carrying') /\ (MaxUses > 0 => used' <= MaxUses)
                BY <1>1, <1>2, <4>3, <4>5
            <4> QED
                BY <4>6 DEF PromoCounted, Carrying
        <3>3. CASE ~order[o].promo
            <4>1. Carrying' = Carrying
                BY <2>1, <3>3 DEF MovesOn, Carrying
            <4>2. used' = used
                BY <2>3, <3>3 DEF Cancel
            <4> QED
                BY <4>1, <4>2, PromoKept
        <3> QED
            BY <3>2, <3>3
    <2> QED
        BY <1>5, <2>2, <2>3 DEF OrderStep
<1>6. CASE UNCHANGED vars
    BY <1>3, <1>6 DEF vars
<1>7. CASE \E c \in Customers, k \in Carts : CartKept(c, k)
    BY <1>3, <1>7 DEF CartKept, OnlyCart
<1>8. CASE \E c \in Customers, q \in Quotes : CreateQuote(c, q) \/ QuoteLapses(c, q)
    BY <1>3, <1>8 DEF CreateQuote, QuoteLapses, OnlyQuote
<1>9. CASE \E c \in Customers, k \in Keys, q \in Requestable : CheckoutAgain(c, k, q)
    BY <1>3, <1>9 DEF CheckoutAgain
<1>10. CASE PromoExpires
    BY <1>3, <1>10 DEF PromoExpires
<1> QED
    BY <1>4, <1>5, <1>6, <1>7, <1>8, <1>9, <1>10, Steps

-----------------------------------------------------------------------------
(***************************************************************************)
(* Holds.                                                                  *)
(***************************************************************************)

\* The hold follows the points, and only settlement rewards.
LEMMA RowsStep ==
    ASSUME TypeOK, HoldsFit, RewardsArePaid, [Next]_vars
    PROVE  HoldsFit' /\ RewardsArePaid'
<1>1. CASE UNCHANGED order
    BY <1>1 DEF HoldsFit, RewardsArePaid, PlacedOrders
<1>2. ASSUME NEW c \in Customers, NEW k \in Keys, NEW q \in Requestable, NEW o \in Orders,
             PlaceOrder(c, k, q, o)
      PROVE  HoldsFit' /\ RewardsArePaid'
    <2>1. IsPlaced(c, k, q, o)
        BY <1>2, PlaceOrderPlaces
    <2>2. cart[c].points \in Nat
        BY DEF TypeOK, Carts
    <2>3. /\ ~order'[o].rewarded
          /\ order'[o].points > 0 =>
                order'[o].held = order'[o].points /\ order'[o].hold = "reserved"
        BY <2>1, <2>2 DEF IsPlaced, Placed
    <2>4. HoldsFit'
        BY <2>1, <2>3 DEF IsPlaced, HoldsFit, PlacedOrders
    <2>5. RewardsArePaid'
        BY <2>1, <2>3 DEF IsPlaced, RewardsArePaid, PlacedOrders
    <2> QED
        BY <2>4, <2>5
<1>3. ASSUME NEW o \in Orders, OrderStep(o)
      PROVE  HoldsFit' /\ RewardsArePaid'
    <2>1. MovesOn(o)
        BY <1>3, OrderStepMoves
    <2>2. order'[o].status # "created"
        BY <1>3, OrderStepMoves DEF OrderStep
    <2>3. order'[o].rewarded => order'[o].status \in {"paid", "refunded"}
        <3>1. CASE Settle(o) \/ Refund(o)
            BY <1>3, <3>1, OrderStepMoves
        <3>2. CASE Cancel(o)
            <4>1. order'[o].rewarded = order[o].rewarded /\ order[o].status = "created"
                BY <1>3, <3>2, OrderStepMoves DEF Cancel
            <4> QED
                BY <2>1, <4>1, NotPlaced DEF MovesOn, RewardsArePaid, PlacedOrders
        <3> QED
            BY <1>3, <3>1, <3>2 DEF OrderStep
    <2>4. HoldsFit'
        BY <2>1, <2>2 DEF MovesOn, HoldsFit, PlacedOrders
    <2>5. RewardsArePaid'
        BY <2>1, <2>3 DEF MovesOn, RewardsArePaid, PlacedOrders
    <2> QED
        BY <2>4, <2>5
<1>4. CASE UNCHANGED vars
    BY <1>1, <1>4 DEF vars
<1>5. CASE \E c \in Customers, k \in Carts : CartKept(c, k)
    BY <1>1, <1>5 DEF CartKept, OnlyCart
<1>6. CASE \E c \in Customers, q \in Quotes : CreateQuote(c, q) \/ QuoteLapses(c, q)
    BY <1>1, <1>6 DEF CreateQuote, QuoteLapses, OnlyQuote
<1>7. CASE \E c \in Customers, k \in Keys, q \in Requestable : CheckoutAgain(c, k, q)
    BY <1>1, <1>7 DEF CheckoutAgain
<1>8. CASE PromoExpires
    BY <1>1, <1>8 DEF PromoExpires
<1> QED
    BY <1>2, <1>3, <1>4, <1>5, <1>6, <1>7, <1>8, Steps

LEMMA HeldType ==
    ASSUME TypeOK, NEW c \in Customers, NEW o \in Orders
    PROVE  HeldFor(c, o) \in Nat
BY RowType, RowFields DEF HeldFor

LEMMA ReservedType ==
    ASSUME TypeOK, NEW c \in Customers
    PROVE  ReservedByOrders(c) \in Int
<1> DEFINE f == [o \in Orders |-> HeldFor(c, o)]
<1>1. ReservedByOrders(c) = SumFunctionOnSet(f, Orders)
    BY DEF ReservedByOrders, SumFunction
<1>2. \A o \in Orders : f[o] \in Int
    BY HeldType
<1> HIDE DEF f
<1> QED
    BY <1>1, <1>2, RowsAssumption, SumType

\* What one order's change does to the points reserved for c.
LEMMA ReservedChange ==
    ASSUME TypeOK, TypeOK', NEW c \in Customers, NEW o \in Orders,
           \A p \in Orders \ {o} : order'[p] = order[p]
    PROVE  ReservedByOrders(c)' = ReservedByOrders(c) - HeldFor(c, o) + HeldFor(c, o)'
<1> DEFINE f == [p \in Orders |-> HeldFor(c, p)]
           g == [p \in Orders |-> HeldFor(c, p)']
<1>1. /\ ReservedByOrders(c) = SumFunctionOnSet(f, Orders)
      /\ ReservedByOrders(c)' = SumFunctionOnSet(g, Orders)
    BY DEF ReservedByOrders, SumFunction
<1>2. \A p \in Orders : f[p] \in Int /\ g[p] \in Int
    <2>1. \A p \in Orders : HeldFor(c, p) \in Nat
        BY HeldType
    <2>2. ASSUME NEW p \in Orders
          PROVE  HeldFor(c, p)' \in Nat
        <3>1. order'[p] \in OrderRows \cup {NoOrder}
            BY DEF TypeOK
        <3> QED
            BY <3>1, RowFields DEF HeldFor
    <2> QED
        BY <2>1, <2>2
<1>3. \A p \in Orders \ {o} : f[p] = g[p]
    BY DEF HeldFor
<1>4. f[o] = HeldFor(c, o) /\ g[o] = HeldFor(c, o)'
    OBVIOUS
<1> HIDE DEF f, g
<1>5. SumFunctionOnSet(g, Orders) = SumFunctionOnSet(f, Orders) - f[o] + g[o]
    BY <1>2, <1>3, RowsAssumption, SumChange
<1> QED
    BY <1>1, <1>4, <1>5

\* The points of x that its cart and its orders hold are covered.
Covered(x) == ReservedByOrders(x) + cart[x].hold <= balance[x] + clawed[x]

LEMMA Numbers ==
    ASSUME TypeOK, NEW x \in Customers
    PROVE  /\ cart[x].hold \in Nat /\ cart[x].points \in Nat
           /\ balance[x] \in Nat /\ clawed[x] \in Nat
BY DEF TypeOK, Carts

\* A cart's hold is given anew for what the balance leaves.
LEMMA CoveredCart ==
    ASSUME TypeOK, NEW x \in Customers, Covered(x),
           NEW c \in Customers, NEW k \in Carts, CartKept(c, k)
    PROVE  Covered(x)'
<1>1. PICK p \in 0..k.points :
         /\ p > 0 => Affordable(c, k.quantity, p)
         /\ cart' = [cart EXCEPT ![c] =
                        [k EXCEPT !.promo = k.promo /\ PromoAllowed(k.quantity),
                                  !.points = p, !.hold = p]]
    BY DEF CartKept, Reconcile
<1>2. p \in Nat
    BY DEF Carts
<1>3. cart'[x].hold = IF x = c THEN p ELSE cart[x].hold
    BY <1>1 DEF TypeOK, Carts
<1>4. /\ ReservedByOrders(x)' = ReservedByOrders(x)
      /\ balance' = balance /\ clawed' = clawed
    BY DEF CartKept, OnlyCart, ReservedByOrders, HeldFor
<1>5. ReservedByOrders(x) + (IF x = c THEN p ELSE cart[x].hold) <= balance[x] + clawed[x]
    <2>1. CASE x = c /\ p > 0
        BY <1>1, <1>2, <2>1, Numbers, ReservedType DEF Affordable
    <2>2. CASE x = c /\ p = 0
        BY <2>2, Numbers, ReservedType DEF Covered
    <2>3. CASE x # c
        BY <2>3 DEF Covered
    <2> QED
        BY <1>2, <2>1, <2>2, <2>3
<1> QED
    BY <1>3, <1>4, <1>5 DEF Covered

\* The hold of a placed order is the one its cart had, or is affordable.
LEMMA CoveredPlaced ==
    ASSUME TypeOK, TypeOK', NEW x \in Customers, Covered(x),
           NEW c \in Customers, NEW k \in Keys, NEW q \in Requestable, NEW o \in Orders,
           PlaceOrder(c, k, q, o)
    PROVE  Covered(x)'
<1>1. IsPlaced(c, k, q, o)
    BY PlaceOrderPlaces
<1> DEFINE held == IF cart[c].points > 0 THEN cart[c].points ELSE cart[c].hold
<1>2. held \in Nat
    BY Numbers
<1>3. /\ order'[o] # NoOrder /\ order'[o].owner = c /\ order'[o].held = held
      /\ order'[o].hold = IF held > 0 THEN "reserved" ELSE "none"
    <2>1. order'[o] = Placed(c, k, q) /\ order'[o] # NoOrder
        BY <1>1, NotPlaced DEF IsPlaced
    <2>2. Placed(c, k, q).owner = c
        BY DEF Placed
    <2>3. /\ Placed(c, k, q).held = held
          /\ Placed(c, k, q).hold = IF held > 0 THEN "reserved" ELSE "none"
        BY DEF Placed
    <2> HIDE DEF held
    <2> QED
        BY <2>1, <2>2, <2>3
<1>4. HeldFor(x, o)' = IF x = c THEN held ELSE 0
    <2> HIDE DEF held
    <2> QED BY <1>2, <1>3 DEF HeldFor
<1>5. HeldFor(x, o) = 0
    BY <1>1 DEF IsPlaced, HeldFor
<1>6. ReservedByOrders(x)' = ReservedByOrders(x) - HeldFor(x, o) + HeldFor(x, o)'
    BY <1>1, ReservedChange DEF IsPlaced
<1>7. balance' = balance /\ clawed' = clawed
    BY DEF PlaceOrder
<1>8. cart'[x].hold = IF x = c THEN 0 ELSE cart[x].hold
    BY DEF PlaceOrder, TypeOK, EmptyCart
<1>9. x = c => ReservedByOrders(c) + held <= balance[c] + clawed[c]
    <2>1. CASE cart[c].points > 0
        <3>1. ReservedByOrders(c) + cart[c].points <= balance[c]
            BY <2>1 DEF PlaceOrder, Affordable
        <3> QED
            BY <2>1, <3>1, Numbers, ReservedType
    <2>2. CASE ~(cart[c].points > 0)
        BY <2>2 DEF Covered
    <2> QED
        BY <2>1, <2>2
<1>10. ReservedByOrders(x) \in Int /\ balance[x] \in Nat /\ clawed[x] \in Nat
    BY Numbers, ReservedType
<1> HIDE DEF held
<1>11. CASE x = c
    <2>1. ReservedByOrders(x)' = ReservedByOrders(x) + held /\ cart'[x].hold = 0
        BY <1>2, <1>4, <1>5, <1>6, <1>8, <1>10, <1>11
    <2>2. ReservedByOrders(x)' + cart'[x].hold <= balance'[x] + clawed'[x]
        BY <1>2, <1>7, <1>9, <1>10, <1>11, <2>1
    <2> QED
        BY <2>2 DEF Covered
<1>12. CASE x # c
    <2>1. ReservedByOrders(x)' = ReservedByOrders(x) /\ cart'[x].hold = cart[x].hold
        BY <1>4, <1>5, <1>6, <1>8, <1>10, <1>12
    <2> QED
        BY <1>7, <2>1 DEF Covered
<1> QED
    BY <1>11, <1>12

\* An order's hold grows by no more than there is more to spend.
LEMMA CoveredOrder ==
    ASSUME TypeOK, TypeOK', NEW x \in Customers, Covered(x), NEW o \in Orders, MovesOn(o),
           cart' = cart,
           HeldFor(x, o)' + (balance[x] + clawed[x])
              <= HeldFor(x, o) + (balance'[x] + clawed'[x])
    PROVE  Covered(x)'
<1>1. ReservedByOrders(x)' = ReservedByOrders(x) - HeldFor(x, o) + HeldFor(x, o)'
    BY ReservedChange DEF MovesOn
<1>2. ReservedByOrders(x) \in Int /\ HeldFor(x, o) \in Int
    BY ReservedType, HeldType
<1>3. /\ balance[x] \in Int /\ clawed[x] \in Int /\ cart[x].hold \in Int
      /\ balance'[x] \in Int /\ clawed'[x] \in Int
    BY Numbers DEF TypeOK
<1>4. HeldFor(x, o)' \in Int
    BY RowFields DEF MovesOn, HeldFor
<1>5. ReservedByOrders(x)' + cart'[x].hold <= balance'[x] + clawed'[x]
    BY <1>1, <1>2, <1>3, <1>4 DEF Covered
<1> QED
    BY <1>5 DEF Covered

LEMMA CoveredOrderStep ==
    ASSUME TypeOK, TypeOK', HoldsFit, NEW x \in Customers, Covered(x),
           NEW o \in Orders, OrderStep(o)
    PROVE  Covered(x)'
<1>1. MovesOn(o)
    BY OrderStepMoves
<1>2. cart' = cart
    BY DEF OrderStep, Settle, Cancel, Refund
<1>3. /\ balance[x] \in Nat /\ clawed[x] \in Nat /\ HeldFor(x, o) \in Nat
      /\ order[o].points \in Nat /\ order[o].held \in Nat
      /\ Earned \in Nat /\ Reward \in Nat
    BY <1>1, Numbers, HeldType, RowFields, PointsAssumption DEF MovesOn
\* A hold that moved is no longer reserved.
<1>4. ASSUME NEW s, s # "reserved", order'[o].hold = Moved(o, s)
      PROVE  HeldFor(x, o)' = IF order[o].points > 0 THEN 0 ELSE HeldFor(x, o)
    BY <1>1, <1>3, <1>4, NotPlaced DEF MovesOn, HeldFor, Moved
<1>5. CASE Settle(o)
    <2>1. HeldFor(x, o)' = IF order[o].points > 0 THEN 0 ELSE HeldFor(x, o)
        BY <1>4, <1>5, OrderStepMoves
    <2>2. order[o].status = "created" /\ clawed' = clawed
        BY <1>5 DEF Settle
    <2>3. order[o].points > 0 /\ x = order[o].owner => HeldFor(x, o) = order[o].points
        BY <1>1, <2>2, NotPlaced DEF MovesOn, HoldsFit, PlacedOrders, HeldFor
    <2>4. balance'[x] >= balance[x] - (IF x = order[o].owner THEN order[o].points ELSE 0)
        <3> DEFINE gain == IF x = order[o].owner THEN Earned - order[o].points ELSE 0
                   prize == IF Rewards(o) /\ x = Referrer THEN Reward ELSE 0
        <3>1. balance'[x] = balance[x] + gain + prize
            BY <1>5 DEF Settle
        <3>2. prize \in Nat
            BY <1>3
        <3> HIDE DEF prize
        <3> QED
            BY <1>3, <3>1, <3>2
    <2>5. balance'[x] \in Nat
        BY DEF TypeOK
    <2>6. HeldFor(x, o)' + (balance[x] + clawed[x])
             <= HeldFor(x, o) + (balance'[x] + clawed'[x])
        BY <1>3, <2>1, <2>2, <2>3, <2>4, <2>5
    <2> QED
        BY <1>1, <1>2, <2>6, CoveredOrder
<1>6. CASE Cancel(o)
    <2>1. HeldFor(x, o)' = IF order[o].points > 0 THEN 0 ELSE HeldFor(x, o)
        BY <1>4, <1>6, OrderStepMoves
    <2>2. balance' = balance /\ clawed' = clawed
        BY <1>6 DEF Cancel
    <2>3. HeldFor(x, o)' + (balance[x] + clawed[x])
             <= HeldFor(x, o) + (balance'[x] + clawed'[x])
        BY <1>3, <2>1, <2>2
    <2> QED
        BY <1>1, <1>2, <2>3, CoveredOrder
<1>7. CASE Refund(o)
    <2>1. HeldFor(x, o)' = IF order[o].points > 0 THEN 0 ELSE HeldFor(x, o)
        BY <1>4, <1>7, OrderStepMoves
    <2> DEFINE back == TakenBack(o, x)
               restored == IF x = order[o].owner THEN order[o].points ELSE 0
    <2>2. balance'[x] = balance[x] - back + restored /\ clawed'[x] = clawed[x] + back
        BY <1>7 DEF Refund
    <2>3. back \in Nat /\ restored \in Nat
        BY <1>3 DEF TakenBack
    <2> HIDE DEF back, restored
    <2>4. HeldFor(x, o)' + (balance[x] + clawed[x])
             <= HeldFor(x, o) + (balance'[x] + clawed'[x])
        BY <1>3, <2>1, <2>2, <2>3
    <2> QED
        BY <1>1, <1>2, <2>4, CoveredOrder
<1> QED
    BY <1>5, <1>6, <1>7 DEF OrderStep

LEMMA CoveredStep ==
    ASSUME TypeOK, HoldsFit, HeldIsCovered, [Next]_vars
    PROVE  HeldIsCovered'
<1>1. TypeOK'
    BY TypeStep
<1>2. SUFFICES ASSUME NEW x \in Customers
               PROVE  Covered(x)'
    BY DEF HeldIsCovered, Covered
<1>3. Covered(x)
    BY DEF HeldIsCovered, Covered
<1>4. CASE UNCHANGED <<order, cart, balance, clawed>>
    BY <1>3, <1>4 DEF Covered, ReservedByOrders, HeldFor
<1>5. CASE \E c \in Customers, k \in Carts : CartKept(c, k)
    BY <1>3, <1>5, CoveredCart
<1>6. CASE \E c \in Customers, k \in Keys, q \in Requestable, o \in Orders : PlaceOrder(c, k, q, o)
    BY <1>1, <1>3, <1>6, CoveredPlaced
<1>7. CASE \E o \in Orders : OrderStep(o)
    BY <1>1, <1>3, <1>7, CoveredOrderStep
<1>8. CASE \E c \in Customers, q \in Quotes : CreateQuote(c, q) \/ QuoteLapses(c, q)
    BY <1>4, <1>8 DEF CreateQuote, QuoteLapses, OnlyQuote
<1>9. CASE \E c \in Customers, k \in Keys, q \in Requestable : CheckoutAgain(c, k, q)
    BY <1>4, <1>9 DEF CheckoutAgain
<1>10. CASE PromoExpires
    BY <1>4, <1>10 DEF PromoExpires
<1>11. CASE UNCHANGED vars
    BY <1>4, <1>11 DEF vars
<1> QED
    BY <1>5, <1>6, <1>7, <1>8, <1>9, <1>10, <1>11, Steps

-----------------------------------------------------------------------------
(***************************************************************************)
(* Referral rewards.                                                       *)
(***************************************************************************)

\* The orders of c that rewarded the referrer, and the friends that did.
Rewarding(c) == {o \in Orders : /\ order[o] # NoOrder
                                /\ order[o].owner = c
                                /\ order[o].rewarded}
Friends == {c \in Customers : attribution[c] = "rewarded"}

\* The attribution of c tells whether it has such an order.
RewardFits(c) ==
    /\ Cardinality(Rewarding(c)) =
          IF attribution[c] \in {"rewarded", "reversed"} THEN 1 ELSE 0
    /\ attribution[c] = "rewarded" => \A o \in Rewarding(c) : order[o].status = "paid"

LEMMA RewardParts ==
    /\ RewardedOnce <=> (\A c \in Customers : RewardFits(c)) /\ codeUses = Cardinality(Friends)
    /\ RewardedOnce' <=>
          (\A c \in Customers : RewardFits(c)') /\ codeUses' = Cardinality(Friends')
BY DEF RewardedOnce, RewardFits, Rewarding, Friends

LEMMA RewardTypes ==
    ASSUME NEW c \in Customers
    PROVE  /\ IsFiniteSet(Rewarding(c)) /\ Cardinality(Rewarding(c)) \in Nat
           /\ IsFiniteSet(Friends) /\ Cardinality(Friends) \in Nat
<1>1. Rewarding(c) \subseteq Orders /\ Friends \subseteq Customers
    BY DEF Rewarding, Friends
<1> QED
    BY <1>1, RowsAssumption, FS_Subset, FS_CardinalityType

\* A step that rewards nobody and takes no reward back.
LEMMA RewardsKept ==
    ASSUME RewardedOnce, codeUses' = codeUses,
           \A c \in Customers :
              /\ Rewarding(c)' = Rewarding(c)
              /\ \A o \in Rewarding(c) : attribution[c] = "rewarded" =>
                    order'[o].status = order[o].status
              /\ attribution'[c] = attribution[c]
                 \/ {attribution[c], attribution'[c]} \subseteq {"none", "pending", "ineligible"}
    PROVE  RewardedOnce'
<1>1. ASSUME NEW c \in Customers
      PROVE  RewardFits(c)'
    <2>1. RewardFits(c)
        BY RewardParts
    <2>2. Cardinality(Rewarding(c)') = Cardinality(Rewarding(c))
        OBVIOUS
    <2>3. attribution'[c] \in {"rewarded", "reversed"} <=> attribution[c] \in {"rewarded", "reversed"}
        OBVIOUS
    <2>4. attribution'[c] = "rewarded" => attribution[c] = "rewarded"
        OBVIOUS
    <2> QED
        BY <2>1, <2>2, <2>3, <2>4 DEF RewardFits
<1>2. Friends' = Friends
    BY DEF Friends
<1> QED
    BY <1>1, <1>2, RewardParts

\* Settlement, which rewards the friend's first paid order.
LEMMA RewardsSettle ==
    ASSUME TypeOK, RewardsArePaid, RewardedOnce, NEW o \in Orders, Settle(o)
    PROVE  RewardedOnce'
<1>1. MovesOn(o) /\ order'[o].status = "paid" /\ order'[o].rewarded = Rewards(o)
    BY OrderStepMoves DEF OrderStep
<1>2. PICK c \in Customers : c = order[o].owner
    BY <1>1, RowFields DEF MovesOn
<1>3. ~order[o].rewarded
    <2>1. order[o].status = "created" /\ order[o] # NoOrder
        BY <1>1, NotPlaced DEF Settle, MovesOn
    <2> QED
        BY <2>1 DEF RewardsArePaid, PlacedOrders
<1>4. \A x \in Customers : o \notin Rewarding(x)
    BY <1>3 DEF Rewarding
<1>5. CASE Rewards(o)
    <2>1. attribution[c] = "pending"
        BY <1>2, <1>5 DEF Rewards
    <2>2. attribution' = [attribution EXCEPT ![c] = "rewarded"] /\ codeUses' = codeUses + 1
        BY <1>2, <1>5, <2>1 DEF Settle
    <2>3. attribution'[c] = "rewarded" /\ \A x \in Customers \ {c} : attribution'[x] = attribution[x]
        BY <1>2, <2>2 DEF TypeOK
    <2>4. Rewarding(c) = {}
        <3>1. Cardinality(Rewarding(c)) = 0
            BY <1>2, <2>1, RewardParts DEF RewardFits
        <3> QED
            BY <1>2, <3>1, RewardTypes, FS_EmptySet
    <2>5. Rewarding(c)' = {o}
        <3>1. o \in Rewarding(c)'
            BY <1>1, <1>2, <1>5, NotPlaced DEF MovesOn, Rewarding
        <3>2. \A p \in Rewarding(c)' : p = o \/ p \in Rewarding(c)
            BY <1>1, <1>2 DEF MovesOn, Rewarding
        <3> QED
            BY <2>4, <3>1, <3>2
    <2>6. RewardFits(c)'
        <3>1. Cardinality(Rewarding(c)') = 1
            BY <2>5, FS_Singleton
        <3> QED
            BY <1>1, <2>3, <2>5, <3>1 DEF RewardFits
    <2>7. ASSUME NEW x \in Customers \ {c}
          PROVE  RewardFits(x)'
        <3>1. Rewarding(x)' = Rewarding(x)
            BY <1>1, <1>2, <1>4 DEF MovesOn, Rewarding
        <3>2. \A p \in Rewarding(x) : order'[p] = order[p]
            BY <1>1, <1>4 DEF MovesOn, Rewarding
        <3>3. RewardFits(x)
            BY RewardParts
        <3> QED
            BY <2>3, <3>1, <3>2, <3>3 DEF RewardFits
    <2>8. codeUses' = Cardinality(Friends')
        <3>1. c \notin Friends /\ Friends' = Friends \cup {c}
            BY <1>2, <2>1, <2>3 DEF Friends
        <3>2. Cardinality(Friends') = Cardinality(Friends) + 1
            BY <1>2, <3>1, RewardTypes, FS_AddElement
        <3> QED
            BY <2>2, <3>2, RewardParts
    <2> QED
        BY <2>6, <2>7, <2>8, RewardParts
<1>6. CASE ~Rewards(o)
    <2>1. codeUses' = codeUses
        BY <1>6 DEF Settle
    <2>2. \A x \in Customers :
              \/ attribution'[x] = attribution[x]
              \/ attribution[x] = "pending" /\ attribution'[x] = "ineligible"
        BY <1>6 DEF Settle, TypeOK
    <2>3. \A x \in Customers : Rewarding(x)' = Rewarding(x)
        BY <1>1, <1>4, <1>6 DEF MovesOn, Rewarding
    <2>4. \A x \in Customers : \A p \in Rewarding(x) : order'[p].status = order[p].status
        BY <1>1, <1>4 DEF MovesOn, Rewarding
    <2> QED
        BY <2>1, <2>2, <2>3, <2>4, RewardsKept
<1> QED
    BY <1>5, <1>6

\* A full refund, which takes the reward of its order back.
LEMMA RewardsRefund ==
    ASSUME TypeOK, RewardedOnce, NEW o \in Orders, Refund(o)
    PROVE  RewardedOnce'
<1>1. MovesOn(o) /\ order'[o].rewarded = order[o].rewarded
    BY OrderStepMoves DEF OrderStep
<1>2. PICK c \in Customers : c = order[o].owner
    BY <1>1, RowFields DEF MovesOn
<1>3. \A x \in Customers : Rewarding(x)' = Rewarding(x)
    BY <1>1, NotPlaced DEF MovesOn, Rewarding
<1>4. CASE order[o].rewarded /\ attribution[c] = "rewarded"
    <2>1. attribution' = [attribution EXCEPT ![c] = "reversed"]
        BY <1>2, <1>4 DEF Refund
    <2>2. attribution'[c] = "reversed" /\ \A x \in Customers \ {c} : attribution'[x] = attribution[x]
        BY <1>2, <2>1 DEF TypeOK
    <2>3. RewardFits(c)'
        <3>1. RewardFits(c)
            BY <1>2, RewardParts
        <3>2. Cardinality(Rewarding(c)') = 1
            BY <1>2, <1>3, <1>4, <3>1 DEF RewardFits
        <3> QED
            BY <2>2, <3>2 DEF RewardFits
    <2>4. ASSUME NEW x \in Customers \ {c}
          PROVE  RewardFits(x)'
        <3>1. \A p \in Rewarding(x) : order'[p] = order[p]
            BY <1>1, <1>2 DEF MovesOn, Rewarding
        <3>2. RewardFits(x)
            BY RewardParts
        <3> QED
            BY <1>3, <2>2, <3>1, <3>2 DEF RewardFits
    <2>5. codeUses' = Cardinality(Friends')
        <3>1. c \in Friends /\ Friends' = Friends \ {c}
            BY <1>2, <1>4, <2>2 DEF Friends
        <3>2. Cardinality(Friends') = Cardinality(Friends) - 1
            BY <1>2, <3>1, RewardTypes, FS_RemoveElement
        <3>3. codeUses = Cardinality(Friends)
            BY RewardParts
        <3>4. Cardinality(Friends) \in Nat /\ Cardinality(Friends) # 0
            BY <1>2, <3>1, RewardTypes, FS_EmptySet
        <3>5. codeUses' = codeUses - 1
            BY <1>2, <1>4, <3>3, <3>4 DEF Refund
        <3> QED
            BY <3>2, <3>3, <3>5
    <2> QED
        BY <2>3, <2>4, <2>5, RewardParts
<1>5. CASE ~(order[o].rewarded /\ attribution[c] = "rewarded")
    <2>1. codeUses' = codeUses /\ attribution' = attribution
        BY <1>2, <1>5 DEF Refund
    <2>2. ASSUME NEW x \in Customers, NEW p \in Rewarding(x), attribution[x] = "rewarded"
          PROVE  order'[p].status = order[p].status
        <3>1. p # o
            BY <1>2, <1>5, <2>2 DEF Rewarding
        <3> QED
            BY <1>1, <3>1 DEF MovesOn, Rewarding
    <2> QED
        BY <1>3, <2>1, <2>2, RewardsKept
<1> QED
    BY <1>4, <1>5

LEMMA RewardsStep ==
    ASSUME TypeOK, RewardsArePaid, RewardedOnce, [Next]_vars
    PROVE  RewardedOnce'
<1>1. CASE UNCHANGED <<order, attribution, codeUses>>
    BY <1>1, RewardsKept DEF Rewarding
<1>2. ASSUME NEW c \in Customers, NEW k \in Carts, CartKept(c, k)
      PROVE  RewardedOnce'
    <2>1. order' = order /\ codeUses' = codeUses
        BY <1>2 DEF CartKept, OnlyCart
    <2>2. \A x \in Customers :
              \/ attribution'[x] = attribution[x]
              \/ attribution[x] = "none" /\ attribution'[x] = "pending"
        BY <1>2 DEF CartKept, TypeOK
    <2>3. \A x \in Customers : Rewarding(x)' = Rewarding(x)
        BY <2>1 DEF Rewarding
    <2> QED
        BY <2>1, <2>2, <2>3, RewardsKept
<1>3. ASSUME NEW c \in Customers, NEW k \in Keys, NEW q \in Requestable, NEW o \in Orders,
             PlaceOrder(c, k, q, o)
      PROVE  RewardedOnce'
    <2>1. IsPlaced(c, k, q, o)
        BY <1>3, PlaceOrderPlaces
    <2>2. ~order'[o].rewarded
        BY <2>1 DEF IsPlaced, Placed
    <2>3. \A x \in Customers : Rewarding(x)' = Rewarding(x)
        BY <2>1, <2>2 DEF IsPlaced, Rewarding
    <2>4. \A x \in Customers : \A p \in Rewarding(x) : order'[p].status = order[p].status
        BY <2>1 DEF IsPlaced, Rewarding
    <2> QED
        BY <1>3, <2>3, <2>4, RewardsKept DEF PlaceOrder
<1>4. ASSUME NEW o \in Orders, Cancel(o)
      PROVE  RewardedOnce'
    <2>1. MovesOn(o) /\ order'[o].rewarded = order[o].rewarded
        BY <1>4, OrderStepMoves DEF OrderStep
    <2>2. ~order[o].rewarded
        BY <1>4, <2>1, NotPlaced DEF Cancel, MovesOn, RewardsArePaid, PlacedOrders
    <2>3. \A x \in Customers : Rewarding(x)' = Rewarding(x)
        BY <2>1, <2>2 DEF MovesOn, Rewarding
    <2>4. \A x \in Customers : \A p \in Rewarding(x) : order'[p].status = order[p].status
        BY <2>1, <2>2 DEF MovesOn, Rewarding
    <2> QED
        BY <1>4, <2>3, <2>4, RewardsKept DEF Cancel
<1>5. CASE \E o \in Orders : OrderStep(o)
    BY <1>4, <1>5, RewardsSettle, RewardsRefund DEF OrderStep
<1>6. CASE \E c \in Customers, q \in Quotes : CreateQuote(c, q) \/ QuoteLapses(c, q)
    BY <1>1, <1>6 DEF CreateQuote, QuoteLapses, OnlyQuote
<1>7. CASE \E c \in Customers, k \in Keys, q \in Requestable : CheckoutAgain(c, k, q)
    BY <1>1, <1>7 DEF CheckoutAgain
<1>8. CASE PromoExpires
    BY <1>1, <1>8 DEF PromoExpires
<1>9. CASE UNCHANGED vars
    BY <1>1, <1>9 DEF vars
<1> QED
    BY <1>2, <1>3, <1>5, <1>6, <1>7, <1>8, <1>9, Steps

-----------------------------------------------------------------------------
(***************************************************************************)
(* The theorems.                                                           *)
(***************************************************************************)

LEMMA InitInv == Init => IInv
<1> SUFFICES ASSUME Init PROVE IInv
    OBVIOUS
<1>1. TypeOK
    BY InitType
<1>2. \A o \in Orders : order[o] = NoOrder
    BY DEF Init
<1>3. QuotesTaken /\ HoldsFit /\ RewardsArePaid /\ CheckoutIsIdempotent
    BY <1>2 DEF Init, QuotesTaken, HoldsFit, RewardsArePaid, CheckoutIsIdempotent, PlacedOrders
<1>4. PromoCounted
    <2>1. Carrying = {}
        BY <1>2 DEF Carrying
    <2>2. used = Cardinality(Carrying) /\ (MaxUses > 0 => used <= MaxUses)
        BY <2>1, FS_EmptySet, LimitsAssumption DEF Init
    <2> QED
        BY <2>2 DEF PromoCounted, Carrying
<1>5. HeldIsCovered
    <2>1. ASSUME NEW x \in Customers
          PROVE  Covered(x)
        <3> DEFINE f == [o \in Orders |-> HeldFor(x, o)]
        <3>1. ReservedByOrders(x) = SumFunctionOnSet(f, Orders)
            BY DEF ReservedByOrders, SumFunction
        <3>2. \A o \in Orders : f[o] = 0
            BY <1>2 DEF HeldFor
        <3>3. SumFunctionOnSet(f, Orders) = 0
            <4> HIDE DEF f
            <4> QED BY <3>2, RowsAssumption, SumZero
        <3>4. cart[x].hold = 0
            BY DEF Init, EmptyCart
        <3> QED
            BY <1>1, <3>1, <3>3, <3>4, Numbers DEF Covered
    <2> QED
        BY <2>1 DEF HeldIsCovered, Covered
<1>6. RewardedOnce
    <2>1. \A c \in Customers : Rewarding(c) = {}
        BY <1>2 DEF Rewarding
    <2>2. \A c \in Customers : attribution[c] = "none"
        BY DEF Init
    <2>3. Friends = {} /\ codeUses = 0
        BY <2>2 DEF Friends, Init
    <2>4. \A c \in Customers : RewardFits(c)
        BY <2>1, <2>2, FS_EmptySet DEF RewardFits
    <2> QED
        BY <2>3, <2>4, FS_EmptySet, RewardParts
<1> QED
    BY <1>1, <1>3, <1>4, <1>5, <1>6 DEF IInv

\* The inductive invariant holds in every reachable state.
THEOREM Invariance == Spec => []IInv
<1>1. IInv /\ [Next]_vars => IInv'
    BY TypeStep, RequestsStep, PromoStep, RowsStep, CoveredStep, RewardsStep DEF IInv
<1> QED
    BY <1>1, InitInv, PTL DEF Spec

\* No operation makes a balance, a count or a quantity negative: settlement
\* refuses points that are not there, a refund takes back what is left.
THEOREM TypeCorrect == Spec => []TypeOK
<1>1. IInv => TypeOK
    BY DEF IInv
<1> QED
    BY <1>1, Invariance, PTL

\* However carts, checkouts, cancellations and the code's expiry interleave,
\* the use count of the promo code counts its orders and keeps to the limit.
THEOREM PromoCountedAlways == Spec => []PromoCounted
<1>1. IInv => PromoCounted
    BY DEF IInv
<1> QED
    BY <1>1, Invariance, PTL

\* The points carts and unpaid orders hold are there to be spent, up to what
\* refunds of earlier orders took back.
THEOREM HeldIsCoveredAlways == Spec => []HeldIsCovered
<1>1. IInv => HeldIsCovered
    BY DEF IInv
<1> QED
    BY <1>1, Invariance, PTL

\* A repeated request finds its order and no other; a key or a quote has one.
THEOREM CheckoutIsIdempotentAlways == Spec => []CheckoutIsIdempotent
<1>1. IInv => CheckoutIsIdempotent
    BY DEF IInv
<1> QED
    BY <1>1, Invariance, PTL

\* The referrer is rewarded for one order of each friend, and its code counts
\* the friends whose order was not refunded in full.
THEOREM RewardedOnceAlways == Spec => []RewardedOnce
<1>1. IInv => RewardedOnce
    BY DEF IInv
<1> QED
    BY <1>1, Invariance, PTL

=============================================================================
