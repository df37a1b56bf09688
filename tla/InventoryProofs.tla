--------------------------- MODULE InventoryProofs ---------------------------
(***************************************************************************)
(* Proofs about Inventory and StockSync for any orders, lines, stock,      *)
(* returns, synchronisations and snapshots.                                *)
(***************************************************************************)
EXTENDS StockSync, FiniteSetTheorems, WellFoundedInduction, TLAPS

(***************************************************************************)
(* The inductive invariant.  What reserve_variant checked when it locked a *)
(* row still holds when the checkout commits, because the row's lock kept  *)
(* everybody else away from it.                                            *)
(***************************************************************************)

\* A transaction locks rows of its own lines, and idle orders none.
LocksAreItems ==
    \A o \in Orders : /\ locked[o] \subseteq Items(o)
                      /\ op[o] = "none" => locked[o] = {}

\* A row has one holder.
LocksExclusive ==
    \A o, p \in Orders : \A v \in Variants :
        v \in locked[o] /\ v \in locked[p] => o = p

\* A checkout's locked rows have room for its lines.
ChecksHold ==
    \A o \in Orders : op[o] = "reserve" =>
        \A v \in locked[o] : reserved[v] + Lines[o][v] <= stock[v]

IInv == TypeOK /\ LocksAreItems /\ LocksExclusive /\ ChecksHold /\ ReservedWithinStock

-----------------------------------------------------------------------------
\* The lines of an order are natural numbers, zero outside its items.
LEMMA LinesAre ==
    ASSUME NEW o \in Orders, NEW v \in Variants
    PROVE  /\ Lines[o][v] \in Nat
           /\ v \notin Items(o) => Lines[o][v] = 0
BY LinesAssumption DEF Items

\* A transaction that ends gives its locks back and disturbs no other one.
LEMMA EndsOK ==
    ASSUME IInv, NEW o \in Orders, Ends(o)
    PROVE  /\ op' \in [Orders -> Operations \cup {"none"}]
           /\ locked' \in [Orders -> SUBSET Variants]
           /\ customer' \in [Orders -> BOOLEAN]
           /\ LocksAreItems' /\ LocksExclusive'
           /\ op'[o] = "none" /\ locked'[o] = {}
           /\ \A p \in Orders : p # o => op'[p] = op[p] /\ locked'[p] = locked[p]
<1>1. /\ op \in [Orders -> Operations \cup {"none"}]
      /\ locked \in [Orders -> SUBSET Variants]
      /\ customer \in [Orders -> BOOLEAN]
    BY DEF IInv, TypeOK
<1>2. /\ op' = [op EXCEPT ![o] = "none"] /\ locked' = [locked EXCEPT ![o] = {}]
      /\ customer' = [customer EXCEPT ![o] = FALSE]
    BY DEF Ends
<1> QED
    BY <1>1, <1>2 DEF IInv, LocksAreItems, LocksExclusive, Items

\* The quantities of rows that a committing transaction holds may change: every
\* other checkout's rows are different ones.
LEMMA CommitOK ==
    ASSUME IInv, NEW o \in Orders, Ends(o),
           locked[o] = Items(o),
           stock' \in [Variants -> Nat], reserved' \in [Variants -> Nat],
           chain' \in [Orders -> Chain],
           \A v \in Variants \ Items(o) : stock'[v] = stock[v] /\ reserved'[v] = reserved[v],
           \A v \in Items(o) : reserved'[v] <= stock'[v]
    PROVE  IInv'
<1>1. ReservedWithinStock'
    BY DEF IInv, ReservedWithinStock
<1>2. ChecksHold'
    <2> SUFFICES ASSUME NEW p \in Orders, op'[p] = "reserve", NEW v \in locked'[p]
                 PROVE  reserved'[v] + Lines[p][v] <= stock'[v]
        BY DEF ChecksHold
    <2>1. p # o /\ op[p] = "reserve" /\ v \in locked[p] /\ v \in Variants
        BY EndsOK
    <2>2. v \notin Items(o)
        BY <2>1 DEF IInv, LocksExclusive
    <2> QED
        BY <2>1, <2>2 DEF IInv, ChecksHold
<1> QED
    BY <1>1, <1>2, EndsOK DEF IInv, TypeOK

\* The initial state.
LEMMA InitOK == Init => IInv
BY MaxStockAssumption
DEF Init, IInv, TypeOK, Chain, LocksAreItems, LocksExclusive, ChecksHold,
    ReservedWithinStock

\* An order takes its locks one by one.
LEMMA LockingOK ==
    ASSUME IInv, NEW o \in Orders,
           \/ \E kind \in Operations : Begin(o, kind)
           \/ LockCustomer(o)
           \/ \E v \in Variants : LockRow(o, v)
           \/ Rollback(o)
    PROVE  IInv'
<1>1. CASE \E kind \in Operations : Begin(o, kind)
    <2>1. PICK kind \in Operations : Begin(o, kind)
        BY <1>1
    <2>2. TypeOK'
        BY <2>1 DEF IInv, TypeOK, Begin
    <2>3. LocksAreItems' /\ LocksExclusive' /\ ChecksHold' /\ ReservedWithinStock'
        BY <2>1
        DEF IInv, TypeOK, Begin, LocksAreItems, LocksExclusive, ChecksHold,
            ReservedWithinStock, Items
    <2> QED
        BY <2>2, <2>3 DEF IInv
<1>2. CASE LockCustomer(o)
    BY <1>2
    DEF IInv, TypeOK, LockCustomer, LocksAreItems, LocksExclusive, ChecksHold,
        ReservedWithinStock, Items
<1>3. ASSUME Ends(o), UNCHANGED <<stock, reserved, chain>>
      PROVE  IInv'
    <2>1. ChecksHold'
        BY <1>3, EndsOK DEF IInv, ChecksHold
    <2> QED
        BY <1>3, <2>1, EndsOK DEF IInv, TypeOK, ReservedWithinStock
<1>4. CASE \E v \in Variants : LockRow(o, v)
    <2>1. PICK v \in Variants : LockRow(o, v)
        BY <1>4
    <2>2. CASE op[o] = "reserve" /\ ~Available(v, Lines[o][v])
        BY <1>3, <2>1, <2>2 DEF LockRow
    <2>3. CASE ~(op[o] = "reserve" /\ ~Available(v, Lines[o][v]))
        <3>1. /\ locked' = [locked EXCEPT ![o] = @ \cup {v}]
              /\ UNCHANGED <<op, customer, stock, reserved, chain>>
              /\ v \in Items(o) /\ op[o] # "none" /\ \A p \in Orders : v \notin locked[p]
            BY <2>1, <2>3 DEF LockRow, NextRow, RowFree
        <3>2. locked \in [Orders -> SUBSET Variants]
            BY DEF IInv, TypeOK
        <3>3. TypeOK' /\ LocksAreItems' /\ LocksExclusive' /\ ReservedWithinStock'
            BY <3>1, <3>2
            DEF IInv, TypeOK, LocksAreItems, LocksExclusive, ReservedWithinStock, Items
        <3>4. op[o] = "reserve" => reserved[v] + Lines[o][v] <= stock[v]
            BY <2>3, LinesAre DEF Available, IInv, TypeOK
        <3>5. ChecksHold'
            BY <3>1, <3>2, <3>4 DEF IInv, ChecksHold
        <3> QED
            BY <3>3, <3>5 DEF IInv
    <2> QED
        BY <2>2, <2>3
<1>5. CASE Rollback(o)
    BY <1>3, <1>5 DEF Rollback
<1> QED
    BY <1>1, <1>2, <1>4, <1>5

\* reserve_variant, for all lines of the order.
LEMMA ReserveOK ==
    ASSUME IInv, NEW o \in Orders, CommitReservation(o)
    PROVE  IInv'
<1>1. /\ stock \in [Variants -> Nat] /\ reserved \in [Variants -> Nat]
      /\ chain \in [Orders -> Chain]
    BY DEF IInv, TypeOK
<1>2. /\ reserved' \in [Variants -> Nat] /\ stock' \in [Variants -> Nat]
      /\ chain' \in [Orders -> Chain]
    BY <1>1, LinesAre DEF CommitReservation, Chain
<1>3. \A v \in Variants \ Items(o) : reserved'[v] = reserved[v] /\ stock'[v] = stock[v]
    BY <1>1, LinesAre DEF CommitReservation
<1>4. \A v \in Items(o) : reserved'[v] <= stock'[v]
    BY DEF CommitReservation, Complete, IInv, ChecksHold, Items
<1> QED
    BY <1>2, <1>3, <1>4, CommitOK DEF CommitReservation, Complete

\* commit_reservations_to_sold.
LEMMA SaleOK ==
    ASSUME IInv, NEW o \in Orders, CommitSale(o)
    PROVE  IInv'
<1>1. /\ stock \in [Variants -> Nat] /\ reserved \in [Variants -> Nat]
      /\ chain \in [Orders -> Chain]
    BY DEF IInv, TypeOK
<1>2. \A v \in Variants : reserved[v] >= Lines[o][v] /\ stock[v] >= Lines[o][v]
    BY <1>1, LinesAre DEF CommitSale, Covered
<1>3. /\ reserved' \in [Variants -> Nat] /\ stock' \in [Variants -> Nat]
      /\ chain' \in [Orders -> Chain]
    BY <1>1, <1>2, LinesAre DEF CommitSale, Chain
<1>4. \A v \in Variants \ Items(o) : reserved'[v] = reserved[v] /\ stock'[v] = stock[v]
    BY <1>1, LinesAre DEF CommitSale
<1>5. \A v \in Items(o) : reserved'[v] <= stock'[v]
    BY <1>1, LinesAre DEF CommitSale, IInv, ReservedWithinStock, Items
<1> QED
    BY <1>3, <1>4, <1>5, CommitOK DEF CommitSale, Complete

\* release_variants.
LEMMA ReleaseOK ==
    ASSUME IInv, NEW o \in Orders, CommitRelease(o)
    PROVE  IInv'
<1>1. /\ stock \in [Variants -> Nat] /\ reserved \in [Variants -> Nat]
      /\ chain \in [Orders -> Chain]
    BY DEF IInv, TypeOK
<1>2. \A v \in Variants : reserved[v] >= Lines[o][v]
    BY <1>1, LinesAre DEF CommitRelease, Covered
<1>3. /\ reserved' \in [Variants -> Nat] /\ stock' \in [Variants -> Nat]
      /\ chain' \in [Orders -> Chain]
    BY <1>1, <1>2, LinesAre DEF CommitRelease, Chain
<1>4. \A v \in Variants \ Items(o) : reserved'[v] = reserved[v] /\ stock'[v] = stock[v]
    BY <1>1, LinesAre DEF CommitRelease
<1>5. \A v \in Items(o) : reserved'[v] <= stock'[v]
    BY <1>1, LinesAre DEF CommitRelease, IInv, ReservedWithinStock, Items
<1> QED
    BY <1>3, <1>4, <1>5, CommitOK DEF CommitRelease, Complete

\* adjust_stock: the row is free, so no checkout relies on its stock.
LEMMA AdjustOK ==
    ASSUME IInv, NEW v \in Variants, NEW q \in 0..MaxStock, AdjustStock(v, q)
    PROVE  IInv'
<1>1. stock \in [Variants -> Nat] /\ reserved \in [Variants -> Nat] /\ q \in Nat
    BY MaxStockAssumption DEF IInv, TypeOK
<1>2. /\ stock' = [stock EXCEPT ![v] = q] /\ q >= reserved[v]
      /\ \A p \in Orders : v \notin locked[p]
      /\ UNCHANGED <<reserved, chain, op, locked, customer>>
    BY DEF AdjustStock, RowFree
<1>3. TypeOK' /\ LocksAreItems' /\ LocksExclusive'
    BY <1>1, <1>2 DEF IInv, TypeOK, LocksAreItems, LocksExclusive, Items
<1>4. ReservedWithinStock'
    BY <1>1, <1>2 DEF IInv, ReservedWithinStock
<1>5. ChecksHold'
    BY <1>1, <1>2 DEF IInv, ChecksHold, TypeOK
<1> QED
    BY <1>3, <1>4, <1>5 DEF IInv

-----------------------------------------------------------------------------
\* The inductive invariant holds in every reachable state.
THEOREM Invariance == Spec => []IInv
<1>1. IInv /\ [Next]_vars => IInv'
    <2> SUFFICES ASSUME IInv, [Next]_vars PROVE IInv'
        OBVIOUS
    <2>1. ASSUME NEW o \in Orders, OrderStep(o) PROVE IInv'
        BY <2>1, LockingOK, ReserveOK, SaleOK, ReleaseOK DEF OrderStep
    <2>2. ASSUME NEW v \in Variants, NEW q \in 0..MaxStock, AdjustStock(v, q)
          PROVE  IInv'
        BY <2>2, AdjustOK
    <2>3. CASE UNCHANGED vars
        BY <2>3
        DEF vars, IInv, TypeOK, LocksAreItems, LocksExclusive, ChecksHold,
            ReservedWithinStock, Items
    <2> QED
        BY <2>1, <2>2, <2>3 DEF Next
<1> QED
    BY <1>1, InitOK, PTL DEF Spec

-----------------------------------------------------------------------------
(***************************************************************************)
(* Sums over finite sets.  A fold takes the elements in an order of its    *)
(* own; by minimal counterexample among the subsets of a finite set, the   *)
(* order does not matter and any element can be taken first.               *)
(***************************************************************************)

\* Of finitely many things, every nonempty collection of sets has a smallest.
LEMMA SmallestSet ==
    ASSUME NEW S, IsFiniteSet(S), NEW B, B \subseteq SUBSET S, B # {}
    PROVE  \E T \in B : \A U \in B : ~(U \subseteq T /\ U # T)
<1>1. IsWellFoundedOn(StrictSubsetOrdering(S), SUBSET S)
    BY FS_StrictSubsetOrderingWellFounded, FS_FiniteSubsetsOfFinite
<1>2. PICK T \in B : \A U \in B : ~(<<U, T>> \in StrictSubsetOrdering(S))
    BY <1>1, WFMin
<1>3. ASSUME NEW U \in B, U \subseteq T, U # T
      PROVE  FALSE
    BY <1>2, <1>3 DEF StrictSubsetOrdering
<1> QED
    BY <1>2, <1>3

Any(T) == CHOOSE x \in T : TRUE

\* g sums f over every subset of S, in the order in which a fold takes them.
Sums(g, f, S) ==
    g = [T \in SUBSET S |-> IF T = {} THEN 0 ELSE f[Any(T)] + g[T \ {Any(T)}]]

LEMMA SumIsFold ==
    ASSUME NEW f, NEW S
    PROVE  SumFunctionOnSet(f, S) = (CHOOSE g : Sums(g, f, S))[S]
BY Zenon DEF SumFunctionOnSet, FoldFunctionOnSet, MapThenFoldSet, Sums, Any

\* Two such functions agree where both are defined.
LEMMA SumsCoincide ==
    ASSUME NEW f, NEW S, IsFiniteSet(S), NEW g, NEW h, NEW W \in SUBSET S, NEW V,
           NEW T \in SUBSET W, W \subseteq V,
           Sums(g, f, W), Sums(h, f, V)
    PROVE  g[T] = h[T]
<1> DEFINE B == {U \in SUBSET W : g[U] # h[U]}
<1> SUFFICES ASSUME B # {} PROVE FALSE
    OBVIOUS
<1>1. B \subseteq SUBSET S
    OBVIOUS
<1>2. PICK U \in B : \A D \in B : ~(D \subseteq U /\ D # U)
    <2> HIDE DEF B
    <2> QED BY <1>1, SmallestSet
<1>3. U # {}
    BY DEF Sums
<1>4. Any(U) \in U
    BY <1>3 DEF Any
<1>5. g[U \ {Any(U)}] = h[U \ {Any(U)}]
    BY <1>2, <1>4
<1>6. g[U] = f[Any(U)] + g[U \ {Any(U)}] /\ h[U] = f[Any(U)] + h[U \ {Any(U)}]
    BY <1>3 DEF Sums
<1> QED
    BY <1>5, <1>6

\* There is one for every finite set.
LEMMA SumsExist ==
    ASSUME NEW f, NEW S, IsFiniteSet(S)
    PROVE  \E g : Sums(g, f, S)
<1> DEFINE B == {U \in SUBSET S : ~ \E g : Sums(g, f, U)}
<1> SUFFICES ASSUME B # {} PROVE FALSE
    OBVIOUS
<1>1. PICK U \in B : \A D \in B : ~(D \subseteq U /\ D # U)
    <2>1. B \subseteq SUBSET S
        OBVIOUS
    <2> HIDE DEF B
    <2> QED BY <2>1, SmallestSet
<1> DEFINE part(D) == CHOOSE g : Sums(g, f, D)
           value(T) == IF T = {} THEN 0
                       ELSE f[Any(T)] + part(T \ {Any(T)})[T \ {Any(T)}]
           h == [T \in SUBSET U |-> value(T)]
<1>2. ASSUME NEW D \in SUBSET U, D # U
      PROVE  Sums(part(D), f, D)
    BY <1>1, <1>2
<1>3. ASSUME NEW T \in SUBSET U, T # {}
      PROVE  h[T \ {Any(T)}] = part(T \ {Any(T)})[T \ {Any(T)}]
    <2> DEFINE D == T \ {Any(T)}
    <2>1. Any(T) \in T
        BY <1>3 DEF Any
    <2>2. D \in SUBSET U /\ D # U
        BY <2>1
    <2>3. Sums(part(D), f, D)
        BY <1>2, <2>2
    <2>4. CASE D = {}
        BY <2>3, <2>4 DEF Sums
    <2>5. CASE D # {}
        <3> DEFINE E == D \ {Any(D)}
        <3>1. Any(D) \in D
            BY <2>5 DEF Any
        <3>2. E \in SUBSET D /\ E \in SUBSET U /\ E # U
            BY <2>2, <3>1
        <3>3. Sums(part(E), f, E)
            BY <1>2, <3>2
        <3>4. part(E)[E] = part(D)[E]
            <4> HIDE DEF part, E, D
            <4> QED BY <2>2, <2>3, <3>2, <3>3, SumsCoincide
        <3>5. part(D)[D] = f[Any(D)] + part(D)[E]
            BY <2>3, <2>5 DEF Sums
        <3> QED
            BY <2>2, <2>5, <3>4, <3>5
    <2> QED
        BY <2>4, <2>5
<1>4. h = [T \in SUBSET U |-> IF T = {} THEN 0 ELSE f[Any(T)] + h[T \ {Any(T)}]]
    <2>1. ASSUME NEW T \in SUBSET U
          PROVE  value(T) = IF T = {} THEN 0 ELSE f[Any(T)] + h[T \ {Any(T)}]
        <3> HIDE DEF h, part
        <3>1. CASE T = {}
            BY <3>1
        <3>2. CASE T # {}
            BY <1>3, <3>2
        <3> QED BY <3>1, <3>2
    <2> HIDE DEF value
    <2> QED BY <2>1, Zenon
<1>5. Sums(h, f, U)
    <2> HIDE DEF h
    <2> QED BY <1>4 DEF Sums
<1> QED
    BY <1>5

LEMMA SumTake ==
    ASSUME NEW f, NEW S, IsFiniteSet(S)
    PROVE  SumFunctionOnSet(f, S) =
             IF S = {} THEN 0
             ELSE f[Any(S)] + SumFunctionOnSet(f, S \ {Any(S)})
<1> DEFINE D == S \ {Any(S)}
           g == CHOOSE k : Sums(k, f, S)
           h == CHOOSE k : Sums(k, f, D)
<1>1. IsFiniteSet(D)
    BY FS_Subset
<1>2. Sums(g, f, S) /\ Sums(h, f, D)
    BY <1>1, SumsExist
<1>3. SumFunctionOnSet(f, S) = g[S] /\ SumFunctionOnSet(f, D) = h[D]
    BY SumIsFold
<1>4. g[D] = h[D]
    <2>1. D \in SUBSET S /\ D \in SUBSET D /\ D \subseteq S
        OBVIOUS
    <2> HIDE DEF g, h, D
    <2> QED BY <1>2, <2>1, SumsCoincide
<1>5. g[S] = IF S = {} THEN 0 ELSE f[Any(S)] + g[D]
    <2> HIDE DEF g
    <2> QED BY <1>2 DEF Sums
<1> QED
    BY <1>3, <1>4, <1>5

\* The sum of numbers of one kind is of that kind.
LEMMA SumClosed ==
    ASSUME NEW f, NEW S, IsFiniteSet(S), NEW D, \A x \in S : f[x] \in D,
           0 \in D, \A m, n \in D : m + n \in D
    PROVE  SumFunctionOnSet(f, S) \in D
<1> DEFINE B == {T \in SUBSET S : SumFunctionOnSet(f, T) \notin D}
<1> SUFFICES ASSUME B # {} PROVE FALSE
    OBVIOUS
<1>1. PICK T \in B : \A U \in B : ~(U \subseteq T /\ U # T)
    <2>1. B \subseteq SUBSET S
        OBVIOUS
    <2> HIDE DEF B
    <2> QED BY <2>1, SmallestSet
<1>2. IsFiniteSet(T)
    BY FS_Subset
<1>3. T # {}
    <2>1. SumFunctionOnSet(f, {}) = 0
        BY FS_EmptySet, SumTake
    <2> QED BY <2>1
<1>4. Any(T) \in T
    BY <1>3 DEF Any
<1>5. SumFunctionOnSet(f, T \ {Any(T)}) \in D
    BY <1>1, <1>4
<1>6. SumFunctionOnSet(f, T) = f[Any(T)] + SumFunctionOnSet(f, T \ {Any(T)})
    BY <1>2, <1>3, SumTake
<1> QED
    BY <1>4, <1>5, <1>6

LEMMA SumType ==
    ASSUME NEW f, NEW S, IsFiniteSet(S), NEW D \in {Int, Nat}, \A x \in S : f[x] \in D
    PROVE  SumFunctionOnSet(f, S) \in D
<1>1. 0 \in D /\ \A m, n \in D : m + n \in D
    OBVIOUS
<1> QED
    BY <1>1, SumClosed

LEMMA SumZero ==
    ASSUME NEW f, NEW S, IsFiniteSet(S), \A x \in S : f[x] = 0
    PROVE  SumFunctionOnSet(f, S) = 0
<1>1. \A m, n \in {0} : m + n \in {0}
    OBVIOUS
<1>2. SumFunctionOnSet(f, S) \in {0}
    BY <1>1, SumClosed
<1> QED
    BY <1>2

\* Any element can be taken first.
LEMMA SumRemove ==
    ASSUME NEW f, NEW S, IsFiniteSet(S), \A x \in S : f[x] \in Int, NEW x \in S
    PROVE  SumFunctionOnSet(f, S) = f[x] + SumFunctionOnSet(f, S \ {x})
<1> DEFINE B == {T \in SUBSET S : \E y \in T :
                    SumFunctionOnSet(f, T) # f[y] + SumFunctionOnSet(f, T \ {y})}
<1> SUFFICES ASSUME B # {} PROVE FALSE
    OBVIOUS
<1>1. PICK T \in B : \A D \in B : ~(D \subseteq T /\ D # T)
    <2>1. B \subseteq SUBSET S
        OBVIOUS
    <2> HIDE DEF B
    <2> QED BY <2>1, SmallestSet
<1>2. PICK y \in T : SumFunctionOnSet(f, T) # f[y] + SumFunctionOnSet(f, T \ {y})
    OBVIOUS
<1> DEFINE z == Any(T)
           C == T \ {y, z}
<1>3. z \in T
    BY DEF Any
<1>4. SumFunctionOnSet(f, T) = f[z] + SumFunctionOnSet(f, T \ {z})
    <2>1. IsFiniteSet(T)
        BY FS_Subset
    <2> QED BY <1>2, <2>1, SumTake
<1>5. y # z
    BY <1>2, <1>4
<1>6. SumFunctionOnSet(f, T \ {z}) = f[y] + SumFunctionOnSet(f, C)
    <2>1. (T \ {z}) \ {y} = C /\ T \ {z} # T /\ y \in T \ {z}
        BY <1>3, <1>5
    <2> QED BY <1>1, <2>1
<1>7. SumFunctionOnSet(f, T \ {y}) = f[z] + SumFunctionOnSet(f, C)
    <2>1. (T \ {y}) \ {z} = C /\ T \ {y} # T /\ z \in T \ {y}
        BY <1>3, <1>5
    <2> QED BY <1>1, <2>1
<1>8. SumFunctionOnSet(f, C) \in Int /\ f[y] \in Int /\ f[z] \in Int
    <2>1. IsFiniteSet(C) /\ C \subseteq S
        BY FS_Subset
    <2> QED BY <1>3, <2>1, SumType
<1> HIDE DEF z, C
<1> QED
    BY <1>2, <1>4, <1>6, <1>7, <1>8

-----------------------------------------------------------------------------
(***************************************************************************)
(* What is reserved is what is owed.  An order is in a transaction only    *)
(* while its movements have the state the transaction starts from, so the  *)
(* commit moves exactly its own lines into the sum or out of it.           *)
(***************************************************************************)
OperationFits ==
    \A o \in Orders : /\ op[o] = "reserve" => chain[o] = "none"
                      /\ op[o] \in {"commit", "release"} => chain[o] = "reserved"

OwedInv == ReservedIsOwed /\ OperationFits

Owing == {o \in Orders : chain[o] = "reserved"}
Quantities(v) == [o \in Orders |-> Lines[o][v]]

\* What is owed of v is the line of any order that counts and the others'.
LEMMA OwedWith ==
    ASSUME NEW S, S \subseteq Orders, NEW o \in S, NEW v \in Variants
    PROVE  /\ SumFunctionOnSet(Quantities(v), S \ {o}) \in Int
           /\ SumFunctionOnSet(Quantities(v), S)
                = Lines[o][v] + SumFunctionOnSet(Quantities(v), S \ {o})
<1>1. IsFiniteSet(S) /\ IsFiniteSet(S \ {o})
    BY OrdersAssumption, FS_Subset
<1>2. \A p \in S : Quantities(v)[p] \in Int /\ Quantities(v)[p] = Lines[p][v]
    BY LinesAre DEF Quantities
<1>3. SumFunctionOnSet(Quantities(v), S)
        = Quantities(v)[o] + SumFunctionOnSet(Quantities(v), S \ {o})
    BY <1>1, <1>2, SumRemove
<1>4. SumFunctionOnSet(Quantities(v), S \ {o}) \in Int
    BY <1>1, <1>2, SumType
<1> QED
    BY <1>2, <1>3, <1>4

\* Nothing is owed at first.
LEMMA OwedInit == Init => OwedInv
<1> SUFFICES ASSUME Init PROVE OwedInv
    OBVIOUS
<1>1. Owing = {}
    BY DEF Init, Owing
<1>2. \A v \in Variants : SumFunctionOnSet(Quantities(v), Owing) = 0
    BY <1>1, FS_EmptySet, SumTake
<1> QED
    BY <1>2 DEF Init, OwedInv, ReservedIsOwed, OperationFits, Owing, Quantities

\* A step that moves no reservation, and begins or ends at most o's transaction.
LEMMA OwedKept ==
    ASSUME OwedInv, TypeOK, NEW o \in Orders, UNCHANGED <<reserved, chain>>,
           \/ UNCHANGED op
           \/ op' = [op EXCEPT ![o] = "none"]
           \/ \E kind \in Operations :
                 /\ op' = [op EXCEPT ![o] = kind]
                 /\ chain[o] = IF kind = "reserve" THEN "none" ELSE "reserved"
    PROVE  OwedInv'
<1>1. ReservedIsOwed'
    BY DEF OwedInv, ReservedIsOwed
<1>2. OperationFits'
    BY DEF OwedInv, OperationFits, TypeOK, Operations
<1> QED
    BY <1>1, <1>2 DEF OwedInv

\* The three commits: o's line goes into the sum, or out of it.
LEMMA OwedCommit ==
    ASSUME OwedInv, TypeOK, NEW o \in Orders,
           CommitReservation(o) \/ CommitSale(o) \/ CommitRelease(o)
    PROVE  OwedInv'
<1>1. op' = [op EXCEPT ![o] = "none"]
    BY DEF CommitReservation, CommitSale, CommitRelease, Ends
<1>2. PICK c \in Chain : chain' = [chain EXCEPT ![o] = c]
    BY DEF CommitReservation, CommitSale, CommitRelease, Chain
<1>3. OperationFits'
    BY <1>1, <1>2 DEF OwedInv, OperationFits, TypeOK, Operations
<1>4. \A v \in Variants : reserved[v] \in Nat /\ Lines[o][v] \in Nat
    BY LinesAre DEF TypeOK
<1>5. \A v \in Variants : reserved[v] = SumFunctionOnSet(Quantities(v), Owing)
    BY DEF OwedInv, ReservedIsOwed, Owing, Quantities
<1>6. ASSUME NEW v \in Variants
      PROVE  reserved'[v] = SumFunctionOnSet(Quantities(v), Owing')
    <2>1. CASE CommitReservation(o)
        <3>1. chain[o] = "none" /\ chain' = [chain EXCEPT ![o] = "reserved"]
            BY <2>1 DEF CommitReservation, Complete, OwedInv, OperationFits
        <3>2. o \in Owing' /\ Owing' \ {o} = Owing /\ Owing' \subseteq Orders
            BY <3>1 DEF Owing, TypeOK
        <3>3. reserved'[v] = reserved[v] + Lines[o][v]
            BY <2>1 DEF CommitReservation
        <3>4. /\ SumFunctionOnSet(Quantities(v), Owing') =
                     Lines[o][v] + SumFunctionOnSet(Quantities(v), Owing' \ {o})
              /\ SumFunctionOnSet(Quantities(v), Owing' \ {o}) \in Int
            BY <3>2, OwedWith
        <3> QED
            BY <1>4, <1>5, <3>2, <3>3, <3>4
    <2>2. CASE CommitSale(o) \/ CommitRelease(o)
        <3>1. /\ chain[o] = "reserved"
              /\ \/ chain' = [chain EXCEPT ![o] = "sold"]
                 \/ chain' = [chain EXCEPT ![o] = "released"]
            BY <2>2 DEF CommitSale, CommitRelease, Complete, OwedInv, OperationFits
        <3>2. o \in Owing /\ Owing \ {o} = Owing' /\ Owing \subseteq Orders
            BY <3>1 DEF Owing, TypeOK
        <3>3. reserved'[v] = reserved[v] - Lines[o][v]
            BY <2>2 DEF CommitSale, CommitRelease
        <3>4. /\ SumFunctionOnSet(Quantities(v), Owing) =
                     Lines[o][v] + SumFunctionOnSet(Quantities(v), Owing \ {o})
              /\ SumFunctionOnSet(Quantities(v), Owing \ {o}) \in Int
            BY <3>2, OwedWith
        <3>5. /\ SumFunctionOnSet(Quantities(v), Owing) =
                     Lines[o][v] + SumFunctionOnSet(Quantities(v), Owing')
              /\ SumFunctionOnSet(Quantities(v), Owing') \in Int
            BY <3>2, <3>4, Zenon
        <3> QED
            BY <1>4, <1>5, <3>3, <3>5
    <2> QED
        BY <2>1, <2>2
<1>7. ReservedIsOwed'
    BY <1>6 DEF ReservedIsOwed, Owing, Quantities
<1> QED
    BY <1>3, <1>7 DEF OwedInv

\* A step of an order's transaction.
LEMMA OwedStep ==
    ASSUME OwedInv, TypeOK, NEW o \in Orders,
           \/ \E kind \in Operations : Begin(o, kind)
           \/ LockCustomer(o)
           \/ \E v \in Variants : LockRow(o, v)
           \/ CommitReservation(o) \/ CommitSale(o) \/ CommitRelease(o)
           \/ Rollback(o)
    PROVE  OwedInv'
<1>1. CASE \E kind \in Operations : Begin(o, kind)
    BY <1>1, OwedKept DEF Begin
<1>2. CASE LockCustomer(o) \/ (\E v \in Variants : LockRow(o, v)) \/ Rollback(o)
    BY <1>2, OwedKept DEF LockCustomer, LockRow, Rollback, Ends
<1> QED
    BY <1>1, <1>2, OwedCommit

\* A step of anybody else.
LEMMA OwedAside ==
    ASSUME OwedInv, UNCHANGED <<reserved, chain, op>>
    PROVE  OwedInv'
BY DEF OwedInv, ReservedIsOwed, OperationFits

-----------------------------------------------------------------------------
(***************************************************************************)
(* The inductive invariant of StockSync.  A row that a synchronisation     *)
(* holds is nobody else's, so what adjust_stock checked when it locked the *)
(* row still holds when the page commits, and no return is added to it.    *)
(***************************************************************************)

\* A row that a synchronisation holds has no other holder.
HeldExclusive ==
    /\ \A s, t \in Syncs : \A v \in Variants :
          v \in sync[s].held /\ v \in sync[t].held => s = t
    /\ \A s \in Syncs : \A o \in Orders : \A v \in Variants :
          v \in sync[s].held => v \notin locked[o]

\* What a synchronisation is about to write covers the reservations.
WritesFit ==
    \A s \in Syncs : \A v \in sync[s].held : reserved[v] <= sync[s].write[v]

\* No return of v stands against the snapshot of s.
Kept(s, v) ==
    \A r \in Of(v) :
        event[r].at = "committed" /\ r \notin sync[s].raced /\ ~event[r].overlooked
            => Reaches(s, r) \/ event[r].cleared

\* What was decided stays decided.
DecisionsHold ==
    \A s \in Syncs : sync[s].next # NoVariant => Kept(s, sync[s].next)

\* A return is settled in one of two ways.
SettledSomehow ==
    \A r \in Returns : event[r].settled => event[r].cleared \/ event[r].overlooked

SInv == IInv /\ SyncTypeOK /\ HeldExclusive /\ WritesFit
        /\ DecisionsHold /\ ReturnsAreKept /\ SettledSomehow

\* The initial state.
LEMMA SyncInitOK == SyncInit => SInv
<1> SUFFICES ASSUME SyncInit PROVE SInv
    OBVIOUS
<1>1. IInv
    BY InitOK DEF SyncInit
<1>2. event \in [Returns -> EventRecord]
    BY DEF SyncInit, EventRecord
<1>3. Resting \in SyncRecord
    BY DEF Resting, SyncRecord, Nothing
<1>4. sync \in [Syncs -> SyncRecord]
    BY <1>3 DEF SyncInit
<1>5. \A s \in Syncs : sync[s].held = {} /\ sync[s].next = NoVariant
    BY DEF SyncInit, Resting
<1>6. SettledSomehow
    BY DEF SyncInit, SettledSomehow
<1> QED
    BY <1>1, <1>2, <1>4, <1>5, <1>6
    DEF SInv, SyncTypeOK, HeldExclusive, WritesFit, DecisionsHold, ReturnsAreKept

\* A step of the shop that leaves the held rows alone keeps the invariant.
LEMMA ApartOK ==
    ASSUME SInv, IInv', UNCHANGED syncVars,
           \A s \in Syncs : \A v \in sync[s].held :
               reserved'[v] = reserved[v] /\ \A o \in Orders : v \notin locked'[o]
    PROVE  SInv'
<1>1. UNCHANGED <<event, sync>>
    BY DEF syncVars
<1>2. SyncTypeOK' /\ SettledSomehow'
    BY <1>1 DEF SInv, SyncTypeOK, SettledSomehow
<1>3. \A s \in Syncs, v \in Variants : Kept(s, v) => Kept(s, v)'
    BY <1>1 DEF Kept, Of, VariantOf, Reaches
<1>4. DecisionsHold' /\ ReturnsAreKept'
    BY <1>1 DEF SInv, DecisionsHold, ReturnsAreKept, Kept, Of, VariantOf, Reaches
<1>5. HeldExclusive' /\ WritesFit'
    BY <1>1 DEF SInv, HeldExclusive, WritesFit
<1> QED
    BY <1>2, <1>4, <1>5 DEF SInv

\* A row that is held is locked by no order.
LEMMA HeldRows ==
    ASSUME SInv, NEW s \in Syncs, NEW v \in sync[s].held
    PROVE  v \in Variants /\ ~Unheld(v) /\ \A o \in Orders : v \notin locked[o]
<1>1. v \in Variants
    BY DEF SInv, SyncTypeOK, SyncRecord
<1> QED
    BY <1>1 DEF SInv, HeldExclusive, Unheld

\* The end of a transaction whose rows are not held.
LEMMA EndsApart ==
    ASSUME SInv, NEW o \in Orders, Ends(o)
    PROVE  \A s \in Syncs : \A v \in sync[s].held : \A p \in Orders : v \notin locked'[p]
<1>1. IInv
    BY DEF SInv
<1> QED
    BY <1>1, EndsOK, HeldRows

\* A commit changes the rows of its own lines only.
LEMMA CommitsApart ==
    ASSUME SInv, NEW o \in Orders, locked[o] = Items(o),
           \/ reserved' = [v \in Variants |-> reserved[v] + Lines[o][v]]
           \/ reserved' = [v \in Variants |-> reserved[v] - Lines[o][v]]
    PROVE  \A s \in Syncs : \A v \in sync[s].held : reserved'[v] = reserved[v]
<1> SUFFICES ASSUME NEW s \in Syncs, NEW v \in sync[s].held
             PROVE  reserved'[v] = reserved[v]
    OBVIOUS
<1>1. v \in Variants /\ v \notin Items(o)
    BY HeldRows
<1>2. Lines[o][v] = 0
    BY <1>1, LinesAre
<1>3. reserved[v] \in Nat
    BY <1>1 DEF SInv, IInv, TypeOK
<1> QED
    BY <1>1, <1>2, <1>3

\* The shop respects the rows that are held.
LEMMA ShopOK ==
    ASSUME SInv, Shop
    PROVE  SInv'
<1> DEFINE Apart == \A s \in Syncs : \A v \in sync[s].held :
                        reserved'[v] = reserved[v] /\ \A o \in Orders : v \notin locked'[o]
<1>1. IInv /\ UNCHANGED syncVars
    BY DEF SInv, Shop
<1>2. ASSUME NEW o \in Orders, \E kind \in Operations : Begin(o, kind)
      PROVE  IInv' /\ Apart
    BY <1>1, <1>2, LockingOK, HeldRows DEF Begin
<1>3. ASSUME NEW o \in Orders, LockCustomer(o)
      PROVE  IInv' /\ Apart
    BY <1>1, <1>3, LockingOK, HeldRows DEF LockCustomer
<1>4. ASSUME NEW o \in Orders, NEW w \in Variants, Unheld(w), LockRow(o, w)
      PROVE  IInv' /\ Apart
    <2>1. IInv'
        BY <1>1, <1>4, LockingOK
    <2>2. reserved' = reserved
        BY <1>4 DEF LockRow
    <2>3. CASE Ends(o)
        BY <2>1, <2>2, <2>3, EndsApart
    <2>4. CASE locked' = [locked EXCEPT ![o] = @ \cup {w}]
        <3>1. locked \in [Orders -> SUBSET Variants]
            BY DEF SInv, IInv, TypeOK
        <3> QED
            BY <1>4, <2>1, <2>2, <2>4, <3>1, HeldRows
    <2> QED
        BY <1>4, <2>3, <2>4 DEF LockRow
<1>5. ASSUME NEW o \in Orders, CommitReservation(o)
      PROVE  IInv' /\ Apart
    <2>1. IInv'
        BY <1>1, <1>5, ReserveOK
    <2> QED
        BY <1>5, <2>1, EndsApart, CommitsApart DEF CommitReservation, Complete
<1>6. ASSUME NEW o \in Orders, CommitSale(o)
      PROVE  IInv' /\ Apart
    <2>1. IInv'
        BY <1>1, <1>6, SaleOK
    <2> QED
        BY <1>6, <2>1, EndsApart, CommitsApart DEF CommitSale, Complete
<1>7. ASSUME NEW o \in Orders, CommitRelease(o)
      PROVE  IInv' /\ Apart
    <2>1. IInv'
        BY <1>1, <1>7, ReleaseOK
    <2> QED
        BY <1>7, <2>1, EndsApart, CommitsApart DEF CommitRelease, Complete
<1>8. ASSUME NEW o \in Orders, Rollback(o)
      PROVE  IInv' /\ Apart
    <2>1. IInv'
        BY <1>1, <1>8, LockingOK
    <2> QED
        BY <1>8, <2>1, EndsApart DEF Rollback
<1>9. ASSUME NEW v \in Variants, NEW q \in 0..MaxStock, AdjustStock(v, q)
      PROVE  IInv' /\ Apart
    BY <1>1, <1>9, AdjustOK, HeldRows DEF AdjustStock
<1> QED
    BY <1>1, <1>2, <1>3, <1>4, <1>5, <1>6, <1>7, <1>8, <1>9, ApartOK DEF Shop, Proceeds

-----------------------------------------------------------------------------
\* The records of a typical state.
LEMMA SyncTypes ==
    ASSUME SInv
    PROVE  /\ stock \in [Variants -> Nat] /\ reserved \in [Variants -> Nat]
           /\ event \in [Returns -> EventRecord]
           /\ sync \in [Syncs -> SyncRecord]
           /\ IInv
BY DEF SInv, IInv, TypeOK, SyncTypeOK

\* An event that goes on, with the stock of its variant no smaller, keeps what
\* does not depend on the snapshots.
LEMMA EventOK ==
    ASSUME SInv, NEW r \in Returns, NEW e \in EventRecord,
           event' = [event EXCEPT ![r] = e],
           e.settled => e.cleared \/ e.overlooked,
           UNCHANGED <<stock, reserved, chain, op, locked, customer, sync>>,
           \A s \in Syncs :
               e.at = "committed" /\ r \notin sync[s].raced /\ ~e.overlooked
                   => \/ e.sent /\ e.floor <= sync[s].snapshot[VariantOf(r)]
                      \/ e.cleared
                      \/ sync[s].next # VariantOf(r) /\ VariantOf(r) \notin sync[s].held
    PROVE  SInv'
<1>1. event \in [Returns -> EventRecord]
    BY SyncTypes
<1>2. IInv'
    BY DEF SInv, IInv, TypeOK, LocksAreItems, LocksExclusive, ChecksHold,
           ReservedWithinStock, Items
<1>3. SyncTypeOK' /\ SettledSomehow'
    BY <1>1 DEF SInv, SyncTypeOK, SettledSomehow
<1>4. HeldExclusive' /\ WritesFit'
    BY DEF SInv, HeldExclusive, WritesFit
<1>5. ASSUME NEW s \in Syncs, NEW v, Kept(s, v), sync[s].next = v \/ v \in sync[s].held
      PROVE  Kept(s, v)'
    BY <1>1, <1>5 DEF Kept, Of, VariantOf, Reaches
<1>6. DecisionsHold'
    BY <1>5 DEF SInv, DecisionsHold
<1>7. \A s \in Syncs : \A v \in sync[s].held : Kept(s, v)
    BY DEF SInv, ReturnsAreKept, Kept
<1>8. ReturnsAreKept'
    BY <1>5, <1>7 DEF ReturnsAreKept, Kept
<1> QED
    BY <1>2, <1>3, <1>4, <1>6, <1>8 DEF SInv

\* inspect_item, before it locks the row.
LEMMA StampOK ==
    ASSUME SInv, NEW r \in Returns, Stamp(r)
    PROVE  SInv'
<1> DEFINE e == [event[r] EXCEPT !.at = "stamped"]
<1>1. event[r] \in EventRecord /\ event \in [Returns -> EventRecord]
    BY SyncTypes
<1>2. e \in EventRecord /\ e.at = "stamped"
      /\ e.settled = event[r].settled /\ e.cleared = event[r].cleared
      /\ e.overlooked = event[r].overlooked
    BY <1>1 DEF EventRecord
<1>3. event' = [event EXCEPT ![r] = e]
    BY <1>1 DEF Stamp
<1>4. e.settled => e.cleared \/ e.overlooked
    BY <1>2 DEF SInv, SettledSomehow
<1> HIDE DEF e
<1> QED
    BY <1>2, <1>3, <1>4, EventOK DEF Stamp, OnlyEvent

\* The provider command of a return is sent.
LEMMA SentOK ==
    ASSUME SInv, NEW r \in Returns, CommandSent(r)
    PROVE  SInv'
<1> DEFINE e == [event[r] EXCEPT !.sent = TRUE]
<1>1. event[r] \in EventRecord /\ event \in [Returns -> EventRecord]
    BY SyncTypes
<1>2. e \in EventRecord /\ e.sent /\ e.at = event[r].at /\ e.floor = event[r].floor
      /\ e.settled = event[r].settled /\ e.cleared = event[r].cleared
      /\ e.overlooked = event[r].overlooked
    BY <1>1 DEF EventRecord
<1>3. event' = [event EXCEPT ![r] = e]
    BY <1>1 DEF CommandSent
<1>4. e.settled => e.cleared \/ e.overlooked
    BY <1>2 DEF SInv, SettledSomehow
<1>5. ASSUME NEW s \in Syncs, e.at = "committed", r \notin sync[s].raced, ~e.overlooked
      PROVE  \/ e.sent /\ e.floor <= sync[s].snapshot[VariantOf(r)]
             \/ e.cleared
             \/ sync[s].next # VariantOf(r) /\ VariantOf(r) \notin sync[s].held
    <2>1. VariantOf(r) \in Variants /\ r \in Of(VariantOf(r))
        BY ReturnsAssumption DEF VariantOf, Of
    <2>2. CASE sync[s].next = VariantOf(r)
        <3>1. Kept(s, VariantOf(r))
            BY <2>1, <2>2, NoVariantAssumption DEF SInv, DecisionsHold
        <3> QED
            BY <1>2, <1>5, <2>1, <3>1 DEF Kept, Reaches
    <2>3. CASE VariantOf(r) \in sync[s].held
        <3>1. Reaches(s, r) \/ event[r].cleared
            BY <1>2, <1>5, <2>1, <2>3 DEF SInv, ReturnsAreKept
        <3> QED
            BY <1>2, <3>1 DEF Reaches
    <2> QED
        BY <2>2, <2>3
<1> HIDE DEF e
<1> QED
    BY <1>2, <1>3, <1>4, <1>5, EventOK DEF CommandSent, OnlyEvent

\* The returned goods are put back under the row's lock.
LEMMA RestockOK ==
    ASSUME SInv, NEW r \in Returns, NEW n \in 1..Lines[r[1]][VariantOf(r)], Restock(r, n)
    PROVE  SInv'
<1> DEFINE v == VariantOf(r)
<1>1. /\ v \in Variants /\ n \in Nat
      /\ stock \in [Variants -> Nat] /\ reserved \in [Variants -> Nat]
      /\ event \in [Returns -> EventRecord] /\ sync \in [Syncs -> SyncRecord]
    BY SyncTypes, ReturnsAssumption, LinesAssumption DEF VariantOf
<1>2. /\ \A o \in Orders : v \notin locked[o]
      /\ \A s \in Syncs : v \notin sync[s].held
      /\ stock' = [stock EXCEPT ![v] = @ + n]
      /\ event' = [event EXCEPT ![r].at = "committed", ![r].floor = stock[v] + n]
      /\ UNCHANGED <<reserved, chain, op, locked, customer>>
      /\ sync' = [s \in Syncs |-> IF sync[s].next = v
                                  THEN [sync[s] EXCEPT !.raced = @ \cup {r}]
                                  ELSE sync[s]]
    BY DEF Restock, RowFree, Unheld
<1>3. IInv'
    <2>1. TypeOK'
        BY <1>1, <1>2 DEF SInv, IInv, TypeOK
    <2>2. LocksAreItems' /\ LocksExclusive' /\ ReservedWithinStock'
        BY <1>1, <1>2 DEF SInv, IInv, LocksAreItems, LocksExclusive, ReservedWithinStock, Items
    <2>3. ChecksHold'
        BY <1>1, <1>2 DEF SInv, IInv, ChecksHold, TypeOK
    <2> QED
        BY <2>1, <2>2, <2>3 DEF IInv
<1>4. \A s \in Syncs :
          /\ sync'[s] \in SyncRecord
          /\ sync'[s].held = sync[s].held /\ sync'[s].next = sync[s].next
          /\ sync'[s].write = sync[s].write /\ sync'[s].snapshot = sync[s].snapshot
          /\ sync[s].raced \subseteq sync'[s].raced
          /\ sync[s].next = v => r \in sync'[s].raced
    BY <1>1, <1>2 DEF SyncRecord
<1>5. /\ \A q \in Returns : /\ event'[q] \in EventRecord
                            /\ event'[q].settled = event[q].settled
                            /\ event'[q].cleared = event[q].cleared
                            /\ event'[q].overlooked = event[q].overlooked
                            /\ event'[q].sent = event[q].sent
                            /\ q # r => event'[q] = event[q]
      /\ event' \in [Returns -> EventRecord]
    <2> DEFINE e == [event[r] EXCEPT !.at = "committed", !.floor = stock[v] + n]
    <2>1. event[r] \in EventRecord /\ stock[v] + n \in Nat
        BY <1>1
    <2>2. /\ e \in EventRecord /\ e.settled = event[r].settled
          /\ e.cleared = event[r].cleared /\ e.overlooked = event[r].overlooked
          /\ e.sent = event[r].sent
        BY <2>1 DEF EventRecord
    <2>3. event' = [event EXCEPT ![r] = e]
        BY <1>1, <1>2, <2>1 DEF EventRecord
    <2> HIDE DEF e
    <2> QED
        BY <1>1, <2>2, <2>3
<1>6. SyncTypeOK' /\ SettledSomehow'
    BY <1>2, <1>4, <1>5 DEF SInv, SyncTypeOK, SettledSomehow
<1>7. HeldExclusive' /\ WritesFit'
    BY <1>2, <1>4 DEF SInv, HeldExclusive, WritesFit
<1>8. ASSUME NEW s \in Syncs, NEW w, Kept(s, w), sync[s].next = w \/ w \in sync[s].held
      PROVE  Kept(s, w)'
    <2> SUFFICES ASSUME NEW q \in Of(w)', event'[q].at = "committed",
                        q \notin sync'[s].raced, ~event'[q].overlooked
                 PROVE  Reaches(s, q)' \/ event'[q].cleared
        BY DEF Kept
    <2>1. q \in Returns /\ VariantOf(q) = w
        BY DEF Of, VariantOf
    <2>2. q # r
        BY <1>2, <1>4, <1>8, <2>1
    <2>3. Reaches(s, q) \/ event[q].cleared
        BY <1>4, <1>5, <1>8, <2>1, <2>2 DEF Kept, Of
    <2> QED
        BY <1>4, <1>5, <2>1, <2>2, <2>3 DEF Reaches, VariantOf
<1>9. DecisionsHold'
    BY <1>4, <1>8 DEF SInv, DecisionsHold
<1>10. \A s \in Syncs : \A w \in sync[s].held : Kept(s, w)
    BY DEF SInv, ReturnsAreKept, Kept
<1>11. ReturnsAreKept'
    BY <1>4, <1>8, <1>10 DEF ReturnsAreKept, Kept
<1> QED
    BY <1>3, <1>6, <1>7, <1>9, <1>11 DEF SInv

-----------------------------------------------------------------------------
\* A step of one synchronisation that touches nothing else.
LEMMA GoesOK ==
    ASSUME SInv, NEW s \in Syncs, NEW to \in SyncRecord, Goes(s, to), OnlySync,
           \A v \in to.held : /\ v \in sync[s].held \/ (RowFree(v) /\ Unheld(v))
                              /\ reserved[v] <= to.write[v],
           \A v \in to.held \cup {to.next} : v # NoVariant =>
               \A r \in Of(v) :
                   event[r].at = "committed" /\ r \notin to.raced /\ ~event[r].overlooked
                       => \/ event[r].sent /\ event[r].floor <= to.snapshot[VariantOf(r)]
                          \/ event[r].cleared
    PROVE  SInv'
<1>1. sync \in [Syncs -> SyncRecord] /\ sync' = [sync EXCEPT ![s] = to]
      /\ UNCHANGED <<stock, reserved, chain, op, locked, customer, event>>
    BY SyncTypes DEF Goes, OnlySync
<1>2. IInv'
    BY <1>1 DEF SInv, IInv, TypeOK, LocksAreItems, LocksExclusive, ChecksHold,
           ReservedWithinStock, Items
<1>3. SyncTypeOK' /\ SettledSomehow'
    BY <1>1 DEF SInv, SyncTypeOK, SettledSomehow
<1>4. /\ sync'[s] = to /\ \A t \in Syncs : t # s => sync'[t] = sync[t]
      /\ to.held \subseteq Variants
    BY <1>1 DEF SyncRecord
<1>5. HeldExclusive'
    <2>1. \A v \in to.held : \A t \in Syncs : t # s => v \notin sync[t].held
        BY <1>4 DEF SInv, HeldExclusive, Unheld
    <2>2. \A v \in to.held : \A o \in Orders : v \notin locked[o]
        BY <1>4 DEF SInv, HeldExclusive, RowFree
    <2> QED
        BY <1>1, <1>4, <2>1, <2>2 DEF SInv, HeldExclusive
<1>6. WritesFit'
    BY <1>1, <1>4 DEF SInv, WritesFit
<1>7. ASSUME NEW t \in Syncs, NEW v, Kept(t, v), t # s
      PROVE  Kept(t, v)'
    BY <1>1, <1>4, <1>7 DEF Kept, Of, VariantOf, Reaches
<1>8. ASSUME NEW v \in to.held \cup {to.next}, v # NoVariant
      PROVE  Kept(s, v)'
    BY <1>1, <1>4, <1>8 DEF Kept, Of, VariantOf, Reaches
<1>9. DecisionsHold'
    BY <1>4, <1>7, <1>8 DEF SInv, DecisionsHold
<1>10. \A t \in Syncs : \A v \in sync[t].held : Kept(t, v)
    BY DEF SInv, ReturnsAreKept, Kept
<1>11. ReturnsAreKept'
    BY <1>4, <1>7, <1>8, <1>10, NoVariantAssumption DEF ReturnsAreKept, Kept
<1> QED
    BY <1>2, <1>3, <1>5, <1>6, <1>9, <1>11 DEF SInv

\* What the invariant says of one synchronisation.
LEMMA OfSync ==
    ASSUME SInv, NEW s \in Syncs
    PROVE  /\ sync[s] \in SyncRecord
           /\ \A v \in sync[s].held : reserved[v] <= sync[s].write[v]
           /\ \A v \in sync[s].held \cup {sync[s].next} : v # NoVariant =>
                  \A r \in Of(v) :
                      event[r].at = "committed" /\ r \notin sync[s].raced
                              /\ ~event[r].overlooked
                          => Reaches(s, r) \/ event[r].cleared
<1>1. sync[s] \in SyncRecord
    BY SyncTypes
<1>2. \A v \in sync[s].held : reserved[v] <= sync[s].write[v]
    BY DEF SInv, WritesFit
<1>3. \A v \in sync[s].held : Kept(s, v)
    BY DEF SInv, ReturnsAreKept, Kept
<1>4. sync[s].next # NoVariant => Kept(s, sync[s].next)
    BY DEF SInv, DecisionsHold
<1> QED
    BY <1>1, <1>2, <1>3, <1>4 DEF Kept

\* The synchronisation starts, ends, or is ended.
LEMMA RestingOK ==
    ASSUME SInv, NEW s \in Syncs, SyncStarts(s) \/ SyncEnds(s) \/ SyncAborts(s)
    PROVE  SInv'
<1>1. Resting \in SyncRecord /\ Resting.held = {} /\ Resting.next = NoVariant
    BY DEF Resting, SyncRecord, Nothing
<1>2. CASE SyncStarts(s)
    <2>1. PICK q \in Snapshots : Goes(s, [Resting EXCEPT !.at = "paging", !.snapshot = q])
        BY <1>2 DEF SyncStarts
    <2> DEFINE to == [Resting EXCEPT !.at = "paging", !.snapshot = q]
    <2>2. to \in SyncRecord /\ to.held = {} /\ to.next = NoVariant
        BY <1>1, SnapshotsAssumption DEF Resting, SyncRecord, Nothing
    <2> HIDE DEF to
    <2>3. OnlySync /\ Goes(s, to)
        BY <1>2, <2>1 DEF SyncStarts, to
    <2> QED
        BY <2>2, <2>3, GoesOK
<1>3. CASE SyncEnds(s) \/ SyncAborts(s)
    BY <1>1, <1>3, GoesOK DEF SyncEnds, SyncAborts
<1> QED
    BY <1>2, <1>3

\* evaluate_moysklad_stock_snapshot decides on what is committed by then.
LEMMA EvaluateOK ==
    ASSUME SInv, NEW s \in Syncs, NEW v \in Variants, Evaluate(s, v)
    PROVE  SInv'
<1>1. sync[s] \in SyncRecord /\ v # NoVariant /\ sync[s].next = NoVariant
      /\ event \in [Returns -> EventRecord]
      /\ reserved \in [Variants -> Nat]
    BY SyncTypes, NoVariantAssumption DEF Evaluate
<1>2. OnlySync
    BY DEF Evaluate
<1>3. CASE CaughtUp(s, v) /\ (Pending(v) # {} \/ Target(s, v) # stock[v])
    <2> DEFINE to == [sync[s] EXCEPT !.next = v, !.target = Target(s, v),
                                     !.writes = Target(s, v) # stock[v],
                                     !.seen = Pending(v)]
    <2>1. Target(s, v) \in Nat
        BY <1>1 DEF Target, SyncRecord
    <2>2. Pending(v) \subseteq Returns
        BY DEF Pending, Of
    <2>3. /\ to \in SyncRecord /\ to.next = v /\ to.held = sync[s].held
          /\ to.write = sync[s].write /\ to.raced = sync[s].raced
          /\ to.snapshot = sync[s].snapshot
        BY <1>1, <2>1, <2>2 DEF SyncRecord
    <2>4. Goes(s, to)
        BY <1>3 DEF Evaluate
    <2> HIDE DEF to
    <2>5. \A r \in Of(v) :
              event[r].at = "committed" /\ ~event[r].overlooked
                  => Reaches(s, r) \/ event[r].cleared
        BY <1>3 DEF CaughtUp, Pending, SInv, SettledSomehow, Of
    <2>6. \A w \in to.held : w # NoVariant /\ w \in sync[s].held
        BY <1>1, <2>3, NoVariantAssumption DEF SyncRecord
    <2>7. \A w \in to.held \cup {to.next} : w # NoVariant =>
               \A r \in Of(w) :
                   event[r].at = "committed" /\ r \notin to.raced /\ ~event[r].overlooked
                       => \/ event[r].sent /\ event[r].floor <= to.snapshot[VariantOf(r)]
                          \/ event[r].cleared
        BY <2>3, <2>5, OfSync DEF Reaches
    <2> QED
        BY <1>2, <2>3, <2>4, <2>6, <2>7, OfSync, GoesOK
<1>4. CASE ~(CaughtUp(s, v) /\ (Pending(v) # {} \/ Target(s, v) # stock[v]))
    <2> DEFINE to == [sync[s] EXCEPT !.done = @ \cup {v}]
    <2>1. /\ to \in SyncRecord /\ to.next = sync[s].next /\ to.held = sync[s].held
          /\ to.write = sync[s].write /\ to.raced = sync[s].raced
          /\ to.snapshot = sync[s].snapshot
        BY <1>1 DEF SyncRecord
    <2>2. Goes(s, to)
        BY <1>4 DEF Evaluate
    <2> HIDE DEF to
    <2> QED
        BY <1>2, <2>1, <2>2, OfSync, GoesOK DEF Reaches
<1> QED
    BY <1>3, <1>4

\* adjust_stock checks the target once more under the row's lock.
LEMMA FinishOK ==
    ASSUME SInv, NEW s \in Syncs, Finish(s)
    PROVE  SInv'
<1> DEFINE v == sync[s].next
           to == Finished(s)
<1>1. sync[s] \in SyncRecord /\ v # NoVariant /\ v \in Variants
      /\ reserved \in [Variants -> Nat]
    BY SyncTypes DEF Finish, SyncRecord
<1>2. OnlySync /\ (sync[s].writes => RowFree(v) /\ Unheld(v))
    BY DEF Finish
<1>3. CASE sync[s].writes /\ sync[s].target < reserved[v]
    <2>1. Resting \in SyncRecord /\ Resting.held = {} /\ Resting.next = NoVariant
        BY DEF Resting, SyncRecord, Nothing
    <2>2. Goes(s, Resting)
        BY <1>3 DEF Finish
    <2> QED
        BY <1>2, <2>1, <2>2, GoesOK
<1>4. CASE ~(sync[s].writes /\ sync[s].target < reserved[v])
    <2>1. Goes(s, to)
        BY <1>4 DEF Finish
    <2>2. /\ to \in SyncRecord /\ to.next = NoVariant
          /\ to.raced = sync[s].raced /\ to.snapshot = sync[s].snapshot
        <3>1. {r \in Of(v) : event[r].at # "none"} \subseteq Returns
            BY DEF Of
        <3>2. sync[s].target \in Nat /\ sync[s].write \in [Variants -> Nat]
              /\ sync[s].settles \subseteq Returns /\ sync[s].clears \subseteq Returns
              /\ sync[s].seen \subseteq Returns /\ sync[s].held \subseteq Variants
              /\ sync[s].done \subseteq Variants
            BY <1>1 DEF SyncRecord
        <3> QED
            BY <1>1, <3>1, <3>2 DEF Finished, SyncRecord
    <2>3. /\ sync[s].writes => /\ to.held = sync[s].held \cup {v}
                               /\ to.write = [sync[s].write EXCEPT ![v] = sync[s].target]
          /\ ~sync[s].writes => to.held = sync[s].held /\ to.write = sync[s].write
        BY <1>1 DEF Finished, SyncRecord
    <2> HIDE DEF to
    <2>4. \A w \in to.held : w \in sync[s].held \/ w = v
        BY <2>3
    <2>5. \A w \in to.held : /\ w \in sync[s].held \/ (RowFree(w) /\ Unheld(w))
                             /\ reserved[w] <= to.write[w]
        <3>1. sync[s].write \in [Variants -> Nat] /\ sync[s].target \in Nat
              /\ sync[s].held \subseteq Variants
            BY <1>1 DEF SyncRecord
        <3> QED
            BY <1>1, <1>2, <1>4, <2>3, <3>1, OfSync
    <2>6. \A w \in to.held \cup {to.next} : w # NoVariant =>
               \A r \in Of(w) :
                   event[r].at = "committed" /\ r \notin to.raced /\ ~event[r].overlooked
                       => \/ event[r].sent /\ event[r].floor <= to.snapshot[VariantOf(r)]
                          \/ event[r].cleared
        BY <2>2, <2>4, OfSync DEF Reaches
    <2> QED
        BY <1>2, <2>1, <2>2, <2>5, <2>6, GoesOK
<1> QED
    BY <1>3, <1>4

\* The page commits.
LEMMA SyncCommitsOK ==
    ASSUME SInv, NEW s \in Syncs, SyncCommits(s)
    PROVE  SInv'
<1> DEFINE to == [sync[s] EXCEPT !.held = {}, !.write = Nothing, !.settles = {},
                                 !.clears = {}, !.raced = {}]
<1>1. /\ stock \in [Variants -> Nat] /\ reserved \in [Variants -> Nat]
      /\ event \in [Returns -> EventRecord] /\ sync \in [Syncs -> SyncRecord]
      /\ sync[s] \in SyncRecord
    BY SyncTypes
<1>2. /\ stock' = [v \in Variants |-> IF v \in sync[s].held THEN sync[s].write[v]
                                      ELSE stock[v]]
      /\ event' = [r \in Returns |->
                      IF r \in sync[s].settles
                      THEN [event[r] EXCEPT !.settled = TRUE,
                                            !.cleared = @ \/ r \in sync[s].clears,
                                            !.overlooked = @ \/ r \notin sync[s].clears]
                      ELSE event[r]]
      /\ UNCHANGED <<reserved, chain, op, locked, customer>>
      /\ sync' = [sync EXCEPT ![s] = to]
      /\ sync[s].next = NoVariant
    BY DEF SyncCommits, Goes
<1>3. to \in SyncRecord /\ to.held = {} /\ to.next = NoVariant
    BY <1>1, <1>2 DEF SyncRecord, Nothing
<1> HIDE DEF to
<1>4. sync'[s] = to /\ \A t \in Syncs : t # s => sync'[t] = sync[t]
    BY <1>1, <1>2
<1>5. \A v \in sync[s].held : reserved[v] <= sync[s].write[v]
                              /\ \A o \in Orders : v \notin locked[o]
    BY OfSync, HeldRows
<1>6. IInv'
    <2>1. TypeOK'
        <3>1. sync[s].write \in [Variants -> Nat]
            BY <1>1 DEF SyncRecord
        <3> QED
            BY <1>1, <1>2, <3>1 DEF SInv, IInv, TypeOK
    <2>2. LocksAreItems' /\ LocksExclusive' /\ ReservedWithinStock'
        BY <1>1, <1>2, <1>5 DEF SInv, IInv, LocksAreItems, LocksExclusive,
            ReservedWithinStock, Items
    <2>3. ChecksHold'
        BY <1>1, <1>2, <1>5 DEF SInv, IInv, ChecksHold, TypeOK
    <2> QED
        BY <2>1, <2>2, <2>3 DEF IInv
<1>7. \A r \in Returns :
          /\ event'[r] \in EventRecord
          /\ event'[r].at = event[r].at /\ event'[r].floor = event[r].floor
          /\ event'[r].sent = event[r].sent
          /\ event[r].cleared => event'[r].cleared
          /\ event[r].overlooked => event'[r].overlooked
          /\ event'[r].settled => event'[r].cleared \/ event'[r].overlooked
    BY <1>1, <1>2 DEF EventRecord, SInv, SettledSomehow
<1>8. SyncTypeOK' /\ SettledSomehow'
    BY <1>1, <1>2, <1>3, <1>7 DEF SyncTypeOK, SettledSomehow
<1>9. HeldExclusive' /\ WritesFit'
    BY <1>2, <1>3, <1>4 DEF SInv, HeldExclusive, WritesFit
<1>10. ASSUME NEW t \in Syncs, NEW v, Kept(t, v), t # s
       PROVE  Kept(t, v)'
    BY <1>4, <1>7, <1>10 DEF Kept, Of, VariantOf, Reaches
<1>11. DecisionsHold'
    BY <1>3, <1>4, <1>10 DEF SInv, DecisionsHold
<1>12. \A t \in Syncs : \A v \in sync[t].held : Kept(t, v)
    BY DEF SInv, ReturnsAreKept, Kept
<1>13. ReturnsAreKept'
    BY <1>3, <1>4, <1>10, <1>12 DEF ReturnsAreKept, Kept
<1> QED
    BY <1>6, <1>8, <1>9, <1>11, <1>13 DEF SInv

-----------------------------------------------------------------------------
\* The inductive invariant holds in every reachable state.
THEOREM SyncInvariance == SyncSpec => []SInv
<1>1. SInv /\ [SyncNext]_allVars => SInv'
    <2> SUFFICES ASSUME SInv, [SyncNext]_allVars PROVE SInv'
        OBVIOUS
    <2>1. ASSUME NEW r \in Returns, ReturnStep(r) PROVE SInv'
        BY <2>1, StampOK, SentOK, RestockOK DEF ReturnStep
    <2>2. ASSUME NEW s \in Syncs, SyncStep(s) PROVE SInv'
        BY <2>2, RestingOK, EvaluateOK, FinishOK, SyncCommitsOK DEF SyncStep
    <2>3. CASE UNCHANGED allVars
        <3>1. UNCHANGED syncVars /\ UNCHANGED <<stock, reserved, chain, op, locked, customer>>
            BY <2>3 DEF allVars, syncVars
        <3>2. IInv'
            BY <3>1
            DEF SInv, IInv, TypeOK, LocksAreItems, LocksExclusive, ChecksHold,
                ReservedWithinStock, Items
        <3> QED
            BY <3>1, <3>2, ApartOK, HeldRows
    <2> QED
        BY <2>1, <2>2, <2>3, ShopOK DEF SyncNext
<1> QED
    BY <1>1, SyncInitOK, PTL DEF SyncSpec

\* Quantities stay natural numbers: no subtraction goes below zero.
THEOREM TypeCorrect == SyncSpec => [](TypeOK /\ SyncTypeOK)
<1>1. SInv => TypeOK /\ SyncTypeOK
    BY DEF SInv, IInv
<1> QED
    BY <1>1, SyncInvariance, PTL

\* reserve_variant, release_variants, commit_reservations_to_sold, adjust_stock,
\* inspect_item and the synchronisation never promise more of a variant than is
\* in stock.
THEOREM ReservedWithinStockAlways == SyncSpec => []ReservedWithinStock
<1>1. SInv => ReservedWithinStock
    BY DEF SInv, IInv
<1> QED
    BY <1>1, SyncInvariance, PTL

\* What the orders hold is right beside whatever else is.
LEMMA OwedInvariance == SyncSpec => [](SInv /\ OwedInv)
<1>1. SyncInit => OwedInv
    BY OwedInit DEF SyncInit
<1>2. SInv /\ OwedInv /\ [SyncNext]_allVars => OwedInv'
    <2> SUFFICES ASSUME SInv, OwedInv, [SyncNext]_allVars PROVE OwedInv'
        OBVIOUS
    <2>1. TypeOK
        BY DEF SInv, IInv
    <2>2. CASE Shop
        BY <2>1, <2>2, OwedStep, OwedAside DEF Shop, Proceeds, AdjustStock
    <2>3. ASSUME NEW r \in Returns, ReturnStep(r) PROVE OwedInv'
        BY <2>3, OwedAside DEF ReturnStep, Stamp, CommandSent, Restock, OnlyEvent
    <2>4. ASSUME NEW s \in Syncs, SyncStep(s) PROVE OwedInv'
        BY <2>4, OwedAside
        DEF SyncStep, SyncStarts, Finish, SyncCommits, SyncEnds, SyncAborts,
            Evaluate, OnlySync
    <2>5. CASE UNCHANGED allVars
        BY <2>5, OwedAside DEF allVars
    <2> QED
        BY <2>2, <2>3, <2>4, <2>5 DEF SyncNext
<1> QED
    BY <1>1, <1>2, SyncInvariance, PTL DEF SyncSpec

\* Whatever checkouts, settlements, cancellations, adjustments, inspections and
\* synchronisations interleave and roll back, a variant's reserved quantity is
\* exactly what the orders that hold a reservation are owed: reserve_variant,
\* release_variants and commit_reservations_to_sold leak nothing.
THEOREM ReservedIsOwedAlways == SyncSpec => []ReservedIsOwed
<1>1. OwedInv => ReservedIsOwed
    BY DEF OwedInv
<1> QED
    BY <1>1, OwedInvariance, PTL

\* evaluate_moysklad_stock_snapshot keeps returned goods from being overwritten,
\* but for what it cannot have seen.
THEOREM ReturnsAreKeptAlways == SyncSpec => []ReturnsAreKept
<1>1. SInv => ReturnsAreKept
    BY DEF SInv
<1> QED
    BY <1>1, SyncInvariance, PTL

-----------------------------------------------------------------------------
(***************************************************************************)
(* The refinement: a transaction that commits does to the stock what it    *)
(* would have done alone, and every other step leaves the stock as it is.  *)
(***************************************************************************)
LEMMA ReserveLedger ==
    ASSUME SInv, OwedInv, NEW o \in Orders, CommitReservation(o)
    PROVE  Ledger!Reserve(o)
<1>1. op[o] = "reserve" /\ locked[o] = Items(o) /\ chain[o] = "none"
    BY DEF CommitReservation, Complete, OwedInv, OperationFits
<1>2. ASSUME NEW v \in Variants
      PROVE  reserved[v] + Lines[o][v] <= stock[v]
    <2>1. CASE v \in Items(o)
        BY <1>1, <2>1 DEF SInv, IInv, ChecksHold
    <2>2. CASE v \notin Items(o)
        <3>1. Lines[o][v] = 0 /\ reserved[v] \in Nat /\ reserved[v] <= stock[v]
            BY <2>2, LinesAre DEF SInv, IInv, TypeOK, ReservedWithinStock
        <3> QED
            BY <3>1
    <2> QED
        BY <2>1, <2>2
<1> QED
    BY <1>1, <1>2 DEF CommitReservation, Ledger!Reserve

LEMMA SaleLedger ==
    ASSUME SInv, OwedInv, NEW o \in Orders, CommitSale(o)
    PROVE  Ledger!Sell(o)
<1>1. chain[o] = "reserved"
    BY DEF CommitSale, Complete, OwedInv, OperationFits
<1> QED
    BY <1>1 DEF CommitSale, Ledger!Sell, Ledger!Returned

LEMMA ReleaseLedger ==
    ASSUME SInv, OwedInv, NEW o \in Orders, CommitRelease(o)
    PROVE  Ledger!Release(o)
<1>1. chain[o] = "reserved"
    BY DEF CommitRelease, Complete, OwedInv, OperationFits
<1> QED
    BY <1>1 DEF CommitRelease, Ledger!Release, Ledger!Returned

\* Whoever sets the stock without touching a reservation, sets it high enough.
LEMMA RecountLedger ==
    ASSUME SInv', UNCHANGED <<reserved, chain>>
    PROVE  Ledger!Recount
<1>1. stock' \in [Variants -> Nat] /\ \A v \in Variants : reserved'[v] <= stock'[v]
    BY DEF SInv, IInv, TypeOK, ReservedWithinStock
<1> QED
    BY <1>1 DEF Ledger!Recount

\* Locks, checks and visits of a synchronisation are steps of nobody's ledger.
LEMMA LedgerStep ==
    ASSUME SInv, SInv', OwedInv, [SyncNext]_allVars
    PROVE  [Ledger!Next]_<<stock, reserved, chain>>
<1>1. ASSUME UNCHANGED <<reserved, chain>>
      PROVE  Ledger!Next
    BY <1>1, RecountLedger DEF Ledger!Next
<1>2. ASSUME NEW o \in Orders, CommitReservation(o) \/ CommitSale(o) \/ CommitRelease(o)
      PROVE  Ledger!Next
    BY <1>2, ReserveLedger, SaleLedger, ReleaseLedger DEF Ledger!Next
<1>3. CASE Shop
    <2>1. ASSUME NEW o \in Orders, \E kind \in Operations : Begin(o, kind)
          PROVE  Ledger!Next
        BY <1>1, <2>1 DEF Begin
    <2>2. ASSUME NEW o \in Orders, Proceeds(o)
          PROVE  Ledger!Next
        BY <1>1, <1>2, <2>2 DEF Proceeds, LockCustomer, LockRow
    <2>3. ASSUME NEW o \in Orders, Rollback(o)
          PROVE  Ledger!Next
        BY <1>1, <2>3 DEF Rollback
    <2>4. ASSUME NEW v \in Variants, NEW q \in 0..MaxStock, AdjustStock(v, q)
          PROVE  Ledger!Next
        BY <1>1, <2>4 DEF AdjustStock
    <2> QED
        BY <1>3, <2>1, <2>2, <2>3, <2>4 DEF Shop
<1>4. ASSUME NEW r \in Returns, ReturnStep(r)
      PROVE  Ledger!Next
    BY <1>1, <1>4 DEF ReturnStep, Stamp, CommandSent, Restock, OnlyEvent
<1>5. ASSUME NEW s \in Syncs, SyncStep(s)
      PROVE  Ledger!Next
    BY <1>1, <1>5
    DEF SyncStep, SyncStarts, Finish, SyncCommits, SyncEnds, SyncAborts, Evaluate, OnlySync
<1>6. CASE UNCHANGED allVars
    BY <1>6 DEF allVars
<1> QED
    BY <1>3, <1>4, <1>5, <1>6 DEF SyncNext

\* Row by row as reserve_variant, release_variants, commit_reservations_to_sold,
\* adjust_stock, inspect_item and the synchronisation go, the stock changes as
\* if each transaction were done at one instant.
THEOREM LedgerImplemented == SyncSpec => ImplementsLedger
<1>1. SyncInit => Ledger!Init
    BY MaxStockAssumption DEF SyncInit, Init, Ledger!Init
<1>2. SInv /\ SInv' /\ OwedInv /\ [SyncNext]_allVars
         => [Ledger!Next]_<<stock, reserved, chain>>
    BY LedgerStep
<1> QED
    BY <1>1, <1>2, OwedInvariance, PTL DEF SyncSpec, ImplementsLedger, Ledger!Spec

-----------------------------------------------------------------------------
(***************************************************************************)
(* Waits.  An order waits for its customer's row, before it has any other, *)
(* or for the next row of its lines.  Rows are locked in ascending order,  *)
(* so whoever has the highest row that is waited for waits for none.       *)
(***************************************************************************)
AwaitsCustomer(o) == CustomerDue(o) /\ ~customer[o]
AwaitsRow(o, v) == /\ op[o] # "none"
                   /\ CustomerDue(o) => customer[o]
                   /\ NextRow(o, v)

WaitsFor(o, p) ==
    \/ AwaitsCustomer(o) /\ CustomerOf[p] = CustomerOf[o] /\ customer[p]
    \/ \E v \in locked[p] : AwaitsRow(o, v)

\* No set of orders in which each waits for one of them.
NoCircle ==
    \A S \in SUBSET Orders : S # {} => \E o \in S : \A p \in S : ~WaitsFor(o, p)

Ascending == \A o \in Orders : \A v \in locked[o], w \in Items(o) \ locked[o] : v < w

\* A set of numbers, finite and not empty, has a greatest.
LEMMA Greatest ==
    ASSUME NEW S, S \subseteq Nat, IsFiniteSet(S), S # {}
    PROVE  \E m \in S : \A v \in S : v <= m
<1> DEFINE B == {T \in SUBSET S : T # {} /\ ~ \E m \in T : \A v \in T : v <= m}
<1> SUFFICES ASSUME B # {} PROVE FALSE
    BY DEF B
<1>1. PICK T \in B : \A U \in B : ~(U \subseteq T /\ U # T)
    <2>1. B \subseteq SUBSET S /\ B # {} /\ IsFiniteSet(S)
        OBVIOUS
    <2> HIDE DEF B
    <2> QED
        BY ONLY <2>1, SmallestSet
<1>2. PICK x \in T : TRUE
    OBVIOUS
<1>3. T \ {x} \notin B
    BY <1>1, <1>2
<1>4. T # {x}
    OBVIOUS
<1>5. PICK m \in T \ {x} : \A v \in T \ {x} : v <= m
    BY <1>2, <1>3, <1>4
<1>6. CASE x <= m
    BY <1>5, <1>6
<1>7. CASE ~(x <= m)
    BY <1>2, <1>5, <1>7
<1> QED
    BY <1>6, <1>7

LEMMA AscendingNoCircle ==
    ASSUME TypeOK, Ascending
    PROVE  NoCircle
<1> SUFFICES ASSUME NEW S \in SUBSET Orders, S # {},
                    \A o \in S : \E p \in S : WaitsFor(o, p)
             PROVE  FALSE
    BY DEF NoCircle
<1> DEFINE Awaited(v) == \E o \in S, p \in S : v \in locked[p] /\ AwaitsRow(o, v)
           R == {v \in Variants : Awaited(v)}
           row == [o \in S |-> CHOOSE v : AwaitsRow(o, v)]
<1>1. locked \in [Orders -> SUBSET Variants] /\ Variants \subseteq Nat
    BY VariantsAssumption DEF TypeOK
<1>2. \A p \in S : customer[p] \/ locked[p] # {} => \E v \in R : AwaitsRow(p, v)
    <2> SUFFICES ASSUME NEW p \in S, customer[p] \/ locked[p] # {}
                 PROVE  \E v \in R : AwaitsRow(p, v)
        OBVIOUS
    <2>1. ~AwaitsCustomer(p)
        BY DEF AwaitsCustomer, CustomerDue
    <2>2. PICK q \in S : WaitsFor(p, q)
        OBVIOUS
    <2>3. PICK v \in locked[q] : AwaitsRow(p, v)
        BY <2>1, <2>2 DEF WaitsFor
    <2>4. v \in Variants
        BY <1>1
    <2> QED
        BY <2>3, <2>4
<1>3. R # {}
    <2>1. PICK o \in S : TRUE
        OBVIOUS
    <2>2. PICK p \in S : WaitsFor(o, p)
        OBVIOUS
    <2>3. customer[p] \/ locked[p] # {}
        BY <2>2 DEF WaitsFor
    <2> QED
        BY <1>2, <2>3
<1>4. IsFiniteSet(R)
    <2>1. IsFiniteSet(S)
        BY OrdersAssumption, FS_Subset
    <2>2. row \in Surjection(S, {row[o] : o \in S})
        BY Zenon DEF Surjection
    <2>3. IsFiniteSet({row[o] : o \in S})
        <3> HIDE DEF row
        <3> QED
            BY <2>1, <2>2, FS_Surjection
    <2>4. R \subseteq {row[o] : o \in S}
        <3> SUFFICES ASSUME NEW v \in R PROVE \E o \in S : v = row[o]
            OBVIOUS
        <3>1. PICK o \in S : AwaitsRow(o, v)
            OBVIOUS
        <3>2. \A w : AwaitsRow(o, w) => w = v
            BY <1>1, <3>1 DEF AwaitsRow, NextRow, Items
        <3> QED
            BY <3>1, <3>2
    <2> QED
        BY <2>3, <2>4, FS_Subset
<1>5. PICK m \in R : \A v \in R : v <= m
    <2>1. R \subseteq Nat
        BY <1>1
    <2> HIDE DEF R
    <2> QED
        BY <1>3, <1>4, <2>1, Greatest
<1>6. PICK p \in S : m \in locked[p]
    OBVIOUS
<1>7. PICK w \in R : AwaitsRow(p, w)
    BY <1>2, <1>6
<1>8. m < w
    BY <1>6, <1>7 DEF AwaitsRow, NextRow, Ascending
<1>9. m \in Nat /\ w \in Nat /\ w <= m
    BY <1>1, <1>5
<1> QED
    BY <1>8, <1>9

LEMMA AscendingStep ==
    ASSUME TypeOK, LocksAreItems, Ascending, NEW o \in Orders,
           \/ UNCHANGED locked
           \/ Ends(o)
           \/ \E v \in Variants : LockRow(o, v)
    PROVE  Ascending'
<1>1. locked \in [Orders -> SUBSET Variants] /\ Variants \subseteq Nat
    BY VariantsAssumption DEF TypeOK
<1>2. CASE UNCHANGED locked
    BY <1>2 DEF Ascending, Items
<1>3. CASE Ends(o)
    BY <1>1, <1>3 DEF Ascending, Items, Ends
<1>4. ASSUME NEW v \in Variants, NextRow(o, v),
             locked' = [locked EXCEPT ![o] = @ \cup {v}]
      PROVE  Ascending'
    <2> SUFFICES ASSUME NEW p \in Orders, NEW x \in locked'[p], NEW w \in Items(p),
                        w \notin locked'[p]
                 PROVE  x < w
        BY DEF Ascending, Items
    <2>1. CASE p # o \/ x # v
        BY <1>1, <1>4, <2>1 DEF Ascending
    <2>2. CASE p = o /\ x = v
        BY <1>1, <1>4, <2>2 DEF NextRow, Items
    <2> QED
        BY <2>1, <2>2
<1> QED
    BY <1>2, <1>3, <1>4 DEF LockRow

\* reserve_variant and _load_locked_variants lock in the order of ids, and the
\* customer's row before them: however checkouts, settlements and cancellations
\* overlap, no circle of them waits for each other's rows.  A circle that the
\* database has to break has a synchronisation in it.
THEOREM NoCircleOfOrders == SyncSpec => []NoCircle
<1>1. SyncInit => Ascending
    BY DEF SyncInit, Init, Ascending
<1>2. SInv /\ Ascending /\ [SyncNext]_allVars => Ascending'
    <2> SUFFICES ASSUME SInv, Ascending, [SyncNext]_allVars PROVE Ascending'
        OBVIOUS
    <2>1. TypeOK /\ LocksAreItems
        BY DEF SInv, IInv
    <2>2. ASSUME UNCHANGED locked PROVE Ascending'
        BY <2>2 DEF Ascending, Items
    <2>3. CASE Shop
        BY <2>1, <2>2, <2>3, AscendingStep
        DEF Shop, Proceeds, Begin, LockCustomer, CommitReservation, CommitSale,
            CommitRelease, Rollback, AdjustStock
    <2>4. ASSUME NEW r \in Returns, ReturnStep(r) PROVE Ascending'
        BY <2>2, <2>4 DEF ReturnStep, Stamp, CommandSent, Restock, OnlyEvent
    <2>5. ASSUME NEW s \in Syncs, SyncStep(s) PROVE Ascending'
        BY <2>2, <2>5
        DEF SyncStep, SyncStarts, Finish, SyncCommits, SyncEnds, SyncAborts,
            Evaluate, OnlySync
    <2> QED
        BY <2>2, <2>3, <2>4, <2>5 DEF SyncNext, allVars
<1>3. SInv /\ Ascending => NoCircle
    BY AscendingNoCircle DEF SInv, IInv
<1> QED
    BY <1>1, <1>2, <1>3, SyncInvariance, PTL DEF SyncSpec

=============================================================================
