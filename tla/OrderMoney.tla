----------------------------- MODULE OrderMoney -----------------------------
(***************************************************************************)
(* How an order's money is divided among its lines, a line's money among   *)
(* the quantities that come back, and a quantity's among its dispositions, *)
(* in whole cents and without a remainder.                                 *)
(***************************************************************************)
EXTENDS Integers, Sequences, Functions

Dispositions == {"resalable", "damaged", "quarantine"}

\* Sum of the numbers from index i of the sequence on.
RestOf(seq, i) == SumFunctionOnSet(seq, i..Len(seq))

\* allocate_order_money: the net cents of each line of an order whose lines
\* have these gross values and whose merchandise was sold for target.
NetLines(gross, target) ==
    LET n == Len(gross)
        left[i \in 0..n] ==
            IF i = 0 THEN target
            ELSE IF i = n THEN 0
            ELSE left[i - 1] - (gross[i] * left[i - 1]) \div RestOf(gross, i)
    IN [i \in 1..n |-> left[i - 1] - left[i]]

\* _allocate_remaining_cents: of the cents that are left for rest units, the
\* share of quantity of them, rounded half up; the last ones take all.
Share(cents, quantity, rest) ==
    IF quantity = rest THEN cents
    ELSE (2 * cents * quantity + rest) \div (2 * rest)

ShareIfAny(cents, quantity, rest) ==
    IF quantity = 0 THEN 0 ELSE Share(cents, quantity, rest)

\* _split_disposition_cents.
SplitCents(counts, cents) ==
    LET rest == counts.resalable + counts.damaged + counts.quarantine
        first == ShareIfAny(cents, counts.resalable, rest)
        second == ShareIfAny(cents - first, counts.damaged, rest - counts.resalable)
        third == ShareIfAny(cents - first - second, counts.quarantine,
                            counts.quarantine)
    IN [resalable |-> first, damaged |-> second, quarantine |-> third]

\* _physical_return_positions: a document prices units in whole cents, so some
\* of them one cent higher.
RenderedCents(quantity, cents) ==
    IF quantity = 0 THEN 0
    ELSE LET base == cents \div quantity
             dearer == cents % quantity
         IN (quantity - dearer) * base + dearer * (base + 1)

=============================================================================
