---------------------------- MODULE MCStockSync ----------------------------
(***************************************************************************)
(* StockSync for TLC: three orders over two variants.  The first two are   *)
(* one customer's and together exceed the stock; the third is another's    *)
(* and shares both variants with them.  A unit of the first may come back, *)
(* and MoySklad's report has none of it or more than the shop ever had.    *)
(***************************************************************************)
EXTENDS StockSync, TLC

CONSTANTS o1, o2, o3, alice, bob

MCVariants == {1, 2}
MCCustomerOf == o1 :> alice @@ o2 :> alice @@ o3 :> bob
MCLines == o1 :> <<1, 1>> @@ o2 :> <<1, 0>> @@ o3 :> <<1, 1>>
MCReturns == {<<o1, 1>>}
MCSnapshots == {<<0, 0>>, <<2, 0>>}

=============================================================================
