------------------------- MODULE MCStockTransactions --------------------------
(***************************************************************************)
(* Two orders over the same two variants, and as many concurrent           *)
(* transactions as Workers has members.                                    *)
(***************************************************************************)
EXTENDS StockTransactions, TLC

CONSTANTS o1, o2

MCOrders == {o1, o2}
MCVariants == {1, 2}
MCQuantity == o1 :> <<1, 1>> @@ o2 :> <<1, 1>>
Symmetry == Permutations(Workers)
===============================================================================
