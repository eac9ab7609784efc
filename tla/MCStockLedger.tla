---------------------------- MODULE MCStockLedger ----------------------------
(* StockLedger for TLC: a plain order, a modified one and one that consumes *)
(* nothing, whose recipes name the ingredients in opposite orders.           *)
EXTENDS StockLedger, TLC

CONSTANTS plain, modified, empty

G(i, q) == [ingredient |-> i, qty |-> q]

MCItems(o) ==
    CASE o = plain    -> <<[qty |-> 1, recipe |-> <<G(2, 1), G(1, 1), G(2, 1)>>,
                            removed |-> {}, added |-> <<>>, modified |-> FALSE]>>
      [] o = modified -> <<[qty |-> 2, recipe |-> <<G(1, 1), G(2, 3)>>,
                            removed |-> {2}, added |-> <<G(2, 1)>>, modified |-> TRUE],
                           [qty |-> 0, recipe |-> <<G(1, 1)>>,
                            removed |-> {}, added |-> <<>>, modified |-> FALSE]>>
      [] o = empty    -> <<[qty |-> 0, recipe |-> <<G(1, 1)>>,
                            removed |-> {}, added |-> <<>>, modified |-> TRUE]>>

\* No two keys collide.
MCHash(key) == key

Symmetry == Permutations(Sessions)
=============================================================================
