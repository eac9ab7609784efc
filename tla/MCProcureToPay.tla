---------------------------- MODULE MCProcureToPay ----------------------------
(* ProcureToPay for TLC: one order of two items, delivered in parts.         *)
EXTENDS ProcureToPay, TLC

CONSTANTS p1, i1, i2

MCOrdenDe == (i1 :> p1) @@ (i2 :> p1)
MCOrdered == (i1 :> 2) @@ (i2 :> 1)
MCUnitCost == (i1 :> 1) @@ (i2 :> 0)

L(i, q, c) == [item |-> i, qty |-> q, cost |-> c]

\* Deliveries that name an item once.
MCDeliveries == {<<L(i1, 1, 3)>>, <<L(i1, 1, 2), L(i2, 1, 2)>>, <<L(i2, 1, 0)>>}

\* A delivery that names an item twice.
MCRepeated == {<<L(i1, 1, 1)>>, <<L(i1, 2, 1), L(i1, 1, 1)>>}

Symmetry == Permutations(Receipts) \cup Permutations(References) \cup Permutations(Receivables)
            \cup Permutations(Connections)
=============================================================================
