----------------------------- MODULE MCPosFloor -----------------------------
(* PosFloor for TLC: interchangeable ids. *)
EXTENDS PosFloor

MCRazones == {<<1, 1>>}

\* An item, and one whose discount exceeds it.
MCPrecios == {-1, 2}

Symmetry == Permutations(Tenders) \cup Permutations(OpIds) \cup Permutations(Partidas)

\* Bound: a behaviour is followed up to the first item id that is sent again.
Bound == reenviadas = {}
=============================================================================
