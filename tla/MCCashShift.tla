---------------------------- MODULE MCCashShift ----------------------------
(* CashShift for TLC: interchangeable shifts, operators and calls. *)
EXTENDS CashShift, TLC

Symmetry == Permutations(Turnos) \cup Permutations(Operadores) \cup Permutations(Requests)
=============================================================================
