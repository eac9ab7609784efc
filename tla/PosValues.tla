----------------------------- MODULE PosValues -----------------------------
(* What the tables of the databases share: the value of an empty column.    *)

CONSTANT NULL
=============================================================================
