--------------------------- MODULE MCSyncPipeline ---------------------------
(* Instances of SyncPipeline for TLC.                                        *)
EXTENDS SyncPipeline, TLC

\* For the runs without liveness properties.
Symmetry == Permutations(Ops \ Poison)
=============================================================================
