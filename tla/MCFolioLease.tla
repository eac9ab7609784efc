---------------------------- MODULE MCFolioLease ----------------------------
(* Instances of FolioLease for TLC.                                          *)
EXTENDS FolioLease
=============================================================================
