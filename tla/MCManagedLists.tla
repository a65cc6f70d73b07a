--------------------------- MODULE MCManagedLists ---------------------------
(* Instance of ManagedLists for TLC.                                       *)
EXTENDS ManagedLists

(* Three rows and two sort values: two rows at least have the same value.  *)
MCIds == 1..3
MCValues == 1..2
=============================================================================
