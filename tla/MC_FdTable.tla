---------------------------- MODULE MC_FdTable ----------------------------
(***************************************************************************)
(* FdTable with two threads, two tables and two entries, and tables that   *)
(* grow from one slot to the limit of three.                               *)
(***************************************************************************)
EXTENDS FdTable, TLC

Symmetry == Permutations(Threads) \cup Permutations(Tables) \cup Permutations(Entries)
=============================================================================
