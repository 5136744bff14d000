------------------------------ MODULE MC_Proc ------------------------------
(***************************************************************************)
(* Proc with init, one process without a parent, and two to fork: enough   *)
(* for a grandchild to be orphaned and for a process of two threads.       *)
(***************************************************************************)
EXTENDS Proc, TLC

CONSTANTS i, p1, p2, p3, ti, t1, t2, t3, t4
Symmetry == Permutations({p2, p3}) \cup Permutations({t2, t3, t4})
=============================================================================
