----------------------------- MODULE MC_Sched -----------------------------
(***************************************************************************)
(* Sched with three workers, two of them enqueued at boot, and as many     *)
(* feedback levels as a demotion and a boost need.                         *)
(***************************************************************************)
EXTENDS Sched

CONSTANTS t1, t2, t3
MCBootQueue == <<t1, t2>>
=============================================================================
