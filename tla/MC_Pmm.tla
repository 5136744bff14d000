------------------------------ MODULE MC_Pmm ------------------------------
(***************************************************************************)
(* Pmm on a five-frame machine: frame 0 is usable in the memory map but    *)
(* reserved by pfn_db_init, frame MaxPfn lies behind the last usable one.  *)
(***************************************************************************)
EXTENDS Pmm, TLC, FiniteSetsExt

CONSTANTS MaxRefs,     \* bound: references held at a time, over all pages
          MaxShares    \* bound: shares outstanding at a time, over all pages

MCUsable == {0, 1, 2, 3}
Symmetry == Permutations(Holders)

Bounded == /\ MapThenSumSet(LAMBDA p : Cardinality(holders[p]), Pages) <= MaxRefs
           /\ MapThenSumSet(LAMBDA p : Cardinality(sharers[p]), Pages) <= MaxShares
           /\ Cardinality({p \in Pages : "COW" \in flags[p]}) <= 1
=============================================================================
