------------------------------- MODULE MC_Vmm -------------------------------
(***************************************************************************)
(* Vmm for processes that fork, and for the fixed mappings of one process. *)
(***************************************************************************)
EXTENDS Vmm

CONSTANTS MaxLost     \* bound: references to frames beyond two for each mapping

Symmetry == Permutations(Frames) \cup Permutations(Vmms)
MCMapFlags == {{"WRITABLE"}, {"WRITABLE", "LAZY", "SHARED"}}
MCFixedFlags == {{"WRITABLE", "FIXED"}, {"LAZY", "FIXED"}}
MCProtFlags == {{"WRITABLE"}}

Lost(f) == page[f].ref - 2 * Cardinality(Mappings(f))

\* Once vmm_brk hangs, no call can begin; what still runs are faults and stores
\* that are explored without it.
Bounded == /\ job.pc # "brk"
           /\ MapThenSumSet(Lost, Frames) <= MaxLost
=============================================================================
