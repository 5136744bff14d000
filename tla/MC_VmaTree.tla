----------------------------- MODULE MC_VmaTree -----------------------------
(***************************************************************************)
(* VmaTree for one address space of a few pages.                           *)
(***************************************************************************)
EXTENDS VmaTree, TLC

CONSTANTS Flags    \* the access flags

\* No step depends on the call before.
StateView == <<vmas, area, vmas_count, mmap_base>>
Symmetry == Permutations(Flags)
MCProts == {{f} : f \in Flags}
MCNodes == VMM_USER_START .. VMM_MMAP_BASE - 1
=============================================================================
