---------------------------- MODULE AddressSpace ----------------------------
(***************************************************************************)
(* What the calls of mm/vmm.h promise about an address space, page by      *)
(* page: how each page is mapped, where the next mapping may be placed,    *)
(* and the last call with its answer.  How areas are kept is left open.    *)
(*                                                                         *)
(* The promise is to callers that give vmm_map only addresses where        *)
(* nothing is mapped.  Areas that overlap (tidy is FALSE) are promised     *)
(* nothing until they are gone.                                            *)
(***************************************************************************)
EXTENDS Integers, FiniteSets, FiniteSetsExt

CONSTANTS First, Top,   \* the pages are First .. Top - 1
          NULL

VARIABLES pages,       \* how each page is mapped, NULL if it is not
          mmap_base,   \* mappings are placed below this page
          tidy,        \* no two areas overlap
          call         \* the last call: op, base, size, prot, and ret, its answer

avars == <<pages, mmap_base, tidy, call>>

Pages == First .. Top - 1
Extent(c) == c.base .. c.base + c.size - 1
Behind(c) == c.base + c.size
Unmapped(ps) == \A p \in ps : pages[p] = NULL
SetPages(ps, x) == [p \in Pages |-> IF p \in ps THEN x ELSE pages[p]]

Init == /\ pages = [p \in Pages |-> NULL]
        /\ mmap_base = Top
        /\ tidy = TRUE
        /\ call.op = "create"

\* A mapping goes to the highest gap below mmap_base, and 0 says that there is
\* none.  Without memory mmap_base has moved all the same.
Gaps(size) == {b \in First .. mmap_base - size : Unmapped(b .. b + size - 1)}
Map(c) ==
    /\ IF Gaps(c.size) = {} THEN c.ret = 0 /\ UNCHANGED <<pages, mmap_base>>
       ELSE LET at == Max(Gaps(c.size)) IN
            /\ mmap_base' = at
            /\ \/ c.ret = at /\ pages' = SetPages(at .. at + c.size - 1, c.prot)
               \/ c.ret = 0 /\ UNCHANGED pages
    /\ tidy' = TRUE

\* A mapping at a given address gets exactly its pages.  Over a mapping that is
\* there, it is refused or makes areas overlap.
MapAt(c) ==
    /\ UNCHANGED mmap_base
    /\ \/ c.ret = 0 /\ UNCHANGED <<pages, tidy>>
       \/ /\ Unmapped(Extent(c))
          /\ c.ret = c.base
          /\ pages' = SetPages(Extent(c), c.prot)
          /\ tidy' = TRUE
       \/ ~Unmapped(Extent(c)) /\ c.ret = c.base /\ tidy' = FALSE

\* Unmapping clears the range and nothing else, except that a mapping that goes
\* on behind the end of the range may keep its pages.
Unmap(c) ==
    /\ \/ c.ret = -1 /\ UNCHANGED pages
       \/ /\ c.ret = 0
          /\ \E k \in c.base .. Behind(c) :
                /\ k < Behind(c) => Behind(c) < Top /\ \A p \in k .. Behind(c) : pages[p] # NULL
                /\ pages' = SetPages(c.base .. k - 1, NULL)
    /\ UNCHANGED mmap_base
    /\ tidy' = TRUE

\* A change of protection applies to the pages of the range in order, until one
\* is not mapped or memory runs out.
Protect(c) ==
    /\ \E k \in c.base .. Behind(c) :
          /\ \A p \in c.base .. k - 1 : pages[p] # NULL
          /\ c.ret = 0 <=> k = Behind(c)
          /\ pages' = SetPages(c.base .. k - 1, c.prot)
    /\ UNCHANGED mmap_base
    /\ tidy' = TRUE

\* After vmm_destroy there is a new address space.
Destroy == /\ pages' = [p \in Pages |-> NULL]
           /\ mmap_base' = Top
           /\ tidy' = TRUE

\* The child of a fork has the mappings of its parent.
Fork == UNCHANGED <<pages, mmap_base, tidy>>

Next == \/ call'.op = "map" /\ Map(call')
        \/ call'.op = "map_at" /\ MapAt(call')
        \/ call'.op = "unmap" /\ Unmap(call')
        \/ call'.op = "protect" /\ Protect(call')
        \/ call'.op = "fork" /\ Fork
        \/ call'.op = "create" /\ Destroy
        \/ ~tidy

Spec == Init /\ [][Next]_avars
=============================================================================
