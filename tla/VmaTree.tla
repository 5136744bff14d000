------------------------------- MODULE VmaTree -------------------------------
(***************************************************************************)
(* The areas of an address space (mm/vmm.c) in the red-black tree that     *)
(* holds them: every call that looks for, places, cuts, removes or copies  *)
(* areas, over the operators of RbTree.  Pages and their tables are in     *)
(* Vmm, which treats the areas as a set.                                   *)
(*                                                                         *)
(* A vma_t is known by its base, which is its key and never changes.       *)
(* Addresses and sizes are in pages.  Calls are atomic: vmm_lock           *)
(* serialises them, and a process has one thread, so that no page fault    *)
(* looks at the tree during a call.                                        *)
(***************************************************************************)
EXTENDS RbTree

CONSTANTS VMM_USER_START, VMM_MMAP_BASE,
          Sizes,      \* the sizes asked for,
          SizesAt,    \* and those asked for at a given address
          Prots       \* the flags of an area that vmm_protect changes: sets of flags

ASSUME RangeAssumption == /\ Nodes = VMM_USER_START .. VMM_MMAP_BASE - 1
                          /\ 0 \notin Nodes
                          /\ Sizes \cup SizesAt \subseteq Nat \ {0}
                          /\ NULL \notin Prots

VARIABLES vmas,         \* vmm->vmas
          area,         \* the vma_t with this base, NULL if there is none
          vmas_count,   \* vmm->vmas_count
          mmap_base,    \* vmm->mmap_base
          call          \* ghost: the last call and its answer

vars == <<vmas, area, vmas_count, mmap_base, call>>

Call(op, base, size, prot, ret) ==
    [op |-> op, base |-> base, size |-> size, prot |-> prot, ret |-> ret]

Init == /\ vmas = RB_TREE_INIT
        /\ area = [n \in Nodes |-> NULL]
        /\ vmas_count = 0
        /\ mmap_base = VMM_MMAP_BASE
        /\ call = Call("create", 0, 0, NULL, 0)

-----------------------------------------------------------------------------
\* The areas of a vmm, S: its tree, its vma_ts and their count.
Now == [tree |-> vmas, area |-> area, count |-> vmas_count]
Become(S) == vmas' = S.tree /\ area' = S.area /\ vmas_count' = S.count

End(S, n) == n + S.area[n].size
Covers(S, n, addr) == n # NULL /\ n <= addr /\ addr < End(S, n)

\* The area at addr is the lower bound of addr, or the one before.
_find_vma(S, addr) ==
    LET node == rb_lower_bound(S.tree, addr)
        prev == IF node = NULL THEN rb_last(S.tree) ELSE rb_prev(S.tree, node)
    IN IF Covers(S, node, addr) THEN node ELSE IF Covers(S, prev, addr) THEN prev ELSE NULL

_find_vma_next(S, addr) == rb_lower_bound(S.tree, addr)

\* (Mutant: the area that begins inside the gap is not looked for.)
RECURSIVE GapEndsOnly(_, _, _)
GapEndsOnly(S, size, hint) ==
    LET candidate == hint - size
        low == _find_vma(S, candidate)
        overlap == IF low # NULL THEN low ELSE _find_vma(S, candidate + size - 1)
    IN IF candidate < VMM_USER_START THEN 0
       ELSE IF overlap # NULL THEN GapEndsOnly(S, size, overlap)
       ELSE candidate

\* _find_free_gap: 0 if there is none.  A gap where an area lies within is left
\* for the next one below that area.
RECURSIVE FreeGap(_, _, _)
FreeGap(S, size, hint) ==
    LET candidate == hint - size
        low == _find_vma(S, candidate)
        overlap == IF low # NULL THEN low ELSE _find_vma(S, candidate + size - 1)
        next == _find_vma_next(S, candidate)
    IN IF candidate < VMM_USER_START THEN 0
       ELSE IF overlap # NULL THEN FreeGap(S, size, overlap)
       ELSE IF next = NULL \/ next >= candidate + size THEN candidate
       ELSE FreeGap(S, size, next)

\* Only the area at the first page is looked for.
_range_overlaps(S, base, size) == _find_vma(S, base) # NULL

\* rb_insert and the count; the callers free the vma_t that it refuses.
Has(S, n) == rb_find(S.tree, n) # NULL
Insert(S, n, a) == [tree |-> rb_insert(S.tree, n), area |-> [S.area EXCEPT ![n] = a],
                    count |-> S.count + 1]
Remove(S, n) == [tree |-> Forget(rb_remove(S.tree, n), n), area |-> [S.area EXCEPT ![n] = NULL],
                 count |-> S.count - 1]

\* _vma_split: the area at n is cut at addr.  It has become shorter, even if
\* the tree has another area at addr, and NULL is returned.
Shorten(S, n, addr) == [S EXCEPT !.area[n].size = addr - n]
_vma_split(S, n, addr) ==
    IF Has(S, addr) THEN Shorten(S, n, addr)
    ELSE Insert(Shorten(S, n, addr), addr, [S.area[n] EXCEPT !.size = End(S, n) - addr])

-----------------------------------------------------------------------------
\* vmm_map: allocating the vma_t or its pages may fail, and a base that the
\* tree has is refused.  Its answer is where the area is, or 0.
Outcomes(at) == {0} \cup (IF Has(Now, at) THEN {} ELSE {at})
MapArea(at, size, prot) ==
    IF at = 0 THEN UNCHANGED <<vmas, area, vmas_count>>
    ELSE Become(Insert(Now, at, [size |-> size, prot |-> prot]))

vmm_map(size, prot) ==
    LET at == FreeGap(Now, size, mmap_base) IN
    /\ mmap_base' = IF at = 0 THEN mmap_base ELSE at
    /\ \E got \in IF at = 0 THEN {0} ELSE Outcomes(at) :
          /\ MapArea(got, size, prot)
          /\ call' = Call("map", 0, size, prot, got)

\* An address that is given is only checked for VFLAG_FIXED.
vmm_map_at(base, size, prot, fixed) ==
    /\ UNCHANGED mmap_base
    /\ \E got \in IF fixed /\ _range_overlaps(Now, base, size) THEN {0} ELSE Outcomes(base) :
          /\ MapArea(got, size, prot)
          /\ call' = Call("map_at", base, size, prot, got)

\* The loop of vmm_unmap, from node on; next is found before node is freed.
RECURSIVE UnmapFrom(_, _, _, _)
UnmapFrom(S, node, base, end) ==
    LET next == rb_next(S.tree, node) IN
    IF node = NULL THEN S
    ELSE IF node >= base /\ End(S, node) <= end THEN UnmapFrom(Remove(S, node), next, base, end)
    ELSE IF node >= end THEN S
    ELSE UnmapFrom(S, next, base, end)

UnmapAll(S, base, end) == UnmapFrom(S, rb_first(S.tree), base, end)

\* vmm_unmap cuts the area at base, first, for which there may be no memory.
\* An area at end is never cut: the test for it asks for one that holds end - 1
\* and ends before end.
Unmaps(S, first, base, end) ==
    LET split == first # NULL /\ first < base
        refused == split /\ Has(S, base)
        U == IF split THEN _vma_split(S, first, base) ELSE S
    IN {[at |-> IF refused THEN U ELSE UnmapAll(U, base, end), ret |-> IF refused THEN -1 ELSE 0]}
       \cup (IF split THEN {[at |-> S, ret |-> -1]} ELSE {})
vmm_unmap(base, size) ==
    /\ UNCHANGED mmap_base
    /\ \E r \in Unmaps(Now, _find_vma(Now, base), base, base + size) :
          Become(r.at) /\ call' = Call("unmap", base, size, NULL, r.ret)

\* vmm_protect: the area that begins at addr is cut at end and gets its flags.
Long(S, addr, end) == End(S, addr) > end
ProtectArea(S, addr, end, prot) ==
    [(IF Long(S, addr, end) THEN _vma_split(S, addr, end) ELSE S) EXCEPT !.area[addr].prot = prot]

\* The areas after as many rounds of the loop as it may take: how it may end,
\* for lack of memory at a cut or at a hole, or with 0.
RECURSIVE Protects(_, _, _, _), ProtectHead(_, _, _, _)
ProtectHead(S, addr, end, prot) ==
    IF Long(S, addr, end)
    THEN {[at |-> S, ret |-> -1],
          IF Has(S, end) THEN [at |-> Shorten(S, addr, end), ret |-> -1]
          ELSE [at |-> ProtectArea(S, addr, end, prot), ret |-> 0]}
    ELSE Protects(ProtectArea(S, addr, end, prot), End(S, addr), end, prot)

Protects(S, addr, end, prot) ==
    LET n == _find_vma(S, addr) IN
    IF addr >= end THEN {[at |-> S, ret |-> 0]}
    ELSE IF n = NULL THEN {[at |-> S, ret |-> -1]}
    ELSE (IF n < addr THEN {[at |-> S, ret |-> -1]} ELSE {})
         \cup ProtectHead(IF n < addr THEN _vma_split(S, n, addr) ELSE S, addr, end, prot)

vmm_protect(base, size, prot) ==
    /\ UNCHANGED mmap_base
    /\ \E r \in Protects(Now, base, base + size, prot) :
          Become(r.at) /\ call' = Call("protect", base, size, prot, r.ret)

\* vmm_fork inserts the areas one by one, in order.  The child is followed.
RECURSIVE CopyFrom(_, _)
CopyFrom(T, node) == IF node = NULL THEN T
                     ELSE CopyFrom(rb_insert(T, node), rb_next(vmas, node))
vmm_fork == /\ vmas' = CopyFrom(RB_TREE_INIT, rb_first(vmas))
            /\ call' = Call("fork", 0, 0, NULL, 0)
            /\ UNCHANGED <<area, vmas_count, mmap_base>>

\* vmm_destroy removes each node after its successor was found.  What follows
\* is a new address space.
RECURSIVE DestroyFrom(_, _)
DestroyFrom(S, node) ==
    IF node = NULL THEN S ELSE DestroyFrom(Remove(S, node), rb_next(S.tree, node))
vmm_destroy == /\ Become(DestroyFrom(Now, rb_first(vmas)))
               /\ mmap_base' = VMM_MMAP_BASE
               /\ call' = Call("create", 0, 0, NULL, 0)

\* (Mutant: the access of the areas is not compared.)
RECURSIVE AccessibleAnyhow(_, _, _)
AccessibleAnyhow(addr, end, access) ==
    LET n == _find_vma(Now, addr) IN
    addr >= end \/ (n # NULL /\ AccessibleAnyhow(End(Now, n), end, access))

\* vmm_is_accessible goes from area to area.
RECURSIVE Accessible(_, _, _)
Accessible(addr, end, access) ==
    LET n == _find_vma(Now, addr) IN
    \/ addr >= end
    \/ n # NULL /\ access \subseteq area[n].prot /\ Accessible(End(Now, n), end, access)
vmm_is_accessible(base, size, access) == Accessible(base, base + size, access)

Next ==
    \/ vmm_fork \/ vmm_destroy
    \/ \E size \in Sizes, prot \in Prots : vmm_map(size, prot)
    \/ \E base \in Nodes, size \in Sizes :
          /\ base + size <= VMM_MMAP_BASE
          /\ \/ vmm_unmap(base, size)
             \/ \E prot \in Prots : vmm_protect(base, size, prot)
    \/ \E base \in Nodes, size \in SizesAt, prot \in Prots, fixed \in BOOLEAN :
          base + size <= VMM_MMAP_BASE /\ vmm_map_at(base, size, prot, fixed)

Spec == Init /\ [][Next]_vars

-----------------------------------------------------------------------------
PagesOf(n) == n .. n + area[n].size - 1
Live == {n \in Nodes : area[n] # NULL}
Disjoint == \A n \in Live : \A m \in PagesOf(n) \ {n} : area[m] = NULL

\* The tree of areas keeps its shape through any sequence of calls, also when
\* a call removes the nodes it walks over: it is a red-black tree with parent
\* pointers that match, and it holds every vma_t that was not freed, as many
\* as the tree's size and vmm->vmas_count say.
TreeSound == /\ RedBlack(vmas)
             /\ NodesOf(vmas) = Live
             /\ vmas_count = Cardinality(Live)
             /\ \A n \in Live : area[n].size \in 1 .. VMM_MMAP_BASE - n /\ area[n].prot \in Prots
             /\ mmap_base \in VMM_USER_START .. VMM_MMAP_BASE

\* rb_find, the bounds, rb_first, rb_last, rb_next and rb_prev give what the set
\* of the nodes says.
QueriesSound == QueriesRight(vmas)

-----------------------------------------------------------------------------
MappedAs(p) == LET at == {n \in VMM_USER_START .. p : area[n] # NULL /\ n + area[n].size > p}
               IN IF at = {} THEN NULL ELSE area[CHOOSE n \in at : TRUE].prot

Abstract == INSTANCE AddressSpace
    WITH First <- VMM_USER_START, Top <- VMM_MMAP_BASE, tidy <- Disjoint,
         pages <- [p \in Nodes |-> MappedAs(p)]

\* Page by page, the areas in the tree do what AddressSpace promises: a mapping
\* is placed in the highest gap and takes over no page, unmapping and changing
\* protection touch no page outside their range, however areas have to be cut,
\* and vmm_fork and vmm_destroy visit every area.
ImplementsAddressSpace == Abstract!Spec

\* While areas do not overlap, vmm_is_accessible says yes exactly when every
\* page of the range is mapped with the access asked for.
AccessibleExact ==
    Disjoint => \A base \in Nodes, size \in Sizes, access \in SUBSET UNION Prots :
        base + size <= VMM_MMAP_BASE
        => (vmm_is_accessible(base, size, access)
              <=> \A p \in base .. base + size - 1 :
                     MappedAs(p) # NULL /\ access \subseteq MappedAs(p))
=============================================================================
