-------------------------------- MODULE Vmm --------------------------------
(***************************************************************************)
(* Address spaces (mm/vmm.c) over page tables (mm/paging.c): areas, eager  *)
(* and lazy pages, copy-on-write after vmm_fork, and the reference and     *)
(* share counts of the frames, with what is stored in them.                *)
(*                                                                         *)
(* Addresses and sizes are in pages.  vmm_lock serialises the calls, but   *)
(* the page fault handler does not take it: it runs with interrupts        *)
(* disabled, as one step, and the faults of other processes come between   *)
(* the steps of a call whose thread was preempted (job).  A process has    *)
(* one thread, as in main.c, so it does not run while it is in a call.  A  *)
(* frame is free while its reference count is 0 (see Pmm); tables are left *)
(* out, except that allocating one may fail.                               *)
(***************************************************************************)
EXTENDS Integers, Sequences, SequencesExt, FiniteSets, FiniteSetsExt

CONSTANTS Vmms, Frames,
          VMM_USER_START, VMM_MMAP_BASE,
          Sizes,        \* the sizes asked for
          MapFlags,     \* the flags given to vmm_map
          ProtFlags,    \* the flags given to vmm_protect
          Data,         \* what a page may hold
          Zero, NULL

ASSUME RangeAssumption == /\ VMM_USER_START \in Nat \ {0} /\ VMM_MMAP_BASE \in Nat
                          /\ VMM_USER_START <= VMM_MMAP_BASE
                          /\ Sizes \subseteq Nat \ {0}
ASSUME FlagsAssumption ==
    /\ MapFlags \subseteq SUBSET {"WRITABLE", "LAZY", "SHARED", "FIXED"}
    /\ ProtFlags \subseteq SUBSET {"WRITABLE", "SHARED"}
ASSUME DataAssumption == Zero \in Data /\ NULL \notin Frames \cup Data

VARIABLES alive,       \* the address spaces that exist
          vmas,        \* vmm->vmas
          mmap_base,   \* vmm->mmap_base
          pte,         \* the leaf entries of vmm->pml4
          page,        \* the descriptors of the frames
          data,        \* what the frames hold
          job,         \* the call that holds vmm_lock, and its locals
          mem,         \* ghost: what each process stored last in a page
          common       \* ghost: frames of shared areas, and copy-on-write
                       \* frames that vmm_protect mapped writable

vars == <<alive, vmas, mmap_base, pte, page, data, job, mem, common>>

VPages == 0 .. VMM_MMAP_BASE - 1
Free == [ref |-> 0, sharecount |-> 0, shared |-> FALSE, cow |-> FALSE]
Idle == [pc |-> "idle", v |-> NULL, child |-> NULL, area |-> NULL, addr |-> 0, end |-> 0,
         flags |-> {}, frame |-> NULL, kept |-> NULL]
PagesOf(a) == a.base .. a.base + a.size - 1

Init == /\ alive = {}
        /\ vmas = [v \in Vmms |-> {}]
        /\ mmap_base = [v \in Vmms |-> VMM_MMAP_BASE]
        /\ pte = [v \in Vmms |-> [p \in VPages |-> NULL]]
        /\ page = [f \in Frames |-> Free]
        /\ data = [f \in Frames |-> Zero]
        /\ job = Idle
        /\ mem = [v \in Vmms |-> [p \in VPages |-> Zero]]
        /\ common = {}

-----------------------------------------------------------------------------
\* The page allocator, on a function from frames to descriptors.
FreeFrames == {f \in Frames : page[f].ref = 0}

Allocated == [ref |-> 1, sharecount |-> 1, shared |-> FALSE, cow |-> FALSE]

pmm_page_retain(F, f) ==
    [F EXCEPT ![f].ref = @ + 1, ![f].sharecount = IF F[f].ref = 0 THEN 1 ELSE @]

pmm_page_release(F, f) == [F EXCEPT ![f] = IF @.ref <= 1 THEN Free ELSE [@ EXCEPT !.ref = @ - 1]]

pmm_page_share(F, f) ==
    [F EXCEPT ![f].shared = TRUE,
              ![f].sharecount = IF ~F[f].shared /\ @ = 0 THEN 2 ELSE @ + 1]

pmm_page_unshare(F, f) ==
    LET left == IF F[f].sharecount > 0 THEN F[f].sharecount - 1 ELSE 0
    IN IF F[f].shared THEN [F EXCEPT ![f].sharecount = left, ![f].shared = left > 1] ELSE F

Drop(F, f) == pmm_page_release(pmm_page_unshare(F, f), f)
Take(F, f) == pmm_page_retain(pmm_page_share(F, f), f)

-----------------------------------------------------------------------------
\* map_page and unmap_page, on a pair of descriptors and entries.
Now == [page |-> page, pte |-> pte]

Entry(f, flags) == [frame |-> f, write |-> "WRITABLE" \in flags]

map_page(M, v, p, f, flags) ==
    LET old == M.pte[v][p]
        left == IF old = NULL THEN M.page ELSE Drop(M.page, old.frame)
    IN [page |-> Take(left, f), pte |-> [M.pte EXCEPT ![v][p] = Entry(f, flags)]]

unmap_page(M, v, p) ==
    LET old == M.pte[v][p]
    IN IF old = NULL THEN M
       ELSE [page |-> Drop(M.page, old.frame), pte |-> [M.pte EXCEPT ![v][p] = NULL]]

UnmapPages(M, v, ps) == FoldSet(LAMBDA p, N : unmap_page(N, v, p), M, ps)

\* The new descriptors and entries, contents and ghosts.  What a free frame
\* holds, and what was stored in a page that is not mapped or in a common
\* frame, is forgotten: frames are cleared when they are allocated.
Become(M, D, E, C) ==
    /\ page' = M.page
    /\ pte' = M.pte
    /\ data' = [f \in Frames |-> IF M.page[f].ref = 0 THEN Zero ELSE D[f]]
    /\ mem' = [v \in Vmms |-> [p \in VPages |->
                 IF M.pte[v][p] = NULL THEN Zero
                 ELSE IF M.pte[v][p].frame \in C THEN Zero ELSE E[v][p]]]
    /\ common' = {f \in C : M.page[f].ref > 0}

\* Whether the tables for page p of v may have to be allocated, and that fail.
MapMayFail(v, p) == pte[v][p] = NULL

-----------------------------------------------------------------------------
\* _find_vma looks at the area with the greatest base that is not above addr.
_find_vma(A, addr) ==
    {a \in A : /\ addr \in PagesOf(a)
               /\ \A b \in A : b.base <= addr => b.base <= a.base}

\* _range_overlaps looks for the area at the first page only.
_range_overlaps(A, base, size) == \E a \in _find_vma(A, base) : a.base < base + size

\* _find_vma_next: the first area at or above addr.
_find_vma_next(A, addr) ==
    {a \in A : a.base >= addr /\ \A b \in A : b.base >= addr => a.base <= b.base}

\* _find_free_gap walks down from mmap_base, below each area in the way.
_find_free_gap(A, size, from) ==
    LET overlap(h) == IF _find_vma(A, h - size) # {} THEN _find_vma(A, h - size)
                      ELSE _find_vma(A, h - 1)
        within(h) == {a \in _find_vma_next(A, h - size) : a.base < h}
        way(h) == IF overlap(h) # {} THEN overlap(h) ELSE within(h)
        gap[h \in Nat] == IF h < VMM_USER_START + size THEN {}
                          ELSE IF way(h) = {} THEN {h - size}
                          ELSE gap[(CHOOSE a \in way(h) : TRUE).base]
    IN gap[from]

\* rb_insert refuses a base that is in the tree.
rb_insert(A, a) == IF \E b \in A : b.base = a.base THEN A ELSE A \cup {a}

\* _vma_split: area a is cut at addr.  If the tree has an area at addr, the
\* upper part is lost.
Upper(a, addr) == [a EXCEPT !.base = addr, !.size = a.base + a.size - addr]
Lower(a, addr) == [a EXCEPT !.size = addr - a.base]
_vma_split(A, a, addr) == rb_insert((A \ {a}) \cup {Lower(a, addr)}, Upper(a, addr))

-----------------------------------------------------------------------------
Ready(v) == job = Idle /\ v \in alive

vmm_create(v) ==
    /\ v \notin alive
    /\ alive' = alive \cup {v}
    /\ UNCHANGED <<vmas, mmap_base, pte, page, data, job, mem, common>>

\* vmm_map: where the area goes, if anywhere.
Anywhere(base, flags) == base = 0 /\ "FIXED" \notin flags
Place(v, base, size, flags) ==
    IF Anywhere(base, flags) THEN _find_free_gap(vmas[v], size, mmap_base[v])
    ELSE IF "FIXED" \in flags /\ _range_overlaps(vmas[v], base, size) THEN {}
    ELSE {base}

\* Allocating the vma_t may fail, when mmap_base has moved already.
vmm_map(v, base, size, flags) ==
    /\ Ready(v)
    /\ \E at \in Place(v, base, size, flags) :
          LET a == [base |-> at, size |-> size, flags |-> flags \ {"FIXED"}] IN
          /\ mmap_base' = IF Anywhere(base, flags) THEN [mmap_base EXCEPT ![v] = at] ELSE mmap_base
          /\ \/ UNCHANGED <<vmas, job>>
             \/ /\ "LAZY" \in flags
                /\ vmas' = [vmas EXCEPT ![v] = rb_insert(@, a)]
                /\ UNCHANGED job
             \/ /\ "LAZY" \notin flags
                /\ job' = [Idle EXCEPT !.pc = "map", !.v = v, !.area = a, !.addr = at]
                /\ UNCHANGED vmas
    /\ UNCHANGED <<alive, pte, page, data, mem, common>>

End(a) == a.base + a.size

\* _vma_allocate_pages: a cleared frame for each page.  map_page does not say
\* whether it could allocate its tables.
AllocatePage ==
    /\ job.pc = "map"
    /\ job.addr < End(job.area)
    /\ \E f \in FreeFrames :
          LET M == [Now EXCEPT !.page[f] = Allocated]
              D == [data EXCEPT ![f] = Zero]
          IN \/ Become(map_page(M, job.v, job.addr, f, job.area.flags), D,
                       [mem EXCEPT ![job.v][job.addr] = Zero], common)
             \/ MapMayFail(job.v, job.addr) /\ Become(M, D, mem, common)
    /\ job' = [job EXCEPT !.addr = @ + 1]
    /\ UNCHANGED <<alive, vmas, mmap_base>>

AllocateFails ==
    /\ job.pc = "map"
    /\ job.addr < End(job.area)
    /\ FreeFrames = {}
    /\ Become(UnmapPages(Now, job.v, job.area.base .. job.addr - 1), data, mem, common)
    /\ job' = Idle
    /\ UNCHANGED <<alive, vmas, mmap_base>>

\* The area is entered in the tree, or its pages are unmapped again.
MapInsert ==
    /\ job.pc = "map"
    /\ job.addr = End(job.area)
    /\ LET a == [job.area EXCEPT !.flags = @ \cup {"ALLOCATED"}] IN
       /\ vmas' = [vmas EXCEPT ![job.v] = rb_insert(@, a)]
       /\ IF \E b \in vmas[job.v] : b.base = a.base
          THEN Become(UnmapPages(Now, job.v, PagesOf(a)), data, mem, common)
          ELSE UNCHANGED <<pte, page, data, mem, common>>
    /\ job' = Idle
    /\ UNCHANGED <<alive, mmap_base>>

\* vmm_unmap: the area at base is cut, and the areas that lie in the range are
\* removed; only an eager area gives up its pages.  The second cut is made
\* if the last area ends inside the range.  (A cut that fails for lack of memory
\* changes nothing.)
vmm_unmap(v, base, size) ==
    /\ Ready(v)
    /\ LET end == base + size
           cut(A, c, at) == IF c = {} THEN A ELSE _vma_split(A, CHOOSE a \in c : TRUE, at)
           A1 == cut(vmas[v], {a \in _find_vma(vmas[v], base) : a.base < base}, base)
           A2 == cut(A1, {a \in _find_vma(A1, end - 1) : End(a) < end}, end)
           gone == {a \in A2 : a.base >= base /\ End(a) <= end}
           eager == {a \in gone : "ALLOCATED" \in a.flags}
       IN /\ vmas' = [vmas EXCEPT ![v] = A2 \ gone]
          /\ Become(UnmapPages(Now, v, UNION {PagesOf(a) : a \in eager}), data, mem, common)
    /\ UNCHANGED <<alive, mmap_base, job>>

-----------------------------------------------------------------------------
\* vmm_protect goes from area to area.
vmm_protect(v, base, size, flags) ==
    /\ Ready(v)
    /\ job' = [Idle EXCEPT !.pc = "protect", !.v = v, !.addr = base, !.end = base + size,
                        !.flags = flags]
    /\ UNCHANGED <<alive, vmas, mmap_base, pte, page, data, mem, common>>

\* The area at addr is cut at both ends and gets the new flags.  A cut may fail
\* for lack of memory, or because the tree has an area at that base.
ProtectArea ==
    /\ job.pc = "protect"
    /\ job.addr < job.end
    /\ \E a \in _find_vma(vmas[job.v], job.addr) :
          LET A == vmas[job.v]
              a1 == IF a.base < job.addr THEN Upper(a, job.addr) ELSE a
              A1 == IF a.base < job.addr THEN _vma_split(A, a, job.addr) ELSE A
              a2 == IF End(a1) > job.end THEN Lower(a1, job.end) ELSE a1
              A2 == IF End(a1) > job.end THEN _vma_split(A1, a1, job.end) ELSE A1
              taken == End(a1) > job.end /\ \E b \in A1 : b.base = job.end
              a3 == [a2 EXCEPT !.flags = (@ \cap {"ALLOCATED", "LAZY"}) \cup job.flags]
          IN \/ /\ ~taken
                /\ vmas' = [vmas EXCEPT ![job.v] = (A2 \ {a2}) \cup {a3}]
                /\ job' = IF "ALLOCATED" \in a3.flags
                          THEN [job EXCEPT !.pc = "protect_page", !.area = a3]
                          ELSE [job EXCEPT !.addr = End(a3)]
             \/ taken /\ vmas' = [vmas EXCEPT ![job.v] = A2] /\ job' = Idle
             \/ A1 # A /\ job' = Idle /\ UNCHANGED vmas
             \/ A2 # A1 /\ vmas' = [vmas EXCEPT ![job.v] = A1] /\ job' = Idle
    /\ UNCHANGED <<alive, mmap_base, pte, page, data, mem, common>>

ProtectEnds ==
    /\ job.pc = "protect"
    /\ job.addr >= job.end \/ _find_vma(vmas[job.v], job.addr) = {}
    /\ job' = Idle
    /\ UNCHANGED <<alive, vmas, mmap_base, pte, page, data, mem, common>>

\* Each page of an eager area is unmapped...
ProtectPage ==
    /\ job.pc = "protect_page"
    /\ job.addr < End(job.area)
    /\ LET e == pte[job.v][job.addr] IN
       IF e # NULL
       THEN /\ Become(unmap_page(Now, job.v, job.addr), data, mem, common)
            /\ job' = [job EXCEPT !.pc = "protect_map", !.frame = e.frame,
                                  !.kept = mem[job.v][job.addr]]
       ELSE /\ job' = [job EXCEPT !.addr = @ + 1]
            /\ UNCHANGED <<pte, page, data, mem, common>>
    /\ UNCHANGED <<alive, vmas, mmap_base>>

\* ...and mapped again with the new flags, also if it is to be copied on write.
ProtectMap ==
    /\ job.pc = "protect_map"
    /\ LET f == job.frame
           aliased == IF page[f].cow /\ "WRITABLE" \in job.area.flags THEN {f} ELSE {}
       IN \/ Become(map_page(Now, job.v, job.addr, f, job.area.flags), data,
                    [mem EXCEPT ![job.v][job.addr] = job.kept], common \cup aliased)
          \/ MapMayFail(job.v, job.addr) /\ UNCHANGED <<pte, page, data, mem, common>>
    /\ job' = [job EXCEPT !.pc = "protect_page", !.addr = @ + 1, !.frame = NULL, !.kept = NULL]
    /\ UNCHANGED <<alive, vmas, mmap_base>>

ProtectNext ==
    /\ job.pc = "protect_page"
    /\ job.addr = End(job.area)
    /\ job' = [job EXCEPT !.pc = "protect", !.area = NULL]
    /\ UNCHANGED <<alive, vmas, mmap_base, pte, page, data, mem, common>>

-----------------------------------------------------------------------------
\* vmm_fork goes through the areas of the parent in the order of their bases.
vmm_fork(v, c) ==
    /\ Ready(v)
    /\ c \notin alive
    /\ alive' = alive \cup {c}
    /\ job' = [Idle EXCEPT !.pc = "fork", !.v = v, !.child = c]
    /\ UNCHANGED <<vmas, mmap_base, pte, page, data, mem, common>>

\* An area that is neither shared nor eager is copied without its pages.
ForkArea ==
    /\ job.pc = "fork"
    /\ \E a \in _find_vma_next(vmas[job.v], job.addr) :
          IF a.flags \cap {"SHARED", "ALLOCATED"} # {}
          THEN /\ job' = [job EXCEPT !.pc = "fork_page", !.area = a, !.addr = a.base]
               /\ UNCHANGED vmas
          ELSE /\ job' = [job EXCEPT !.addr = a.base + 1]
               /\ vmas' = [vmas EXCEPT ![job.child] = rb_insert(@, a)]
    /\ UNCHANGED <<alive, mmap_base, pte, page, data, mem, common>>

\* (Mutant: vmm_fork leaves it to map_page to count the child.)
ForkPageOnce ==
    /\ job.pc = "fork_page"
    /\ job.addr < End(job.area)
    /\ LET e == pte[job.v][job.addr]
           private == "SHARED" \notin job.area.flags
           flags == IF private THEN job.area.flags \ {"WRITABLE"} ELSE job.area.flags
       IN IF e = NULL
          THEN /\ job' = [job EXCEPT !.addr = @ + 1]
               /\ UNCHANGED <<pte, page, data, mem, common>>
          ELSE LET M == [Now EXCEPT !.page[e.frame].cow = @ \/ private]
                   C == IF private THEN common ELSE common \cup {e.frame}
               IN /\ \/ Become(map_page(M, job.child, job.addr, e.frame, flags), data, mem, C)
                     \/ MapMayFail(job.child, job.addr) /\ Become(M, data, mem, C)
                  /\ job' = IF private
                            THEN [job EXCEPT !.pc = "fork_parent", !.frame = e.frame]
                            ELSE [job EXCEPT !.addr = @ + 1]
    /\ UNCHANGED <<alive, vmas, mmap_base>>

\* The pages of a shared area are mapped in the child with the same flags; those
\* of a private one become copy-on-write, read-only in the child...
ForkPage ==
    /\ job.pc = "fork_page"
    /\ job.addr < End(job.area)
    /\ LET e == pte[job.v][job.addr]
           private == "SHARED" \notin job.area.flags
           flags == IF private THEN job.area.flags \ {"WRITABLE"} ELSE job.area.flags
       IN IF e = NULL
          THEN /\ job' = [job EXCEPT !.addr = @ + 1]
               /\ UNCHANGED <<pte, page, data, mem, common>>
          ELSE LET M == [Now EXCEPT !.page = Take([@ EXCEPT ![e.frame].cow = @ \/ private], e.frame)]
                   C == IF private THEN common ELSE common \cup {e.frame}
               IN /\ \/ Become(map_page(M, job.child, job.addr, e.frame, flags), data, mem, C)
                     \/ MapMayFail(job.child, job.addr) /\ Become(M, data, mem, C)
                  /\ job' = IF private
                            THEN [job EXCEPT !.pc = "fork_parent", !.frame = e.frame]
                            ELSE [job EXCEPT !.addr = @ + 1]
    /\ UNCHANGED <<alive, vmas, mmap_base>>

NextPage == [job EXCEPT !.pc = "fork_page", !.addr = @ + 1, !.frame = NULL]

\* (Mutant: the page stays writable in the parent.)
ForkParentWritable ==
    /\ job.pc = "fork_parent"
    /\ Become(map_page(Now, job.v, job.addr, job.frame, job.area.flags), data,
              [mem EXCEPT ![job.child][job.addr] = data[job.frame]], common)
    /\ job' = NextPage
    /\ UNCHANGED <<alive, vmas, mmap_base>>

\* ...and then in the parent.
ForkParent ==
    /\ job.pc = "fork_parent"
    /\ Become(map_page(Now, job.v, job.addr, job.frame, job.area.flags \ {"WRITABLE"}), data,
              [mem EXCEPT ![job.child][job.addr] = data[job.frame]], common)
    /\ job' = NextPage
    /\ UNCHANGED <<alive, vmas, mmap_base>>

ForkInsert ==
    /\ job.pc = "fork_page"
    /\ job.addr = End(job.area)
    /\ vmas' = [vmas EXCEPT ![job.child] = rb_insert(@, job.area)]
    /\ job' = [job EXCEPT !.pc = "fork", !.area = NULL, !.addr = job.area.base + 1]
    /\ UNCHANGED <<alive, mmap_base, pte, page, data, mem, common>>

ForkEnds ==
    /\ job.pc = "fork"
    /\ _find_vma_next(vmas[job.v], job.addr) = {}
    /\ mmap_base' = [mmap_base EXCEPT ![job.child] = mmap_base[job.v]]
    /\ job' = Idle
    /\ UNCHANGED <<alive, vmas, pte, page, data, mem, common>>

\* vmm_destroy: the pages of eager areas, then pte_free releases what is still
\* mapped.  It takes no lock; vmm_fork calls it when it cannot allocate a vma_t.
Destroy(v) ==
    /\ alive' = alive \ {v}
    /\ vmas' = [vmas EXCEPT ![v] = {}]
    /\ mmap_base' = [mmap_base EXCEPT ![v] = VMM_MMAP_BASE]
    /\ Become(UnmapPages(Now, v, VPages), data, mem, common)

vmm_destroy(v) ==
    /\ v \in alive
    /\ v \notin {job.v, job.child}
    /\ Destroy(v)
    /\ UNCHANGED job

ForkFails ==
    /\ job.pc = "fork"
    /\ _find_vma_next(vmas[job.v], job.addr) # {}
    /\ Destroy(job.child)
    /\ job' = Idle

\* vmm_brk: brk and brk_base are 0, so every other break is above them, and
\* vmm_map waits for the lock that vmm_brk holds.
vmm_brk(v) ==
    /\ Ready(v)
    /\ job' = [Idle EXCEPT !.pc = "brk", !.v = v]
    /\ UNCHANGED <<alive, vmas, mmap_base, pte, page, data, mem, common>>

-----------------------------------------------------------------------------
\* A process that is in no call runs; the child of a fork does not run yet.
Runs(v) == v \in alive /\ v \notin {job.v, job.child}

\* A store that the entry allows.
Store(v, p, x) ==
    /\ Runs(v)
    /\ pte[v][p] # NULL
    /\ pte[v][p].write
    /\ data' = [data EXCEPT ![pte[v][p].frame] = x]
    /\ mem' = IF pte[v][p].frame \in common THEN mem ELSE [mem EXCEPT ![v][p] = x]
    /\ UNCHANGED <<alive, vmas, mmap_base, pte, page, job, common>>

\* vmm_pf_handler on the first access to a page of a lazy area.
LazyFault(v, p) ==
    /\ Runs(v)
    /\ pte[v][p] = NULL
    /\ \E a \in _find_vma(vmas[v], p), f \in FreeFrames :
          LET M == [Now EXCEPT !.page[f] = Allocated]
              D == [data EXCEPT ![f] = Zero]
          IN /\ "LAZY" \in a.flags
             /\ \/ Become(map_page(M, v, p, f, a.flags), D, [mem EXCEPT ![v][p] = Zero], common)
                \/ MapMayFail(v, p) /\ Become(M, D, mem, common)
    /\ UNCHANGED <<alive, vmas, mmap_base, job>>

\* vmm_pf_handler on a store to a page that is mapped read-only in a writable
\* area: the frame is reused if nobody shares it, and copied otherwise.
CowFault(v, p) ==
    /\ Runs(v)
    /\ pte[v][p] # NULL
    /\ ~pte[v][p].write
    /\ LET old == pte[v][p].frame IN
       \E a \in _find_vma(vmas[v], p) :
          /\ "WRITABLE" \in a.flags
          /\ page[old].cow
          /\ IF page[old].sharecount <= 1
             THEN Become(map_page([Now EXCEPT !.page[old].cow = FALSE], v, p, old, a.flags),
                         data, mem, common)
             ELSE \E f \in FreeFrames :
                     Become(map_page([Now EXCEPT !.page = Drop([@ EXCEPT ![f] = Allocated], old)],
                                     v, p, f, a.flags),
                            [data EXCEPT ![f] = data[old]],
                            [mem EXCEPT ![v][p] = IF old \in common THEN data[old] ELSE @], common)
    /\ UNCHANGED <<alive, vmas, mmap_base, job>>

Next ==
    \/ \E v \in Vmms :
          \/ vmm_create(v) \/ vmm_destroy(v) \/ vmm_brk(v)
          \/ \E c \in Vmms : vmm_fork(v, c)
          \/ \E base \in VPages, size \in Sizes :
                /\ base + size <= VMM_MMAP_BASE
                /\ \/ \E flags \in MapFlags : vmm_map(v, base, size, flags)
                   \/ \E flags \in ProtFlags : vmm_protect(v, base, size, flags)
                   \/ vmm_unmap(v, base, size)
          \/ \E p \in VPages : \/ LazyFault(v, p) \/ CowFault(v, p)
                               \/ \E x \in Data : Store(v, p, x)
    \/ AllocatePage \/ AllocateFails \/ MapInsert
    \/ ProtectArea \/ ProtectEnds \/ ProtectPage \/ ProtectMap \/ ProtectNext
    \/ ForkArea \/ ForkPage \/ ForkParent \/ ForkInsert \/ ForkEnds \/ ForkFails

Spec == Init /\ [][Next]_vars

-----------------------------------------------------------------------------
Areas == [base : VPages, size : Nat \ {0}, flags : SUBSET {"WRITABLE", "LAZY", "SHARED", "ALLOCATED"}]
Entries == [frame : Frames, write : BOOLEAN]
Jobs == [pc : {"idle", "map", "protect", "protect_page", "protect_map", "fork", "fork_page",
               "fork_parent", "brk"},
         v : Vmms \cup {NULL}, child : Vmms \cup {NULL}, area : Areas \cup {NULL},
         addr : Nat, end : Nat, flags : SUBSET {"WRITABLE", "SHARED"},
         frame : Frames \cup {NULL}, kept : Data \cup {NULL}]

TypeOK == /\ alive \subseteq Vmms
          /\ \A v \in Vmms : /\ vmas[v] \subseteq Areas
                             /\ \A a, b \in vmas[v] : a.base = b.base => a = b
          /\ mmap_base \in [Vmms -> VMM_USER_START .. VMM_MMAP_BASE]
          /\ pte \in [Vmms -> [VPages -> Entries \cup {NULL}]]
          /\ page \in [Frames -> [ref : Nat, sharecount : Nat, shared : BOOLEAN, cow : BOOLEAN]]
          /\ data \in [Frames -> Data]
          /\ mem \in [Vmms -> [VPages -> Data]]
          /\ common \subseteq Frames
          /\ job \in Jobs

Mappings(f) == {vp \in Vmms \X VPages :
                   pte[vp[1]][vp[2]] # NULL /\ pte[vp[1]][vp[2]].frame = f}

\* A frame is not given back while a table maps it, although a copy-on-write
\* fault drops two references (its own and map_page's), vmm_fork takes two, and
\* unmapping drops one: whatever the order, a mapping has two to lose.
MappedFrameOwned == /\ TypeOK
                    /\ \A f \in Frames : page[f].ref >= 2 * Cardinality(Mappings(f))

\* What a process reads is what it stored: stores of its parent and of its
\* children never show, before or after a fault made a copy.  (Frames of shared
\* areas excepted, and copy-on-write frames that vmm_protect made writable.)
CowIsolation ==
    \A v \in alive \ {job.child}, p \in VPages :
        pte[v][p] # NULL /\ pte[v][p].frame \notin common => data[pte[v][p].frame] = mem[v][p]

Disjoint(A) == \A a, b \in A : a # b => PagesOf(a) \cap PagesOf(b) = {}

\* vmm_map refuses a mapping when a "VFLAG_FIXED mapping overlaps with existing
\* mapping" (its warning): if all mappings are fixed, areas are disjoint.
FixedNeverOverlaps == \A v \in Vmms : Disjoint(vmas[v])
=============================================================================
