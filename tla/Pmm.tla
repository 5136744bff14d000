-------------------------------- MODULE Pmm --------------------------------
(***************************************************************************)
(* The physical page allocator (mm/pmm.c) over the page descriptors of     *)
(* mm/pfn_db.c: the doubly linked free list, the reference counts, the     *)
(* share counts and the page flags.                                        *)
(*                                                                         *)
(* Every operation runs under pmm_lock, so it is one action; the two loops *)
(* that matter (pmm_init, pmm_alloc_pages) keep the lock and are modelled  *)
(* one iteration at a time, with job # "idle" while the lock is held.      *)
(*                                                                         *)
(* page_t.u2 is a union: the previous link of a listed page and the share  *)
(* count of a page in use occupy the same word.  Descriptors live in the   *)
(* higher half, so as signed words their addresses are negative, NULL is   *)
(* 0 and a share count is not negative; u2 holds such words.               *)
(***************************************************************************)
EXTENDS Integers, FiniteSets

CONSTANTS MaxPfn,     \* pfn_db_getmax(): one past the last usable page
          Usable,     \* the frames in LIMINE_MEMMAP_USABLE regions
          Holders,    \* who can own a reference: a page table entry, a slab...
          MaxCount    \* the largest request made of pmm_alloc_pages

ASSUME MaxPfnAssumption == MaxPfn \in Nat
ASSUME UsableAssumption == Usable \subseteq 0 .. MaxPfn - 1
ASSUME HoldersAssumption == IsFiniteSet(Holders)
ASSUME MaxCountAssumption == MaxCount \in Nat

VARIABLES free_list,    \* address of the first listed page, or NULL
          free_pages,   \* the counter pmm_free_pages() returns
          next,         \* page_t.u1.next
          u2,           \* page_t.u2: prev or sharecount
          flags,        \* page_t.flags, the set of bits that are on
          refcount,     \* page_t.refcount
          job,          \* the loop that holds pmm_lock, and its locals
          holders,      \* ghost: who owns a reference to each page
          sharers       \* ghost: who has shared each page and not unshared it

page == <<next, u2, flags, refcount>>
ghost == <<holders, sharers>>
vars == <<free_list, free_pages, page, job, ghost>>

Pages == 0 .. MaxPfn
NULL == 0
Addr(p) == -(p + 1)
PageAt(a) == -a - 1
Pointers == {NULL} \cup {Addr(p) : p \in Pages}

Flags == {"FREE", "ALLOCATED", "RESERVED", "SHARED", "COW"}
is_page_free(p) == "FREE" \in flags[p]
is_page_reserved(p) == "RESERVED" \in flags[p]
is_page_shared(p) == "SHARED" \in flags[p]

Idle == [pc |-> "idle"]

-----------------------------------------------------------------------------
\* pfn_db_init: usable frames are FREE, all others RESERVED, and frame 0 is
\* RESERVED whatever the memory map says.
\* (Mutant: frame 0 is left to the memory map.)
PfnDbFlagsFrameZero(p) == IF p \in Usable THEN {"FREE"} ELSE {"RESERVED"}
PfnDbFlags(p) == IF p \in Usable \ {0} THEN {"FREE"} ELSE {"RESERVED"}

Init == /\ free_list = NULL
        /\ free_pages = 0
        /\ next = [p \in Pages |-> NULL]
        /\ u2 = [p \in Pages |-> NULL]
        /\ flags = [p \in Pages |-> PfnDbFlags(p)]
        /\ refcount = [p \in Pages |-> 0]
        /\ job = [pc |-> "init", i |-> 0]
        /\ holders = [p \in Pages |-> {}]
        /\ sharers = [p \in Pages |-> {}]

\* free_list_push(p): p becomes the head of the list.
free_list_push(p) ==
    /\ next' = [next EXCEPT ![p] = free_list]
    /\ u2' = [q \in Pages |-> IF q = p THEN NULL
                              ELSE IF Addr(q) = free_list THEN Addr(p) ELSE u2[q]]
    /\ free_list' = Addr(p)

\* (Mutant: the successor keeps its prev link.)
RemoveStalePrev(p, w) ==
    /\ next' = [q \in Pages |-> IF q = p THEN NULL
                                ELSE IF Addr(q) = u2[p] THEN next[p] ELSE next[q]]
    /\ u2' = [u2 EXCEPT ![p] = w]
    /\ free_list' = IF u2[p] # NULL THEN free_list ELSE next[p]

\* free_list_remove(p), after which the caller stores w in p's u2 word.
free_list_remove(p, w) ==
    /\ next' = [q \in Pages |-> IF q = p THEN NULL
                                ELSE IF Addr(q) = u2[p] THEN next[p] ELSE next[q]]
    /\ u2' = [q \in Pages |-> IF q = p THEN w
                              ELSE IF Addr(q) = next[p] THEN u2[p] ELSE u2[q]]
    /\ free_list' = IF u2[p] # NULL THEN free_list ELSE next[p]

\* (Mutant: the counter is not decremented.)
KeepFreePages == free_pages' = free_pages

DecrementFreePages == free_pages' = IF free_pages > 0 THEN free_pages - 1 ELSE 0

\* The body shared by pmm_alloc_page and pmm_alloc_pages: page p leaves the
\* list and is handed to h with one reference.
TakePage(p, h) ==
    /\ free_list_remove(p, 1)
    /\ DecrementFreePages
    /\ flags' = [flags EXCEPT ![p] = (@ \ {"FREE", "RESERVED", "SHARED", "COW"})
                                       \cup {"ALLOCATED"}]
    /\ refcount' = [refcount EXCEPT ![p] = 1]
    /\ holders' = [holders EXCEPT ![p] = @ \cup {h}]
    /\ UNCHANGED sharers

-----------------------------------------------------------------------------
\* One iteration of pmm_init's loop over the descriptors.
pmm_init ==
    /\ job.pc = "init"
    /\ IF is_page_free(job.i)
       THEN free_list_push(job.i) /\ free_pages' = free_pages + 1
       ELSE UNCHANGED <<free_list, free_pages, next, u2>>
    /\ job' = IF job.i = MaxPfn THEN Idle ELSE [job EXCEPT !.i = @ + 1]
    /\ UNCHANGED <<flags, refcount, ghost>>

\* pmm_alloc_page returning a page (an empty list returns NULL, no change).
pmm_alloc_page(h) ==
    /\ job.pc = "idle"
    /\ free_list # NULL
    /\ TakePage(PageAt(free_list), h)
    /\ UNCHANGED job

\* (Mutant: retaining a free page leaves it on the list.)
RetainStillListed(h, p) ==
    /\ job.pc = "idle"
    /\ h \notin holders[p]
    /\ refcount' = [refcount EXCEPT ![p] = @ + 1]
    /\ holders' = [holders EXCEPT ![p] = @ \cup {h}]
    /\ UNCHANGED <<free_list, free_pages, next, u2, flags, job, sharers>>

\* pmm_page_retain: a new reference for h; a free page is pulled off the list.
pmm_page_retain(h, p) ==
    /\ job.pc = "idle"
    /\ h \notin holders[p]
    /\ refcount' = [refcount EXCEPT ![p] = @ + 1]
    /\ IF is_page_free(p)
       THEN /\ free_list_remove(p, IF refcount[p] = 0 THEN 1 ELSE NULL)
            /\ DecrementFreePages
            /\ flags' = [flags EXCEPT ![p] = (@ \ {"FREE", "RESERVED"})
                                               \cup {"ALLOCATED"}]
       ELSE /\ u2' = [u2 EXCEPT ![p] = IF refcount[p] = 0 THEN 1 ELSE @]
            /\ UNCHANGED <<free_list, free_pages, next, flags>>
    /\ holders' = [holders EXCEPT ![p] = @ \cup {h}]
    /\ UNCHANGED <<job, sharers>>

\* pmm_page_release.  The last owner of a page gives it back only once every
\* share is undone, as unmap_page, map_page and _pte_free_level do.
MayRelease(h, p) ==
    /\ h \in holders[p] \/ refcount[p] = 0
    /\ sharers[p] # {} => holders[p] # {h}

\* (Mutant: the test for a zero count is missing.)
ReleaseBelowZero(h, p) ==
    /\ job.pc = "idle"
    /\ MayRelease(h, p)
    /\ holders' = [holders EXCEPT ![p] = @ \ {h}]
    /\ refcount' = [refcount EXCEPT ![p] = @ - 1]
    /\ UNCHANGED <<free_list, free_pages, next, u2, flags, job, sharers>>

pmm_page_release(h, p) ==
    /\ job.pc = "idle"
    /\ MayRelease(h, p)
    /\ holders' = [holders EXCEPT ![p] = @ \ {h}]
    /\ refcount' = [refcount EXCEPT ![p] = IF @ = 0 THEN 0 ELSE @ - 1]
    /\ IF refcount[p] # 1 \/ is_page_reserved(p)
       THEN UNCHANGED <<free_list, free_pages, next, u2, flags>>
       ELSE /\ flags' = [flags EXCEPT ![p] = (@ \ {"ALLOCATED", "SHARED", "COW"})
                                               \cup {"FREE"}]
            /\ free_list_push(p)
            /\ free_pages' = free_pages + 1
    /\ UNCHANGED <<job, sharers>>

\* pmm_page_share and pmm_page_unshare: called for a page that has an owner.
pmm_page_share(h, p) ==
    /\ job.pc = "idle"
    /\ holders[p] # {} /\ h \notin sharers[p]
    /\ u2' = [u2 EXCEPT ![p] =
                IF ~is_page_shared(p) /\ @ = 0 THEN 2 ELSE @ + 1]
    /\ flags' = [flags EXCEPT ![p] = @ \cup {"SHARED"}]
    /\ sharers' = [sharers EXCEPT ![p] = @ \cup {h}]
    /\ UNCHANGED <<free_list, free_pages, next, refcount, job, holders>>

\* (Mutant: SHARED is cleared one share too late.)
UnshareTooLate(h, p) ==
    /\ job.pc = "idle"
    /\ h \in sharers[p] /\ is_page_shared(p)
    /\ u2' = [u2 EXCEPT ![p] = @ - 1]
    /\ flags' = [flags EXCEPT ![p] = IF u2[p] <= 1 THEN @ \ {"SHARED"} ELSE @]
    /\ sharers' = [sharers EXCEPT ![p] = @ \ {h}]
    /\ UNCHANGED <<free_list, free_pages, next, refcount, job, holders>>

pmm_page_unshare(h, p) ==
    /\ job.pc = "idle"
    /\ h \in sharers[p] \/ ~is_page_shared(p)
    /\ IF ~is_page_shared(p)
       THEN UNCHANGED <<u2, flags>>
       ELSE LET count == IF u2[p] > 0 THEN u2[p] - 1 ELSE u2[p] IN
            /\ u2' = [u2 EXCEPT ![p] = count]
            /\ flags' = [flags EXCEPT ![p] = IF count <= 1 THEN @ \ {"SHARED"} ELSE @]
    /\ sharers' = [sharers EXCEPT ![p] = @ \ {h}]
    /\ UNCHANGED <<free_list, free_pages, next, refcount, job, holders>>

pmm_page_mark_cow(p) ==
    /\ job.pc = "idle"
    /\ holders[p] # {}
    /\ flags' = [flags EXCEPT ![p] = @ \cup {"COW"}]
    /\ UNCHANGED <<free_list, free_pages, next, u2, refcount, job, ghost>>

pmm_page_clear_cow(p) ==
    /\ job.pc = "idle"
    /\ holders[p] # {}
    /\ flags' = [flags EXCEPT ![p] = @ \ {"COW"}]
    /\ UNCHANGED <<free_list, free_pages, next, u2, refcount, job, ghost>>

-----------------------------------------------------------------------------
\* pmm_alloc_pages: take the lock and search for n consecutive free pages.
pmm_alloc_pages(h, n) ==
    /\ job.pc = "idle"
    /\ n > 1
    /\ job' = [pc |-> "scan", i |-> 0, j |-> 0, n |-> n, h |-> h]
    /\ UNCHANGED <<free_list, free_pages, page, ghost>>

\* (Mutant: the search skips a whole run when one of its pages is taken.)
SkipWholeRun(s) ==
    IF ~is_page_free(s.i + s.j) THEN [s EXCEPT !.i = @ + s.n, !.j = 0]
    ELSE IF s.j + 1 < s.n THEN [s EXCEPT !.j = @ + 1]
    ELSE [s EXCEPT !.pc = "take", !.j = 0]

\* Where the search continues after the page i + j: the next page of the run,
\* or, when it is not free, the run that starts right behind it.
AfterProbe(s) ==
    IF ~is_page_free(s.i + s.j) THEN [s EXCEPT !.i = @ + s.j + 1, !.j = 0]
    ELSE IF s.j + 1 < s.n THEN [s EXCEPT !.j = @ + 1]
    ELSE [s EXCEPT !.pc = "take", !.j = 0]

InRange(s) == s.i + s.n - 1 <= MaxPfn

ProbePage ==
    /\ job.pc = "scan" /\ InRange(job)
    /\ job' = AfterProbe(job)
    /\ UNCHANGED <<free_list, free_pages, page, ghost>>

NoRunFound ==
    /\ job.pc = "scan" /\ ~InRange(job)
    /\ job' = Idle
    /\ UNCHANGED <<free_list, free_pages, page, ghost>>

TakeRun ==
    /\ job.pc = "take"
    /\ TakePage(job.i + job.j, job.h)
    /\ job' = IF job.j + 1 < job.n THEN [job EXCEPT !.j = @ + 1] ELSE Idle

Next ==
    \/ pmm_init \/ ProbePage \/ NoRunFound \/ TakeRun
    \/ \E h \in Holders :
          \/ pmm_alloc_page(h)
          \/ \E n \in 0 .. MaxCount : pmm_alloc_pages(h, n)
          \/ \E p \in Pages : \/ pmm_page_retain(h, p) \/ pmm_page_release(h, p)
                              \/ pmm_page_share(h, p) \/ pmm_page_unshare(h, p)
    \/ \E p \in Pages : pmm_page_mark_cow(p) \/ pmm_page_clear_cow(p)

Spec == Init /\ [][Next]_vars

-----------------------------------------------------------------------------
Jobs == {Idle} \cup [pc : {"init"}, i : Pages]
               \cup [pc : {"scan", "take"}, i : Nat, j : Nat, n : 2 .. MaxCount,
                      h : Holders]

\* Every descriptor field, and the allocator's own state, has its type.
TypeOK == /\ free_list \in Pointers
          /\ free_pages \in Nat
          /\ next \in [Pages -> Pointers]
          /\ u2 \in [Pages -> Int]
          /\ flags \in [Pages -> SUBSET Flags]
          /\ refcount \in [Pages -> Nat]
          /\ job \in Jobs
          /\ holders \in [Pages -> SUBSET Holders]
          /\ sharers \in [Pages -> SUBSET Holders]

\* The pages that are on the free list: all FREE pages, except that pmm_init
\* has not pushed the ones ahead of it yet.
Listed == {p \in Pages : is_page_free(p) /\ (job.pc = "init" => p < job.i)}

\* The links among the pages of L are mutual and stay within L, and head is
\* the one page of L that has no predecessor.
Linked(head, nxt, prev, L) ==
    /\ head # NULL => PageAt(head) \in L
    /\ \A p \in L :
          /\ prev[p] = NULL <=> head = Addr(p)
          /\ nxt[p] # NULL => PageAt(nxt[p]) \in L /\ prev[PageAt(nxt[p])] = Addr(p)
          /\ prev[p] # NULL => /\ prev[p] \in Pointers
                              /\ PageAt(prev[p]) \in L
                              /\ nxt[PageAt(prev[p])] = Addr(p)

\* free_list_push and free_list_remove keep the free list doubly linked: they
\* rely on it to unlink from the middle, although pmm_page_share writes share
\* counts into the word that holds prev.
ListLinked == Linked(free_list, next, u2, Listed)

\* Following next from free_list visits every free page exactly once: no page
\* that pmm_page_release frees is lost, and none is on the list twice.
FreeListExact ==
    LET step[k \in 0 .. MaxPfn + 1] ==
            IF k = 0 THEN free_list
            ELSE IF step[k - 1] = NULL THEN NULL ELSE next[PageAt(step[k - 1])]
    IN /\ {step[k] : k \in 0 .. MaxPfn} \ {NULL} = {Addr(p) : p \in Listed}
       /\ step[Cardinality(Listed)] = NULL

\* pmm_free_pages() is the number of pages that can be allocated.
FreeCountExact == free_pages = Cardinality(Listed)

\* A page is given back exactly when its last owner releases it: the count is
\* the number of owners, and a page on the free list has none.
RefcountExact ==
    \A p \in Pages : /\ refcount[p] = Cardinality(holders[p])
                     /\ is_page_free(p) => holders[p] = {}

\* While a page has owners, SHARED and the share count tell how many mappings
\* share it (the copy-on-write fault of vmm_pf_handler decides on the count).
ShareCountExact ==
    \A p \in Pages : holders[p] # {} =>
        /\ u2[p] = 1 + Cardinality(sharers[p])
        /\ is_page_shared(p) <=> sharers[p] # {}

\* A free page carries no bit of its previous life, so the next owner of a
\* copy-on-write or shared page starts from a plain one.
FreePagesClean == \A p \in Pages : is_page_free(p) => flags[p] = {"FREE"}

\* What pmm_stress_test expects: when every reference has been released, the
\* counter is back to the number of pages pmm_init found.
NoPageLost ==
    job.pc = "idle" /\ (\A p \in Pages : holders[p] = {})
        => free_pages = Cardinality(Usable \ {0})

\* pmm_alloc_pages takes the first run of n free pages, and returns NULL only
\* when there is none, although its search skips ahead over i.
FreeRun(i, n) == i + n - 1 <= MaxPfn /\ \A k \in i .. i + n - 1 : is_page_free(k)

FirstFit ==
    /\ job.pc = "take" /\ job.j = 0 =>
          FreeRun(job.i, job.n) /\ \A k \in 0 .. job.i - 1 : ~FreeRun(k, job.n)
    /\ job.pc = "scan" /\ ~InRange(job) => \A k \in Pages : ~FreeRun(k, job.n)

-----------------------------------------------------------------------------
\* What the properties above rest on: which pages can be free, and that a
\* share outlives no owner...
PageStates ==
    \A p \in Pages :
        /\ is_page_reserved(p) <=> p \notin Usable \ {0}
        /\ is_page_free(p) <=> ~is_page_reserved(p) /\ holders[p] = {}
        /\ holders[p] = {} => sharers[p] = {} /\ ~is_page_shared(p)

\* ...and what the loop that holds the lock has established so far.
JobProgress ==
    /\ job.pc = "init" => \A p \in Pages : holders[p] = {}
    /\ job.pc = "scan" => /\ job.j < job.n
                          /\ \A k \in job.i .. job.i + job.j - 1 :
                                k \in Pages /\ is_page_free(k)
                          /\ \A k \in 0 .. job.i - 1 : ~FreeRun(k, job.n)
    /\ job.pc = "take" => /\ job.j < job.n /\ InRange(job)
                          /\ \A k \in job.i + job.j .. job.i + job.n - 1 : is_page_free(k)
                          /\ job.j = 0 => \A k \in 0 .. job.i - 1 : ~FreeRun(k, job.n)

\* The inductive invariant.
Inv == /\ TypeOK /\ ListLinked /\ FreeCountExact /\ RefcountExact
       /\ ShareCountExact /\ FreePagesClean /\ PageStates /\ JobProgress
=============================================================================
