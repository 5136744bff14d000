----------------------------- MODULE PmmProofs -----------------------------
(***************************************************************************)
(* Proofs about Pmm for every memory map, every set of owners and every    *)
(* request size.                                                           *)
(***************************************************************************)
EXTENDS Pmm, FiniteSetTheorems, TLAPS

-----------------------------------------------------------------------------
\* The words of the list after a push, and after an unlink that leaves v.
PushedPrev(head, prev, p) ==
    [q \in Pages |-> IF q = p THEN NULL ELSE IF Addr(q) = head THEN Addr(p) ELSE prev[q]]
UnlinkedNext(nxt, prev, p) ==
    [q \in Pages |-> IF q = p THEN NULL ELSE IF Addr(q) = prev[p] THEN nxt[p] ELSE nxt[q]]
UnlinkedPrev(nxt, prev, p, v) ==
    [q \in Pages |-> IF q = p THEN v ELSE IF Addr(q) = nxt[p] THEN prev[p] ELSE prev[q]]

\* Addresses: every pointer is NULL or the address of one page, and back.
LEMMA Addresses ==
    /\ \A p \in Pages : Addr(p) \in Pointers /\ Addr(p) # NULL /\ PageAt(Addr(p)) = p
    /\ \A a \in Pointers : a # NULL => PageAt(a) \in Pages /\ Addr(PageAt(a)) = a
    /\ \A p, q \in Pages : Addr(p) = Addr(q) => p = q
    /\ NULL \in Pointers
    /\ Pointers \subseteq Int
  BY MaxPfnAssumption DEF Pages, Pointers, Addr, PageAt, NULL

\* free_list_push adds its page to a well-linked list.
LEMMA PushLinks ==
    ASSUME NEW L \in SUBSET Pages, NEW p \in Pages \ L, NEW head \in Pointers,
           NEW nxt \in [Pages -> Pointers], NEW prev \in [Pages -> Int],
           Linked(head, nxt, prev, L)
    PROVE  Linked(Addr(p), [nxt EXCEPT ![p] = head], PushedPrev(head, prev, p), L \cup {p})
  <1> DEFINE nxt2 == [nxt EXCEPT ![p] = head]
             prev2 == PushedPrev(head, prev, p)
  <1>1. ASSUME NEW q \in L \cup {p}
        PROVE  /\ prev2[q] = NULL <=> Addr(p) = Addr(q)
               /\ nxt2[q] # NULL => /\ PageAt(nxt2[q]) \in L \cup {p}
                                    /\ prev2[PageAt(nxt2[q])] = Addr(q)
               /\ prev2[q] # NULL => /\ prev2[q] \in Pointers
                                     /\ PageAt(prev2[q]) \in L \cup {p}
                                     /\ nxt2[PageAt(prev2[q])] = Addr(q)
    <2>1. CASE q = p
      BY <2>1, Addresses, Zenon DEF Linked, PushedPrev
    <2>2. CASE q # p
      BY <2>2, Addresses, SMTT(30) DEF Linked, PushedPrev
    <2>3. QED
      BY <2>1, <2>2, Zenon
  <1>2. QED
    BY <1>1, Addresses, Zenon DEF Linked

\* free_list_remove takes its page out of a well-linked list.
LEMMA UnlinkLinks ==
    ASSUME NEW L \in SUBSET Pages, NEW p \in L, NEW head \in Pointers,
           NEW nxt \in [Pages -> Pointers], NEW prev \in [Pages -> Int], NEW v \in Int,
           Linked(head, nxt, prev, L)
    PROVE  Linked(IF prev[p] # NULL THEN head ELSE nxt[p], UnlinkedNext(nxt, prev, p),
                  UnlinkedPrev(nxt, prev, p, v), L \ {p})
  <1> DEFINE head2 == IF prev[p] # NULL THEN head ELSE nxt[p]
             nxt2 == UnlinkedNext(nxt, prev, p)
             prev2 == UnlinkedPrev(nxt, prev, p, v)
  <1>1. head2 # NULL => PageAt(head2) \in L \ {p}
    BY Addresses, ZenonT(30) DEF Linked
  <1>2. ASSUME NEW q \in L \ {p}
        PROVE  /\ prev2[q] = NULL <=> head2 = Addr(q)
               /\ nxt2[q] # NULL => /\ PageAt(nxt2[q]) \in L \ {p}
                                    /\ prev2[PageAt(nxt2[q])] = Addr(q)
               /\ prev2[q] # NULL => /\ prev2[q] \in Pointers
                                     /\ PageAt(prev2[q]) \in L \ {p}
                                     /\ nxt2[PageAt(prev2[q])] = Addr(q)
    <2>1. prev2[q] = NULL <=> head2 = Addr(q)
      BY Addresses, SMTT(30) DEF Linked, UnlinkedPrev
    <2>2. ASSUME nxt2[q] # NULL
          PROVE  PageAt(nxt2[q]) \in L \ {p} /\ prev2[PageAt(nxt2[q])] = Addr(q)
      BY <2>2, Addresses, SMTT(30) DEF Linked, UnlinkedPrev, UnlinkedNext
    <2>3. ASSUME prev2[q] # NULL
          PROVE  /\ prev2[q] \in Pointers
                 /\ PageAt(prev2[q]) \in L \ {p}
                 /\ nxt2[PageAt(prev2[q])] = Addr(q)
      BY <2>3, Addresses, SMTT(30) DEF Linked, UnlinkedPrev, UnlinkedNext
    <2>4. QED
      BY <2>1, <2>2, <2>3, Zenon
  <1>3. QED
    BY <1>1, <1>2, Zenon DEF Linked

-----------------------------------------------------------------------------
\* The part of the invariant that does not speak of the loops.
Core == /\ TypeOK /\ ListLinked /\ FreeCountExact /\ RefcountExact
        /\ ShareCountExact /\ FreePagesClean /\ PageStates

\* Cardinalities of the sets the counters count.
LEMMA FiniteCounts ==
    /\ IsFiniteSet(Pages)
    /\ \A S \in SUBSET Pages : IsFiniteSet(S) /\ Cardinality(S) \in Nat
    /\ \A S \in SUBSET Holders : IsFiniteSet(S) /\ Cardinality(S) \in Nat
  <1>1. IsFiniteSet(Pages)
    BY MaxPfnAssumption, FS_Interval DEF Pages
  <1>2. QED
    BY <1>1, HoldersAssumption, FS_Subset, FS_CardinalityType, Zenon

\* A free page p that is unlinked and given to its first owner h: what
\* pmm_alloc_page, pmm_alloc_pages and pmm_page_retain do with a free page.
LEMMA FirstOwner ==
    ASSUME Core, NEW p \in Pages, is_page_free(p), NEW h \in Holders,
           job.pc # "init", job'.pc # "init", job' \in Jobs,
           free_list_remove(p, 1), DecrementFreePages,
           flags' = [flags EXCEPT ![p] = {"ALLOCATED"}],
           refcount' = [refcount EXCEPT ![p] = 1],
           holders' = [holders EXCEPT ![p] = {h}], sharers' = sharers
    PROVE  Core'
  <1> USE DEF Core
  <1>1. p \in Listed /\ Listed \in SUBSET Pages /\ Listed' = Listed \ {p}
    BY Zenon DEF Listed, is_page_free, TypeOK
  <1>2. /\ free_list' = IF u2[p] # NULL THEN free_list ELSE next[p]
        /\ next' = UnlinkedNext(next, u2, p)
        /\ u2' = UnlinkedPrev(next, u2, p, 1)
    BY Zenon DEF free_list_remove, UnlinkedNext, UnlinkedPrev
  <1>3. Linked(free_list', next', u2', Listed')
    <2>1. Linked(IF u2[p] # NULL THEN free_list ELSE next[p], UnlinkedNext(next, u2, p),
                 UnlinkedPrev(next, u2, p, 1), Listed \ {p})
      <3>1. 1 \in Int
        BY SMTT(30)
      <3>2. QED
        BY <3>1, <1>1, UnlinkLinks, Zenon DEF ListLinked, TypeOK
    <2>2. QED
      BY <2>1, <1>1, <1>2, Zenon
  <1>4. FreeCountExact'
    <2>1. Cardinality(Listed \ {p}) = Cardinality(Listed) - 1 /\ Cardinality(Listed) \in Nat
      BY <1>1, FiniteCounts, FS_RemoveElement, Zenon
    <2>2. QED
      BY <1>1, <2>1, FiniteCounts, SMTT(30) DEF FreeCountExact, DecrementFreePages
  <1>5. TypeOK'
    <2>1. u2' \in [Pages -> Int] /\ next' \in [Pages -> Pointers] /\ free_list' \in Pointers
      BY <1>2, Addresses, SMTT(30) DEF TypeOK, UnlinkedNext, UnlinkedPrev
    <2>2. free_pages' \in Nat
      BY SMTT(30) DEF TypeOK, DecrementFreePages
    <2>3. flags' \in [Pages -> SUBSET Flags] /\ refcount' \in [Pages -> Nat]
      BY Zenon DEF TypeOK, Flags
    <2>4. holders' \in [Pages -> SUBSET Holders] /\ sharers' \in [Pages -> SUBSET Holders]
      BY Zenon DEF TypeOK
    <2>5. QED
      BY <2>1, <2>2, <2>3, <2>4, Zenon DEF TypeOK
  <1>6. RefcountExact'
    BY FS_Singleton, Zenon DEF RefcountExact, is_page_free, TypeOK
  <1>7. ShareCountExact'
    <2>1. ASSUME NEW q \in Pages, holders'[q] # {}
          PROVE  /\ u2'[q] = 1 + Cardinality(sharers'[q])
                 /\ ("SHARED" \in flags'[q]) <=> sharers'[q] # {}
      <3>1. CASE q = p
        <4>1. sharers'[q] = {} /\ Cardinality({}) = 0
          BY <3>1, FS_EmptySet, Zenon DEF PageStates, RefcountExact
        <4>2. u2'[q] = 1 /\ "SHARED" \notin flags'[q]
          BY <3>1, <1>2, Zenon DEF UnlinkedPrev, TypeOK
        <4>3. QED
          BY <4>1, <4>2, SMTT(30)
      <3>2. CASE q # p
        <4>1. holders[q] # {} /\ q \notin Listed
          BY <3>2, <2>1, Zenon DEF TypeOK, Listed, RefcountExact, is_page_free
        <4>2. next[p] # Addr(q)
          BY <1>1, <4>1, Addresses, SMTT(30) DEF ListLinked, Linked
        <4>3. u2'[q] = u2[q]
          BY <3>2, <4>2, <1>2, Zenon DEF UnlinkedPrev
        <4>4. QED
          BY <3>2, <4>1, <4>3, Zenon DEF ShareCountExact, is_page_shared, TypeOK
      <3>3. QED
        BY <3>1, <3>2, Zenon
    <2>2. QED
      BY <2>1, Zenon DEF ShareCountExact, is_page_shared
  <1>8. FreePagesClean'
    BY Zenon DEF FreePagesClean, is_page_free, TypeOK
  <1>9. PageStates'
    BY Zenon DEF PageStates, FreePagesClean, is_page_free, is_page_reserved, is_page_shared, TypeOK
  <1>10. QED
    BY <1>3, <1>4, <1>5, <1>6, <1>7, <1>8, <1>9, Zenon DEF ListLinked

\* The last owner of p gives it back: pmm_page_release pushes the page.
LEMMA LastOwner ==
    ASSUME Core, NEW p \in Pages, ~is_page_reserved(p), holders[p] # {}, sharers[p] = {},
           job.pc = "idle", job' = job,
           flags' = [flags EXCEPT ![p] = {"FREE"}],
           free_list_push(p), free_pages' = free_pages + 1,
           refcount' = [refcount EXCEPT ![p] = 0],
           holders' = [holders EXCEPT ![p] = {}], sharers' = sharers
    PROVE  Core'
  <1> USE DEF Core
  <1>1. p \in Pages \ Listed /\ Listed \in SUBSET Pages /\ Listed' = Listed \cup {p}
    BY Zenon DEF Listed, is_page_free, TypeOK, PageStates
  <1>2. /\ free_list' = Addr(p)
        /\ next' = [next EXCEPT ![p] = free_list]
        /\ u2' = PushedPrev(free_list, u2, p)
    BY Zenon DEF free_list_push, PushedPrev
  <1>3. ListLinked'
    <2>1. Linked(Addr(p), [next EXCEPT ![p] = free_list], PushedPrev(free_list, u2, p),
                 Listed \cup {p})
      BY <1>1, PushLinks, Zenon DEF ListLinked, TypeOK
    <2>2. Linked(free_list', next', u2', Listed')
      BY <2>1, <1>1, <1>2, Zenon
    <2>3. QED
      BY <2>2, Zenon DEF ListLinked
  <1>4. FreeCountExact'
    <2>1. Cardinality(Listed \cup {p}) = Cardinality(Listed) + 1
      BY <1>1, FiniteCounts, FS_AddElement, Zenon
    <2>2. QED
      BY <1>1, <2>1, Zenon DEF FreeCountExact
  <1>5. TypeOK'
    <2>1. u2' \in [Pages -> Int] /\ next' \in [Pages -> Pointers] /\ free_list' \in Pointers
      BY <1>2, Addresses, Zenon DEF TypeOK, PushedPrev
    <2>2. free_pages' \in Nat /\ flags' \in [Pages -> SUBSET Flags] /\ refcount' \in [Pages -> Nat]
      BY SMTT(30) DEF TypeOK, Flags
    <2>3. holders' \in [Pages -> SUBSET Holders] /\ sharers' \in [Pages -> SUBSET Holders]
      BY Zenon DEF TypeOK
    <2>4. QED
      BY <2>1, <2>2, <2>3, Zenon DEF TypeOK
  <1>6. RefcountExact'
    BY FS_EmptySet, Zenon DEF RefcountExact, is_page_free, TypeOK
  <1>7. ShareCountExact'
    <2>1. ASSUME NEW q \in Pages, holders'[q] # {}
          PROVE  /\ u2'[q] = 1 + Cardinality(sharers'[q])
                 /\ ("SHARED" \in flags'[q]) <=> sharers'[q] # {}
      <3>1. q # p /\ holders[q] # {} /\ q \notin Listed
        BY <2>1, Zenon DEF TypeOK, Listed, RefcountExact, is_page_free
      <3>2. free_list # Addr(q)
        BY <3>1, Addresses, SMTT(30) DEF ListLinked, Linked
      <3>3. u2'[q] = u2[q]
        BY <3>1, <3>2, <1>2, Zenon DEF PushedPrev
      <3>4. QED
        BY <3>1, <3>3, Zenon DEF ShareCountExact, is_page_shared, TypeOK
    <2>2. QED
      BY <2>1, Zenon DEF ShareCountExact, is_page_shared
  <1>8. FreePagesClean'
    BY Zenon DEF FreePagesClean, is_page_free, TypeOK
  <1>9. PageStates'
    BY Zenon DEF PageStates, is_page_free, is_page_reserved, is_page_shared, TypeOK
  <1>10. QED
    BY <1>3, <1>4, <1>5, <1>6, <1>7, <1>8, <1>9, Zenon

\* A step that leaves the list alone, and the pages on it.
LEMMA OffTheList ==
    ASSUME Core, TypeOK', NEW p \in Pages, ~is_page_free(p),
           job.pc = "idle", job' = job,
           UNCHANGED <<free_list, free_pages, next>>,
           \A q \in Pages \ {p} : /\ u2'[q] = u2[q] /\ flags'[q] = flags[q]
                                  /\ refcount'[q] = refcount[q]
                                  /\ holders'[q] = holders[q] /\ sharers'[q] = sharers[q],
           flags'[p] \cap {"FREE", "RESERVED"} = flags[p] \cap {"FREE", "RESERVED"},
           refcount'[p] = Cardinality(holders'[p]),
           holders'[p] # {} => /\ u2'[p] = 1 + Cardinality(sharers'[p])
                               /\ ("SHARED" \in flags'[p]) <=> sharers'[p] # {},
           holders'[p] = {} => /\ sharers'[p] = {} /\ is_page_reserved(p)
                               /\ "SHARED" \notin flags'[p]
    PROVE  Core'
  <1> USE DEF Core
  <1>1. /\ Listed' = Listed
        /\ p \notin Listed
        /\ \A q \in Listed : q \in Pages \ {p}
    BY SMTT(30) DEF Listed, is_page_free, TypeOK
  <1>2. ListLinked'
    <2>1. Linked(free_list, next, u2', Listed)
      BY <1>1, SMTT(30) DEF ListLinked, Linked
    <2>2. QED
      BY <1>1, <2>1, Zenon DEF ListLinked
  <1>3. FreeCountExact' /\ RefcountExact'
    BY <1>1, Zenon DEF FreeCountExact, RefcountExact, is_page_free
  <1>4. ShareCountExact'
    BY Zenon DEF ShareCountExact, is_page_shared
  <1>5. FreePagesClean'
    BY Zenon DEF FreePagesClean, is_page_free
  <1>6. PageStates'
    BY Zenon DEF PageStates, is_page_free, is_page_reserved, is_page_shared
  <1>7. QED
    BY <1>2, <1>3, <1>4, <1>5, <1>6, Zenon

-----------------------------------------------------------------------------
\* An idle job has nothing left to establish.
LEMMA IdleJob ==
    ASSUME job' = Idle \/ (job.pc = "idle" /\ job' = job)
    PROVE  JobProgress'
  BY SMTT(30) DEF JobProgress, Idle

LEMMA InitInv == Init => Inv
  <1> SUFFICES ASSUME Init PROVE Inv
    BY Zenon
  <1>1. Listed = {} /\ Cardinality({}) = 0
    BY FS_EmptySet, SMTT(30) DEF Init, Listed, Pages
  <1>2. TypeOK
    BY MaxPfnAssumption, Addresses, SMTT(30) DEF Init, TypeOK, Jobs, Pages, PfnDbFlags, Flags, NULL
  <1>3. ListLinked /\ FreeCountExact
    BY <1>1, Zenon DEF Init, ListLinked, Linked, FreeCountExact
  <1>4. RefcountExact /\ ShareCountExact
    BY <1>1, Zenon DEF Init, RefcountExact, ShareCountExact
  <1>5. FreePagesClean /\ PageStates
    BY Zenon DEF Init, FreePagesClean, PageStates, PfnDbFlags, is_page_free,
           is_page_reserved, is_page_shared
  <1>6. JobProgress
    BY Zenon DEF Init, JobProgress
  <1>7. QED
    BY <1>2, <1>3, <1>4, <1>5, <1>6, Zenon DEF Inv

\* pmm_init pushes the free pages in ascending order.
LEMMA InitStepInv == Inv /\ pmm_init => Inv'
  <1> SUFFICES ASSUME Inv, pmm_init PROVE Inv'
    BY Zenon
  <1> DEFINE p == job.i
  <1> USE DEF Inv
  <1>1. /\ job.pc = "init" /\ p \in Pages /\ p \notin Listed
        /\ job' = IF p = MaxPfn THEN Idle ELSE [job EXCEPT !.i = p + 1]
        /\ UNCHANGED <<flags, refcount, holders, sharers>>
    BY SMTT(30) DEF pmm_init, TypeOK, Jobs, Idle, Pages, Listed, ghost
  <1>2. /\ job' \in Jobs
        /\ job'.pc = "init" => job'.i = p + 1
        /\ job'.pc # "init" => p = MaxPfn
        /\ job'.pc \in {"init", "idle"}
    BY <1>1, MaxPfnAssumption, SMTT(30) DEF TypeOK, Jobs, Idle, Pages
  <1>3. Listed \in SUBSET Pages
    BY Zenon DEF Listed
  <1>4. Listed' = IF is_page_free(p) THEN Listed \cup {p} ELSE Listed
    BY <1>1, <1>2, MaxPfnAssumption, SMTT(30) DEF Listed, is_page_free, Pages
  <1>5. \A q \in Pages : holders[q] = {}
    BY <1>1, Zenon DEF JobProgress
  <1>6. /\ RefcountExact' /\ ShareCountExact' /\ FreePagesClean' /\ PageStates'
    BY <1>1, <1>5, Zenon DEF RefcountExact, ShareCountExact, FreePagesClean, PageStates,
                      is_page_free, is_page_reserved, is_page_shared
  <1>7. JobProgress'
    BY <1>1, <1>2, <1>5, Zenon DEF JobProgress
  <1>8. TypeOK' /\ ListLinked' /\ FreeCountExact'
    <2>1. CASE is_page_free(p)
      <3>1. /\ free_list' = Addr(p)
            /\ next' = [next EXCEPT ![p] = free_list]
            /\ u2' = PushedPrev(free_list, u2, p)
            /\ free_pages' = free_pages + 1
        BY <2>1, Zenon DEF pmm_init, free_list_push, PushedPrev
      <3>2. Linked(Addr(p), [next EXCEPT ![p] = free_list], PushedPrev(free_list, u2, p),
                   Listed \cup {p})
        BY <1>1, <1>3, PushLinks, Zenon DEF ListLinked, TypeOK
      <3>3. ListLinked'
        <4>1. Linked(free_list', next', u2', Listed')
          BY <2>1, <1>4, <3>1, <3>2, Zenon
        <4>2. QED
          BY <4>1, Zenon DEF ListLinked
      <3>4. Cardinality(Listed \cup {p}) = Cardinality(Listed) + 1
        BY <1>1, <1>3, FiniteCounts, FS_AddElement, Zenon
      <3>5. FreeCountExact'
        BY <2>1, <1>4, <3>1, <3>4, Zenon DEF FreeCountExact
      <3>6. TypeOK'
        BY <1>1, <1>2, <3>1, Addresses, SMTT(30) DEF TypeOK, PushedPrev
      <3>7. QED
        BY <3>3, <3>5, <3>6, Zenon
    <2>2. CASE ~is_page_free(p)
      <3>1. UNCHANGED <<free_list, free_pages, next, u2>>
        BY <2>2, Zenon DEF pmm_init
      <3>2. TypeOK'
        BY <1>1, <1>2, <3>1, Zenon DEF TypeOK
      <3>3. ListLinked' /\ FreeCountExact'
        BY <2>2, <1>4, <3>1, Zenon DEF ListLinked, FreeCountExact
      <3>4. QED
        BY <3>2, <3>3, Zenon
    <2>3. QED
      BY <2>1, <2>2, Zenon
  <1>9. QED
    BY <1>6, <1>7, <1>8, Zenon

\* TakePage on a free page satisfies the hypotheses of FirstOwner.
LEMMA TakePageCore ==
    ASSUME Core, NEW p \in Pages, is_page_free(p), NEW h \in Holders, TakePage(p, h),
           job.pc # "init", job'.pc # "init", job' \in Jobs
    PROVE  Core'
  <1>1. flags' = [flags EXCEPT ![p] = {"ALLOCATED"}]
    BY Zenon DEF Core, TakePage, FreePagesClean
  <1>2. holders' = [holders EXCEPT ![p] = {h}]
    BY Zenon DEF Core, TakePage, RefcountExact
  <1>3. QED
    BY <1>1, <1>2, FirstOwner, Zenon DEF TakePage

LEMMA AllocPageInv == \A h \in Holders : Inv /\ pmm_alloc_page(h) => Inv'
  <1> SUFFICES ASSUME NEW h \in Holders, Inv, pmm_alloc_page(h) PROVE Inv'
    BY Zenon
  <1> DEFINE p == PageAt(free_list)
  <1>1. p \in Pages /\ is_page_free(p)
    BY Addresses, Zenon DEF Inv, TypeOK, ListLinked, Linked, Listed, pmm_alloc_page
  <1>2. job' = job /\ job.pc = "idle" /\ job \in Jobs /\ Core
    BY Zenon DEF pmm_alloc_page, Inv, Core, TypeOK
  <1>3. Core'
    BY <1>1, <1>2, TakePageCore, Zenon DEF pmm_alloc_page
  <1>4. QED
    BY <1>2, <1>3, IdleJob, Zenon DEF Inv, Core

LEMMA RetainInv == \A h \in Holders, p \in Pages : Inv /\ pmm_page_retain(h, p) => Inv'
  <1> SUFFICES ASSUME NEW h \in Holders, NEW p \in Pages, Inv, pmm_page_retain(h, p)
               PROVE  Inv'
    BY Zenon
  <1>1. job' = job /\ job.pc = "idle" /\ job \in Jobs /\ Core
    BY Zenon DEF pmm_page_retain, Inv, Core, TypeOK
  <1>2. CASE is_page_free(p)
    <2>1. refcount[p] = 0 /\ holders[p] = {}
      BY <1>2, FS_EmptySet, Zenon DEF Inv, RefcountExact
    <2>2. flags' = [flags EXCEPT ![p] = {"ALLOCATED"}]
      BY <1>2, Zenon DEF Inv, pmm_page_retain, FreePagesClean
    <2>3. refcount' = [refcount EXCEPT ![p] = 1] /\ holders' = [holders EXCEPT ![p] = {h}]
      BY <2>1, SMTT(30) DEF pmm_page_retain
    <2>4. Core'
      BY <1>1, <1>2, <2>1, <2>2, <2>3, FirstOwner, Zenon DEF pmm_page_retain
    <2>5. QED
      BY <1>1, <2>4, IdleJob, Zenon DEF Inv, Core
  <1>3. CASE ~is_page_free(p)
    <2>1. /\ u2' = [u2 EXCEPT ![p] = IF refcount[p] = 0 THEN 1 ELSE u2[p]]
          /\ refcount' = [refcount EXCEPT ![p] = refcount[p] + 1]
          /\ holders' = [holders EXCEPT ![p] = holders[p] \cup {h}]
          /\ UNCHANGED <<free_list, free_pages, next, flags, job, sharers>>
      BY <1>3, Zenon DEF pmm_page_retain
    <2>2. TypeOK'
      BY <2>1, SMTT(30) DEF Inv, TypeOK
    <2>3. refcount'[p] = Cardinality(holders'[p])
      <3>1. Cardinality(holders[p] \cup {h}) = Cardinality(holders[p]) + 1
        BY FiniteCounts, FS_AddElement, Zenon DEF Inv, TypeOK, pmm_page_retain
      <3>2. QED
        BY <2>1, <3>1, Zenon DEF Inv, TypeOK, RefcountExact
    <2>4. u2'[p] = 1 + Cardinality(sharers'[p]) /\ ("SHARED" \in flags'[p] <=> sharers'[p] # {})
      <3>1. CASE holders[p] # {}
        <4>1. refcount[p] # 0
          BY <3>1, FiniteCounts, FS_EmptySet, Zenon DEF Inv, TypeOK, RefcountExact
        <4>2. QED
          BY <2>1, <3>1, <4>1, Zenon DEF Inv, TypeOK, ShareCountExact, is_page_shared
      <3>2. CASE holders[p] = {}
        <4>1. refcount[p] = 0 /\ sharers[p] = {} /\ Cardinality({}) = 0
          BY <3>2, FS_EmptySet, Zenon DEF Inv, RefcountExact, PageStates
        <4>2. "SHARED" \notin flags[p]
          BY <3>2, <1>3, Zenon DEF Inv, PageStates, is_page_shared
        <4>3. QED
          BY <2>1, <4>1, <4>2, SMTT(30) DEF Inv, TypeOK
      <3>3. QED
        BY <3>1, <3>2, Zenon
    <2>5. Core'
      BY <1>1, <1>3, <2>1, <2>2, <2>3, <2>4, OffTheList, Zenon DEF Core, TypeOK
    <2>6. QED
      BY <1>1, <2>5, IdleJob, SMTT(30) DEF Inv, Core
  <1>4. QED
    BY <1>2, <1>3, Zenon

LEMMA ReleaseInv == \A h \in Holders, p \in Pages : Inv /\ pmm_page_release(h, p) => Inv'
  <1> SUFFICES ASSUME NEW h \in Holders, NEW p \in Pages, Inv, pmm_page_release(h, p)
               PROVE  Inv'
    OBVIOUS
  <1>1. /\ job' = job /\ job.pc = "idle" /\ job \in Jobs /\ Core
        /\ sharers' = sharers
        /\ holders' = [holders EXCEPT ![p] = holders[p] \ {h}]
        /\ refcount' = [refcount EXCEPT ![p] = IF refcount[p] = 0 THEN 0 ELSE refcount[p] - 1]
    BY Zenon DEF pmm_page_release, Inv, Core, TypeOK
  <1>2. /\ refcount[p] = Cardinality(holders[p]) /\ refcount[p] \in Nat
        /\ holders[p] \in SUBSET Holders /\ IsFiniteSet(holders[p])
        /\ refcount[p] = 0 <=> holders[p] = {}
    BY FiniteCounts, FS_EmptySet, Zenon DEF Inv, TypeOK, RefcountExact
  <1>3. h \in holders[p] => Cardinality(holders[p] \ {h}) = refcount[p] - 1
    BY <1>2, FS_RemoveElement, Zenon
  <1>4. CASE refcount[p] = 0
    <2>1. holders' = holders /\ refcount' = refcount
      BY <1>1, <1>2, <1>4, Zenon DEF Inv, TypeOK
    <2>2. UNCHANGED <<free_list, free_pages, next, u2, flags>>
      BY <1>4, SMTT(30) DEF pmm_page_release
    <2>3. QED
      BY <1>1, <2>1, <2>2, IdleJob, Zenon DEF Inv, TypeOK, ListLinked, FreeCountExact, RefcountExact, ShareCountExact,
             FreePagesClean, PageStates, Listed, is_page_free, is_page_reserved, is_page_shared

  <1>5. CASE refcount[p] # 0 /\ (refcount[p] # 1 \/ is_page_reserved(p))
    <2>1. UNCHANGED <<free_list, free_pages, next, u2, flags>>
      BY <1>5, Zenon DEF pmm_page_release
    <2>2. TypeOK'
      BY <1>1, <1>2, <1>5, <2>1, SMTT(30) DEF Inv, TypeOK
    <2>3. h \in holders[p] /\ refcount'[p] = Cardinality(holders'[p])
      BY <1>1, <1>2, <1>3, <1>5, Zenon DEF pmm_page_release, MayRelease, Inv, TypeOK
    <2>4. ~is_page_free(p)
      BY <2>3, Zenon DEF Inv, RefcountExact
    <2>5. ASSUME holders'[p] = {}
          PROVE  sharers'[p] = {} /\ is_page_reserved(p) /\ "SHARED" \notin flags'[p]
      <3>1. holders[p] = {h}
        BY <2>5, <2>3, <1>1, Zenon DEF Inv, TypeOK
      <3>2. refcount[p] = 1
        BY <3>1, <1>2, FS_Singleton, Zenon
      <3>3. sharers[p] = {}
        BY <3>1, Zenon DEF pmm_page_release, MayRelease
      <3>4. QED
        BY <3>1, <3>2, <3>3, <1>1, <1>5, <2>1, Zenon DEF Inv, ShareCountExact, is_page_shared
    <2>6. Core'
      BY <1>1, <1>2, <2>1, <2>2, <2>3, <2>4, <2>5, OffTheList, ZenonT(30) DEF Inv, Core, TypeOK, ShareCountExact, is_page_shared

    <2>7. QED
      BY <1>1, <2>6, IdleJob, Zenon DEF Inv, Core
  <1>6. CASE refcount[p] = 1 /\ ~is_page_reserved(p)
    <2>1. h \in holders[p]
      BY <1>6, SMTT(30) DEF pmm_page_release, MayRelease
    <2>2. holders[p] \ {h} = {}
      <3>1. IsFiniteSet(holders[p] \ {h}) /\ Cardinality(holders[p] \ {h}) = 0
        BY <2>1, <1>2, <1>3, <1>6, FS_RemoveElement, SMTT(30)
      <3>2. QED
        BY <3>1, FS_EmptySet, Zenon
    <2>3. holders' = [holders EXCEPT ![p] = {}] /\ holders[p] # {} /\ sharers[p] = {}
      BY <1>1, <2>1, <2>2, Zenon DEF pmm_page_release, MayRelease
    <2>4. refcount' = [refcount EXCEPT ![p] = 0]
      BY <1>1, <1>6
    <2>5. /\ free_list_push(p) /\ free_pages' = free_pages + 1
          /\ flags' = [flags EXCEPT ![p] = (flags[p] \ {"ALLOCATED", "SHARED", "COW"}) \cup {"FREE"}]
      BY <1>6, Zenon DEF pmm_page_release
    <2>6. (flags[p] \ {"ALLOCATED", "SHARED", "COW"}) \cup {"FREE"} = {"FREE"}
      BY <1>6, Zenon DEF Inv, TypeOK, Flags, is_page_reserved
    <2>7. Core'
      BY <1>1, <1>6, <2>3, <2>4, <2>5, <2>6, LastOwner, Zenon
    <2>8. QED
      BY <1>1, <2>7, IdleJob, SMTT(30) DEF Inv, Core
  <1>7. QED
    BY <1>4, <1>5, <1>6, Zenon

LEMMA ShareInv == \A h \in Holders, p \in Pages : Inv /\ pmm_page_share(h, p) => Inv'
  <1> SUFFICES ASSUME NEW h \in Holders, NEW p \in Pages, Inv, pmm_page_share(h, p)
               PROVE  Inv'
    OBVIOUS
  <1>1. /\ job' = job /\ job.pc = "idle" /\ job \in Jobs /\ Core /\ holders[p] # {}
        /\ UNCHANGED <<free_list, free_pages, next, refcount, holders>>
        /\ u2' = [u2 EXCEPT ![p] = IF ~is_page_shared(p) /\ u2[p] = 0 THEN 2 ELSE u2[p] + 1]
        /\ flags' = [flags EXCEPT ![p] = flags[p] \cup {"SHARED"}]
        /\ sharers' = [sharers EXCEPT ![p] = sharers[p] \cup {h}]
    BY Zenon DEF pmm_page_share, Inv, Core, TypeOK
  <1>2. Cardinality(sharers[p] \cup {h}) = Cardinality(sharers[p]) + 1 /\ Cardinality(sharers[p]) \in Nat
    BY FiniteCounts, FS_AddElement, Zenon DEF Inv, TypeOK, pmm_page_share
  <1>3. u2[p] = 1 + Cardinality(sharers[p])
    BY <1>1, Zenon DEF Inv, ShareCountExact
  <1>4. u2'[p] = 1 + Cardinality(sharers'[p]) /\ ("SHARED" \in flags'[p] <=> sharers'[p] # {})
    BY <1>1, <1>2, <1>3, SMTT(30) DEF Inv, TypeOK
  <1>5. TypeOK'
    BY <1>1, SMTT(30) DEF Inv, TypeOK, Flags
  <1>6. Core'
    BY <1>1, <1>4, <1>5, OffTheList, ZenonT(30) DEF Inv, Core, TypeOK, RefcountExact
  <1>7. QED
    BY <1>1, <1>6, IdleJob, Zenon DEF Inv, Core

LEMMA UnshareInv == \A h \in Holders, p \in Pages : Inv /\ pmm_page_unshare(h, p) => Inv'
  <1> SUFFICES ASSUME NEW h \in Holders, NEW p \in Pages, Inv, pmm_page_unshare(h, p)
               PROVE  Inv'
    OBVIOUS
  <1>1. /\ job' = job /\ job.pc = "idle" /\ job \in Jobs /\ Core
        /\ UNCHANGED <<free_list, free_pages, next, refcount, holders>>
        /\ sharers' = [sharers EXCEPT ![p] = sharers[p] \ {h}]
    BY Zenon DEF pmm_page_unshare, Inv, Core, TypeOK
  <1>2. CASE ~is_page_shared(p)
    <2>1. sharers[p] = {} /\ UNCHANGED <<u2, flags>>
      BY <1>2, Zenon DEF pmm_page_unshare, Inv, ShareCountExact, PageStates
    <2>2. sharers' = sharers
      BY <1>1, <2>1, Zenon DEF Inv, TypeOK
    <2>3. QED
      BY <1>1, <2>1, <2>2, IdleJob, Zenon DEF Inv, TypeOK, ListLinked, FreeCountExact, RefcountExact, ShareCountExact,
             FreePagesClean, PageStates, Listed, is_page_free, is_page_reserved, is_page_shared

  <1>3. CASE is_page_shared(p)
    <2> DEFINE count == IF u2[p] > 0 THEN u2[p] - 1 ELSE u2[p]
    <2>1. /\ h \in sharers[p] /\ holders[p] # {}
          /\ u2' = [u2 EXCEPT ![p] = count]
          /\ flags' = [flags EXCEPT ![p] = IF count <= 1 THEN flags[p] \ {"SHARED"} ELSE flags[p]]
      BY <1>3, Zenon DEF pmm_page_unshare, Inv, PageStates
    <2>2. /\ IsFiniteSet(sharers[p]) /\ Cardinality(sharers[p]) \in Nat
          /\ Cardinality(sharers[p] \ {h}) = Cardinality(sharers[p]) - 1
          /\ Cardinality(sharers[p] \ {h}) \in Nat
      BY <2>1, FiniteCounts, FS_RemoveElement, ZenonT(30) DEF Inv, TypeOK
    <2>3. (Cardinality(sharers[p] \ {h}) = 0) <=> (sharers[p] \ {h} = {})
      BY <2>2, FS_RemoveElement, FS_EmptySet, Zenon
    <2>4. u2[p] = 1 + Cardinality(sharers[p]) /\ count = 1 + Cardinality(sharers[p] \ {h})
      BY <2>1, <2>2, SMTT(30) DEF Inv, ShareCountExact
    <2>5. TypeOK'
      BY <1>1, <2>1, <2>4, <2>2, SMTT(30) DEF Inv, TypeOK
    <2>6. u2'[p] = 1 + Cardinality(sharers'[p])
      BY <1>1, <2>1, <2>4, Zenon DEF Inv, TypeOK
    <2>7. "SHARED" \in flags'[p] <=> sharers'[p] # {}
      <3>1. count <= 1 <=> sharers[p] \ {h} = {}
        BY <2>2, <2>3, <2>4, SMTT(30)
      <3>2. QED
        BY <3>1, <1>1, <1>3, <2>1, Zenon DEF Inv, TypeOK, is_page_shared
    <2>8. Core'
      <3>1. ~is_page_free(p) /\ refcount'[p] = Cardinality(holders'[p])
        BY <1>1, <2>1, Zenon DEF Inv, RefcountExact
      <3>2. \A q \in Pages \ {p} : /\ u2'[q] = u2[q] /\ flags'[q] = flags[q]
                                   /\ refcount'[q] = refcount[q]
                                   /\ holders'[q] = holders[q] /\ sharers'[q] = sharers[q]
        BY <1>1, <2>1, Zenon DEF Inv, TypeOK
      <3>3. flags'[p] \cap {"FREE", "RESERVED"} = flags[p] \cap {"FREE", "RESERVED"}
        BY <2>1, Zenon DEF Inv, TypeOK
      <3>4. QED
        BY <1>1, <2>1, <2>5, <2>6, <2>7, <3>1, <3>2, <3>3, OffTheList, Zenon
    <2>9. QED
      BY <1>1, <2>8, IdleJob, Zenon DEF Inv, Core
  <1>4. QED
    BY <1>2, <1>3, Zenon

LEMMA CowInv == \A p \in Pages : Inv /\ (pmm_page_mark_cow(p) \/ pmm_page_clear_cow(p)) => Inv'
  <1> SUFFICES ASSUME NEW p \in Pages, Inv, pmm_page_mark_cow(p) \/ pmm_page_clear_cow(p)
               PROVE  Inv'
    BY Zenon
  <1>1. /\ job' = job /\ job.pc = "idle" /\ job \in Jobs /\ Core /\ holders[p] # {}
        /\ UNCHANGED <<free_list, free_pages, next, u2, refcount, holders, sharers>>
        /\ \/ flags' = [flags EXCEPT ![p] = flags[p] \cup {"COW"}]
           \/ flags' = [flags EXCEPT ![p] = flags[p] \ {"COW"}]
    BY Zenon DEF pmm_page_mark_cow, pmm_page_clear_cow, Inv, Core, TypeOK, ghost
  <1>2. TypeOK'
    BY <1>1, SMTT(30) DEF Inv, TypeOK, Flags
  <1>3. ~is_page_free(p) /\ refcount'[p] = Cardinality(holders'[p])
    BY <1>1, Zenon DEF Inv, RefcountExact
  <1>4. /\ \A q \in Pages \ {p} : flags'[q] = flags[q]
        /\ flags'[p] \cap {"FREE", "RESERVED"} = flags[p] \cap {"FREE", "RESERVED"}
        /\ "SHARED" \in flags'[p] <=> "SHARED" \in flags[p]
    BY <1>1, SMTT(30) DEF Inv, TypeOK
  <1>5. u2'[p] = 1 + Cardinality(sharers'[p]) /\ ("SHARED" \in flags'[p] <=> sharers'[p] # {})
    BY <1>1, <1>4, Zenon DEF Inv, ShareCountExact, is_page_shared
  <1>6. Core'
    BY <1>1, <1>2, <1>3, <1>4, <1>5, OffTheList, Zenon
  <1>7. QED
    BY <1>1, <1>6, IdleJob, Zenon DEF Inv, Core

-----------------------------------------------------------------------------
\* A step that only moves the scan on keeps everything but JobProgress.
LEMMA ScanCore ==
    ASSUME Core, UNCHANGED <<free_list, free_pages, page, ghost>>,
           job.pc # "init", job'.pc # "init", job' \in Jobs
    PROVE  Core'
  <1>1. UNCHANGED <<next, u2, flags, refcount, holders, sharers>>
    BY Zenon DEF page, ghost
  <1>2. Listed' = Listed
    BY <1>1, Zenon DEF Listed, is_page_free
  <1>3. QED
    BY <1>1, <1>2, Zenon DEF Core, TypeOK, ListLinked, FreeCountExact, RefcountExact, ShareCountExact,
           FreePagesClean, PageStates, is_page_free, is_page_reserved, is_page_shared


LEMMA AllocPagesInv ==
    \A h \in Holders, n \in 0 .. MaxCount : Inv /\ pmm_alloc_pages(h, n) => Inv'
  <1> SUFFICES ASSUME NEW h \in Holders, NEW n \in 0 .. MaxCount, Inv, pmm_alloc_pages(h, n)
               PROVE  Inv'
    BY Zenon
  <1>1. /\ job.pc = "idle" /\ Core /\ UNCHANGED <<free_list, free_pages, page, ghost>>
        /\ job' = [pc |-> "scan", i |-> 0, j |-> 0, n |-> n, h |-> h] /\ n > 1
    BY Zenon DEF pmm_alloc_pages, Inv, Core
  <1>2. job' \in Jobs
    <2>1. n \in 2 .. MaxCount
      BY <1>1, MaxCountAssumption, SMTT(30)
    <2>2. job' \in [pc : {"scan", "take"}, i : Nat, j : Nat, n : 2 .. MaxCount, h : Holders]
      BY <1>1, <2>1, Zenon
    <2>3. QED
      BY <2>2, Zenon DEF Jobs
  <1>3. JobProgress'
    BY <1>1, MaxCountAssumption, SMTT(30) DEF JobProgress
  <1>4. Core'
    BY <1>1, <1>2, ScanCore, Zenon
  <1>5. QED
    BY <1>3, <1>4, Zenon DEF Inv, Core

\* Probing one more page either extends the run, completes it, or shows that
\* no run can start at or before the page that is not free.
LEMMA ProbeInv == Inv /\ ProbePage => Inv'
  <1> SUFFICES ASSUME Inv, ProbePage PROVE Inv'
    OBVIOUS
  <1> DEFINE i == job.i
             j == job.j
             n == job.n
  <1>1. /\ job.pc = "scan" /\ Core /\ UNCHANGED <<free_list, free_pages, page, ghost>>
        /\ InRange(job) /\ job' = AfterProbe(job)
        /\ job \in [pc : {"scan", "take"}, i : Nat, j : Nat, n : 2 .. MaxCount, h : Holders]
        /\ flags' = flags
    BY SMTT(30) DEF ProbePage, Inv, Core, TypeOK, Jobs, Idle, page
  <1>2. /\ i \in Nat /\ j \in Nat /\ n \in Nat /\ n >= 2 /\ j < n
        /\ \A k \in i .. i + j - 1 : k \in Pages /\ is_page_free(k)
        /\ \A k \in 0 .. i - 1 : ~FreeRun(k, n)
        /\ i + n - 1 <= MaxPfn
    BY <1>1, MaxCountAssumption, SMTT(30) DEF Inv, JobProgress, InRange
  <1>3. \A k, m \in Int : FreeRun(k, m)' <=> FreeRun(k, m)
    BY <1>1, Zenon DEF FreeRun, is_page_free
  <1>4. CASE ~is_page_free(i + j)
    <2>1. job' = [job EXCEPT !.i = i + j + 1, !.j = 0]
      BY <1>1, <1>4, Zenon DEF AfterProbe
    <2>2. job' \in Jobs /\ job'.pc = "scan" /\ job'.i = i + j + 1 /\ job'.j = 0 /\ job'.n = n
      <3>1. job' = [pc |-> "scan", i |-> i + j + 1, j |-> 0, n |-> n, h |-> job.h]
        BY <1>1, <2>1, Zenon
      <3>2. QED
        BY <1>1, <1>2, <3>1, SMTT(30) DEF Jobs
    <2>3. ASSUME NEW k \in 0 .. i + j PROVE ~FreeRun(k, n)
      BY <1>2, <1>4, SMTT(30) DEF FreeRun
    <2>4. JobProgress'
      BY <2>2, <2>3, <1>2, <1>3, SMTT(30) DEF JobProgress
    <2>5. QED
      BY <1>1, <2>2, <2>4, ScanCore, Zenon DEF Inv, Core
  <1>5. CASE is_page_free(i + j) /\ j + 1 < n
    <2>1. job' = [job EXCEPT !.j = j + 1]
      BY <1>1, <1>5, Zenon DEF AfterProbe
    <2>2. job' \in Jobs /\ job'.pc = "scan" /\ job'.i = i /\ job'.j = j + 1 /\ job'.n = n
      BY <1>1, <1>2, <2>1, SMTT(30) DEF Jobs
    <2>3. ASSUME NEW k \in i .. i + j PROVE k \in Pages /\ is_page_free(k)'
      BY <1>1, <1>2, <1>5, MaxPfnAssumption, SMTT(30) DEF Pages, is_page_free
    <2>4. JobProgress'
      BY <1>5, <2>2, <2>3, <1>2, <1>3, SMTT(30) DEF JobProgress
    <2>5. QED
      BY <1>1, <2>2, <2>4, ScanCore, Zenon DEF Inv, Core
  <1>6. CASE is_page_free(i + j) /\ ~(j + 1 < n)
    <2>1. job' = [job EXCEPT !.pc = "take", !.j = 0]
      BY <1>1, <1>6, Zenon DEF AfterProbe
    <2>2. job' \in Jobs /\ job'.pc = "take" /\ job'.i = i /\ job'.j = 0 /\ job'.n = n
      <3>1. job' = [pc |-> "take", i |-> i, j |-> 0, n |-> n, h |-> job.h]
        BY <1>1, <2>1, Zenon
      <3>2. QED
        BY <1>1, <1>2, <3>1, SMTT(30) DEF Jobs
    <2>3. ASSUME NEW k \in i .. i + n - 1 PROVE is_page_free(k)'
      BY <1>1, <1>2, <1>6, SMTT(30) DEF is_page_free
    <2>4. JobProgress'
      BY <2>2, <2>3, <1>2, <1>3, SMTT(30) DEF JobProgress, InRange
    <2>5. QED
      BY <1>1, <2>2, <2>4, ScanCore, Zenon DEF Inv, Core
  <1>7. QED
    BY <1>4, <1>5, <1>6, Zenon

LEMMA NoRunInv == Inv /\ NoRunFound => Inv'
  <1> SUFFICES ASSUME Inv, NoRunFound PROVE Inv'
    OBVIOUS
  <1>1. job.pc = "scan" /\ job' = Idle /\ UNCHANGED <<free_list, free_pages, page, ghost>> /\ Core
    BY Zenon DEF NoRunFound, Inv, Core
  <1>2. job' \in Jobs /\ job'.pc = "idle"
    BY <1>1, Zenon DEF Jobs, Idle
  <1>3. QED
    BY <1>1, <1>2, ScanCore, IdleJob, Zenon DEF Inv, Core

LEMMA TakeRunInv == Inv /\ TakeRun => Inv'
  <1> SUFFICES ASSUME Inv, TakeRun PROVE Inv'
    OBVIOUS
  <1> DEFINE i == job.i
             j == job.j
             n == job.n
             p == i + j
  <1>1. /\ job.pc = "take" /\ Core /\ TakePage(p, job.h)
        /\ job' = IF j + 1 < n THEN [job EXCEPT !.j = j + 1] ELSE Idle
        /\ job \in [pc : {"scan", "take"}, i : Nat, j : Nat, n : 2 .. MaxCount, h : Holders]
    BY SMTT(30) DEF TakeRun, Inv, Core, TypeOK, Jobs, Idle
  <1>2. /\ i \in Nat /\ j \in Nat /\ n \in Nat /\ j < n /\ job.h \in Holders
        /\ i + n - 1 <= MaxPfn
        /\ \A k \in i + j .. i + n - 1 : is_page_free(k)
    BY <1>1, MaxCountAssumption, SMTT(30) DEF Inv, JobProgress, InRange
  <1>3. p \in Pages /\ is_page_free(p)
    BY <1>2, MaxPfnAssumption, SMTT(30) DEF Pages
  <1>4. /\ job' \in Jobs /\ job'.pc # "init"
        /\ job'.pc = "take" => /\ job'.i = i /\ job'.j = j + 1 /\ job'.n = n /\ j + 1 < n
        /\ job'.pc # "scan"
    BY <1>1, <1>2, SMTT(30) DEF Jobs, Idle
  <1>5. Core'
    BY <1>1, <1>2, <1>3, <1>4, TakePageCore, Zenon
  <1>6. JobProgress'
    <2>1. ASSUME NEW k \in p + 1 .. i + n - 1 PROVE is_page_free(k)'
      BY <1>1, <1>2, MaxPfnAssumption, SMTT(30) DEF TakePage, is_page_free, Core, TypeOK, Pages
    <2>2. QED
      BY <1>2, <1>4, <2>1, SMTT(30) DEF JobProgress, InRange
  <1>7. QED
    BY <1>5, <1>6, Zenon DEF Inv, Core

LEMMA NextInv == Inv /\ [Next]_vars => Inv'
  <1> SUFFICES ASSUME Inv, [Next]_vars PROVE Inv'
    BY Zenon
  <1>1. CASE Next
    BY <1>1, InitStepInv, ProbeInv, NoRunInv, TakeRunInv, AllocPageInv, ZenonT(30), AllocPagesInv,
       RetainInv, ReleaseInv, ShareInv, UnshareInv, CowInv DEF Next
  <1>2. CASE UNCHANGED vars
    BY <1>2, Zenon DEF vars, page, ghost, Inv, TypeOK, ListLinked, FreeCountExact, RefcountExact,
                ShareCountExact, FreePagesClean, PageStates, JobProgress, Listed, FreeRun,
                InRange, is_page_free, is_page_reserved, is_page_shared
  <1>3. QED
    BY <1>1, <1>2, Zenon

-----------------------------------------------------------------------------
\* Inv is an invariant of the allocator for every memory map.
THEOREM PmmInvariant == Spec => []Inv
  BY InitInv, NextInv, PTL DEF Spec

\* The descriptors keep their types and the free list stays doubly linked
\* under any interleaving of the pmm operations.
THEOREM FreeListStaysLinked == Spec => [](TypeOK /\ ListLinked)
  <1>1. Inv => TypeOK /\ ListLinked
    BY Zenon DEF Inv
  <1>2. QED
    BY <1>1, PmmInvariant, PTL

\* pmm_free_pages() always equals the number of pages on the free list.
THEOREM FreeCountIsExact == Spec => []FreeCountExact
  <1>1. Inv => FreeCountExact
    BY Zenon DEF Inv
  <1>2. QED
    BY <1>1, PmmInvariant, PTL

\* pmm_page_retain and pmm_page_release count owners exactly, so no page is
\* on the free list while somebody owns it.
THEOREM RefcountIsExact == Spec => []RefcountExact
  <1>1. Inv => RefcountExact
    BY Zenon DEF Inv
  <1>2. QED
    BY <1>1, PmmInvariant, PTL

\* pmm_page_share and pmm_page_unshare count the shares of a page in use
\* exactly, in the word the free list uses for its links.
THEOREM ShareCountIsExact == Spec => []ShareCountExact
  <1>1. Inv => ShareCountExact
    BY Zenon DEF Inv
  <1>2. QED
    BY <1>1, PmmInvariant, PTL

\* When all references are released every page pmm_init found is free again,
\* the last check of pmm_stress_test.
THEOREM NoPageIsLost == Spec => []NoPageLost
  <1>1. Inv => NoPageLost
    <2> SUFFICES ASSUME Inv, job.pc = "idle", \A p \in Pages : holders[p] = {}
                 PROVE  free_pages = Cardinality(Usable \ {0})
      BY Zenon DEF NoPageLost
    <2>1. Listed = Usable \ {0}
      <3>1. \A p \in Pages : is_page_free(p) <=> p \in Usable \ {0}
        BY Zenon DEF Inv, PageStates
      <3>2. Usable \ {0} \subseteq Pages
        BY MaxPfnAssumption, UsableAssumption DEF Pages
      <3>3. Listed = {p \in Pages : is_page_free(p)}
        BY Zenon DEF Listed
      <3>4. QED
        BY <3>1, <3>2, <3>3, Zenon
    <2>2. QED
      BY <2>1, Zenon DEF Inv, FreeCountExact
  <1>2. QED
    BY <1>1, PmmInvariant, PTL

\* The search of pmm_alloc_pages, which skips the start positions in front of
\* an occupied page, finds the first run and misses none.
THEOREM AllocPagesIsFirstFit == Spec => []FirstFit
  <1>1. Inv => FirstFit
    <2> SUFFICES ASSUME Inv PROVE FirstFit
      BY Zenon
    <2>1. ASSUME job.pc = "take", job.j = 0
          PROVE  FreeRun(job.i, job.n) /\ \A k \in 0 .. job.i - 1 : ~FreeRun(k, job.n)
      <3>1. job.i \in Nat /\ job.n \in Nat
        BY <2>1, MaxCountAssumption, SMTT(30) DEF Inv, TypeOK, Jobs, Idle
      <3>2. QED
        BY <3>1, <2>1, SMTT(30) DEF Inv, JobProgress, FreeRun, InRange
    <2>2. ASSUME job.pc = "scan", ~InRange(job), NEW k \in Pages
          PROVE  ~FreeRun(k, job.n)
      <3>1. job.i \in Nat /\ job.n \in Nat
        BY <2>2, MaxCountAssumption, SMTT(30) DEF Inv, TypeOK, Jobs, Idle
      <3>2. CASE k < job.i
        BY <3>1, <3>2, <2>2, SMTT(30) DEF Inv, JobProgress, Pages
      <3>3. CASE ~(k < job.i)
        BY <3>1, <3>3, <2>2, MaxPfnAssumption, SMTT(30) DEF FreeRun, InRange, Pages
      <3>4. QED
        BY <3>2, <3>3, Zenon
    <2>3. QED
      BY <2>1, <2>2, Zenon DEF FirstFit
  <1>2. QED
    BY <1>1, PmmInvariant, PTL
=============================================================================
