---------------------------- MODULE KheapProofs ----------------------------
(***************************************************************************)
(* Proofs about Kheap: what kfree does to the heap, that every operation   *)
(* keeps the invariant of KheapLemmas, and the properties that follow.     *)
(***************************************************************************)
EXTENDS KheapLemmas

-----------------------------------------------------------------------------
\* A list of two slabs counts two; a full free list has every object; a slab of
\* capacity one has one.
LEMMA CountsTwo ==
    ASSUME NEW ca, NEW S, ListIs(ca, S), NEW p \in S, NEW q \in S, p # q
    PROVE  ca.slab_count > 1
  <1>1. ca.slabs \in Seq(Pages) /\ ca.slab_count = Len(ca.slabs) /\ Range(ca.slabs) = S
    BY Zenon DEF ListIs
  <1>2. PICK i \in 1 .. Len(ca.slabs) : ca.slabs[i] = p
    BY <1>1, ListSet, Zenon
  <1>3. PICK j \in 1 .. Len(ca.slabs) : ca.slabs[j] = q
    BY <1>1, ListSet, ZenonT(30)
  <1>4. i # j /\ Len(ca.slabs) \in Nat
    BY <1>1, <1>2, <1>3, SMTT(30)
  <1>5. QED
    BY <1>1, <1>4, SMTT(30)

LEMMA AllFree ==
    ASSUME NEW p \in Pages, NEW c \in Caches, NEW s \in Seq(Objects),
           IsInjective(s), Range(s) \subseteq Slots(p, c), Len(s) = Capacity(c)
    PROVE  Slots(p, c) \ Range(s) = {}
  <1>1. IsFiniteSet(Slots(p, c)) /\ Cardinality(Slots(p, c)) = Capacity(c)
    <2>1. /\ FullList(p, c) \in Seq(Objects) /\ Len(FullList(p, c)) = Capacity(c)
          /\ IsInjective(FullList(p, c)) /\ Range(FullList(p, c)) = Slots(p, c)
      BY NewList, Zenon
    <2>2. /\ IsFiniteSet(Range(FullList(p, c)))
          /\ Cardinality(Range(FullList(p, c))) = Len(FullList(p, c))
      BY <2>1, CountList, Zenon
    <2>3. QED
      BY <2>1, <2>2, Zenon
  <1>2. Cardinality(Slots(p, c)) = Cardinality(Range(s))
    BY <1>1, CountList, Zenon
  <1>3. Slots(p, c) = Range(s)
    BY <1>1, <1>2, FS_Subset, Zenon
  <1>4. QED
    BY <1>3, Zenon

LEMMA OneSlot ==
    ASSUME NEW p, NEW c, Capacity(c) = 1, NEW o \in Slots(p, c)
    PROVE  Slots(p, c) = {o}
  <1>1. 0 .. Capacity(c) - 1 = {0}
    OBVIOUS
  <1>2. \A x : x \in Slots(p, c) <=> x = ObjAt(p, c, 0)
    BY <1>1, Zenon DEF Slots
  <1>3. o = ObjAt(p, c, 0)
    BY <1>2, Zenon
  <1>4. \A x : x \in Slots(p, c) <=> x \in {o}
    BY <1>2, <1>3, Zenon
  <1>5. QED
    BY <1>4, Zenon

-----------------------------------------------------------------------------
\* kfree of the only object of a slab: the slab is about to be released.
LEMMA ReleaseLast ==
    ASSUME HeapOk, NEW obj \in DOMAIN live, NEW p \in Pages, p = obj[1], NEW h, h = slab[p],
           h.cache = BIG \/ h.capacity = 1,
           UNCHANGED <<slab, caches, used>>, dying' = dying \cup {p},
           DOMAIN live' = DOMAIN live \ {obj}
    PROVE  HeapOk' /\ SameShape
  <1>1. obj \in In(p) /\ slab[p].magic /\ SlabOk(p, h, In(p)) /\ h \in Headers
    <2>1. obj \in In(p)
      BY Zenon DEF In
    <2>2. slab[p].magic /\ SlabOk(p, h, In(p))
      BY <2>1, Zenon DEF HeapOk, PageOk
    <2>3. QED
      BY <2>1, <2>2, SlabTypes, Zenon DEF HeapOk
  <1>2. In(p)' = In(p) \ {obj}
    <2>1. ASSUME NEW o PROVE o \in In(p)' <=> o \in In(p) /\ o # obj
      BY Zenon DEF In
    <2>2. QED
      BY <2>1, Zenon
  <1>3. PICK c : c = h.cache
    BY Zenon
  <1>4. c = BIG \/ c \in Caches
    BY <1>1, <1>3, HeaderTypes, Zenon
  <1>5. c # BIG => /\ h.capacity = Capacity(c) /\ Capacity(c) = 1 /\ h.free_list \in Seq(Objects)
                   /\ Range(h.free_list) \subseteq Slots(p, c)
                   /\ In(p) \subseteq Slots(p, c) \ Range(h.free_list)
    BY <1>1, <1>3, HeaderTypes, Zenon DEF SlabOk, SmallOk
  <1>6. In(p)' = {}
    <2>1. \E x : In(p) \subseteq {x}
      <3>1. CASE c = BIG
        BY <1>1, <1>3, <3>1, Zenon DEF SlabOk, BigOk
      <3>2. CASE c # BIG
        <4>1. obj \in Slots(p, c) /\ Capacity(c) = 1
          BY <1>1, <1>5, <3>2, Zenon
        <4>2. Slots(p, c) = {obj}
          BY <4>1, OneSlot, SMTT(30)
        <4>3. QED
          BY <1>5, <3>2, <4>2, Zenon
      <3>3. QED
        BY <3>1, <3>2, Zenon
    <2>2. QED
      BY <1>1, <1>2, <2>1, Zenon
  <1>7. HeapTypes'
    BY Zenon DEF HeapOk, HeapTypes
  <1>8. Touches(p, c)
    <2>1. \A o \in Objects : o[1] # p => (o \in DOMAIN live' <=> o \in DOMAIN live)
      BY Zenon
    <2>2. QED
      BY <1>3, <2>1, Zenon DEF Touches
  <1>9. PagesOk'
    <2>1. PagesOk /\ used' = used /\ slab' = slab
      BY Zenon DEF HeapOk
    <2>2. QED
      BY <2>1, KeepPages, Zenon
  <1>10. PageOk(p)'
    <2>1. SlabOk(p, h, In(p)')
      BY <1>1, <1>2, Zenon DEF SlabOk, BigOk, SmallOk
    <2>2. QED
      BY <1>1, <1>6, <2>1, Zenon DEF PageOk
  <1>11. ASSUME c \in Caches
         PROVE  CacheOk(c)'
    <2>1. h.free_list = << >>
      <3>1. obj \in Slots(p, c) /\ obj \notin Range(h.free_list) /\ Slots(p, c) = {obj}
        BY <1>1, <1>5, <1>11, NoBigCache, OneSlot, ZenonT(30)
      <3>2. Range(h.free_list) = {}
        BY <1>5, <1>11, <3>1, NoBigCache, Zenon
      <3>3. QED
        BY <1>5, <1>11, <3>2, NoBigCache, ListSet, ZenonT(30)
    <2>2. p \notin Cached(c)' /\ p \notin Listed(c)' /\ p \notin Listed(c)
      BY <2>1, Zenon DEF Cached, Listed
    <2>3. PICK S : S = Listed(c)
      BY Zenon
    <2>4. Relists(p, c, S)
      BY <2>2, <2>3, Zenon DEF Relists, Listed, Cached
    <2>5. ListIs(caches'[c], S)
      BY <1>11, <2>3, Zenon DEF HeapOk, CacheOk
    <2>6. QED
      BY <1>8, <1>11, <2>4, <2>5, OneCache, Zenon
  <1>12. HeapOk'
    BY <1>7, <1>8, <1>9, <1>10, <1>11, OnePage, Zenon
  <1>13. SameShape
    BY Zenon DEF SameShape
  <1>14. QED
    BY <1>12, <1>13, Zenon

\* kfree of an object of a slab with others: the slab has one more to give, and
\* is about to be released if it is empty and not the only one.
Returns(p, c, g, ca) ==
    /\ slab' = [slab EXCEPT ![p] = g]
    /\ \/ /\ ReturnsSlab(g, ca)
          /\ caches' = [caches EXCEPT ![c] = cache_remove_slab(ca, p)] /\ dying' = dying \cup {p}
       \/ /\ ~ReturnsSlab(g, ca)
          /\ caches' = [caches EXCEPT ![c] = ca] /\ dying' = dying

\* The header and the list that kfree makes of the header h of page p.
FreedHeader(h, obj) == With(h, Pushed(h.free_list, obj),
                            IF h.free_count < h.capacity THEN h.free_count + 1 ELSE h.free_count)
FreedCache(h, c, p) == IF h.free_count = 0 THEN cache_add_slab(caches[c], p) ELSE caches[c]
Frees(obj, p, h, c, g, ca) == g = FreedHeader(h, obj) /\ ca = FreedCache(h, c, p)

LEMMA ReturnObject ==
    ASSUME HeapOk, NEW obj \in DOMAIN live, NEW p \in Pages, p = obj[1], NEW h, h = slab[p],
           NEW c \in Caches, c = h.cache, NEW g, NEW ca, Frees(obj, p, h, c, g, ca),
           Returns(p, c, g, ca), used' = used, DOMAIN live' = DOMAIN live \ {obj}
    PROVE  HeapOk' /\ SameShape
  <1>1. obj \in In(p) /\ slab[p].magic /\ SmallOk(p, h, In(p)) /\ h \in Headers /\ p \notin dying
    <2>1. obj \in In(p)
      BY Zenon DEF In
    <2>2. slab[p].magic /\ SlabOk(p, h, In(p)) /\ p \notin dying
      BY <2>1, Zenon DEF HeapOk, PageOk
    <2>3. SmallOk(p, h, In(p))
      BY <2>2, NoBigCache, Zenon DEF SlabOk
    <2>4. QED
      BY <2>1, <2>2, <2>3, SlabTypes, Zenon DEF HeapOk
  <1>2. PICK s : s = h.free_list
    BY Zenon
  <1>3. /\ s \in Seq(Objects) /\ IsInjective(s) /\ h.free_count = Len(s)
        /\ Range(s) \subseteq Slots(p, c) /\ In(p) \subseteq Slots(p, c) \ Range(s)
        /\ h.capacity = Capacity(c) /\ h.npages = 1 /\ h.object_size = cache_sizes[c]
    BY <1>1, <1>2, HeaderTypes, Zenon DEF SmallOk
  <1>4. PICK t : t = Pushed(s, obj)
    BY Zenon
  <1>5. obj \in Objects /\ obj \in Slots(p, c) /\ obj \notin Range(s)
    BY <1>1, <1>3, Zenon DEF HeapOk, HeapTypes
  <1>6. /\ t \in Seq(Objects) /\ Len(t) = Len(s) + 1 /\ IsInjective(t)
        /\ \A o : o \in Range(t) <=> o \in Range(s) \/ o = obj
    <2>1. /\ Pushed(s, obj) \in Seq(Objects) /\ Len(Pushed(s, obj)) = Len(s) + 1
          /\ Range(Pushed(s, obj)) = Range(s) \cup {obj} /\ IsInjective(Pushed(s, obj))
      BY <1>3, <1>5, PushList, SMTT(30)
    <2>2. \A o : o \in Range(Pushed(s, obj)) <=> o \in Range(s) \/ o = obj
      BY <2>1, Zenon
    <2>3. QED
      BY <1>4, <2>1, <2>2, Zenon
  <1>7. Range(t) \subseteq Slots(p, c)
    BY <1>3, <1>5, <1>6, Zenon
  <1>8. Len(t) <= Capacity(c)
    BY <1>6, <1>7, FreeFits, Zenon
  <1>9. Len(s) \in Nat /\ Len(t) \in Nat /\ Capacity(c) \in Nat \ {0}
    BY <1>3, <1>6, SlotsFit, SMTT(30)
  <1>10. h.free_count < h.capacity
    BY <1>3, <1>6, <1>8, <1>9, SMTT(30)
  <1>11. g = With(h, t, Len(t))
    BY <1>2, <1>3, <1>4, <1>6, <1>10, Zenon DEF Frees, FreedHeader
  <1>12. /\ g \in Headers /\ g.magic /\ g.free_list = t /\ g.free_count = Len(t)
         /\ g.object_size = cache_sizes[c] /\ g.cache = c /\ g.npages = 1 /\ g.capacity = Capacity(c)
    <2>1. IsWith(g, h, t, Len(t))
      BY <1>1, <1>6, <1>9, <1>11, HeaderWith, Zenon
    <2>2. QED
      BY <1>3, <2>1, Zenon DEF IsWith
  <1>13. /\ slab' \in [Pages -> Headers \cup {NoSlab}] /\ slab'[p] = g
         /\ \A q \in Pages \ {p} : slab'[q] = slab[q]
    BY <1>12, Zenon DEF HeapOk, HeapTypes, Returns
  <1>14. PICK L : L = Listed(c) \cup {p}
    BY Zenon
  <1>15. ListIs(ca, L)
    <2>1. ListIs(caches[c], Listed(c))
      BY Zenon DEF HeapOk, CacheOk
    <2>2. p \in Cached(c)
      BY <1>1, Zenon DEF Cached
    <2>3. p \in Listed(c) <=> Len(s) # 0
      <3>1. s = << >> <=> Len(s) = 0
        BY <1>3, SMTT(30)
      <3>2. QED
        BY <1>2, <2>2, <3>1, Zenon DEF Listed
    <2>4. CASE h.free_count = 0
      <3>1. ca = cache_add_slab(caches[c], p)
        BY <2>4, Zenon DEF Frees, FreedCache
      <3>2. QED
        BY <1>3, <1>14, <2>1, <2>3, <2>4, <3>1, AddToList, Zenon
    <2>5. CASE h.free_count # 0
      <3>1. L = Listed(c)
        BY <1>3, <1>14, <2>3, <2>5, Zenon
      <3>2. ca = caches[c]
        BY <2>5, Zenon DEF Frees, FreedCache
      <3>3. QED
        BY <2>1, <3>1, <3>2, Zenon
    <2>6. QED
      BY <2>4, <2>5, Zenon
  <1>16. PICK S : S = IF ReturnsSlab(g, ca) THEN L \ {p} ELSE L
    BY Zenon
  <1>17. PICK new : new = IF ReturnsSlab(g, ca) THEN cache_remove_slab(ca, p) ELSE ca
    BY Zenon
  <1>18. ListIs(new, S)
    <2>1. CASE ReturnsSlab(g, ca)
      <3>1. p \in L
        BY <1>14, Zenon
      <3>2. ListIs(cache_remove_slab(ca, p), L \ {p})
        BY <1>15, <3>1, RemoveFromList, ZenonT(30)
      <3>3. QED
        BY <1>16, <1>17, <2>1, <3>2, Zenon
    <2>2. CASE ~ReturnsSlab(g, ca)
      BY <1>15, <1>16, <1>17, <2>2, Zenon
    <2>3. QED
      BY <2>1, <2>2, Zenon
  <1>19. /\ caches' \in [Caches -> [slabs : Seq(Pages), slab_count : Nat]] /\ caches'[c] = new
         /\ \A d \in Caches \ {c} : caches'[d] = caches[d]
    <2>1. new \in [slabs : Seq(Pages), slab_count : Nat]
      BY <1>18, Zenon DEF ListIs
    <2>2. caches \in [Caches -> [slabs : Seq(Pages), slab_count : Nat]] /\ caches' = [caches EXCEPT ![c] = new]
      BY <1>17, Zenon DEF HeapOk, HeapTypes, Returns
    <2>3. QED
      BY <2>1, <2>2, Zenon
  <1>20. /\ p \in dying' <=> ReturnsSlab(g, ca)
         /\ dying' \subseteq Pages /\ \A q \in Pages \ {p} : q \in dying' <=> q \in dying
    BY <1>1, Zenon DEF Returns, HeapOk, HeapTypes
  <1>21. HeapTypes'
    BY <1>13, <1>19, <1>20, Zenon DEF HeapOk, HeapTypes
  <1>22. Touches(p, c)
    <2>1. \A o \in Objects : o[1] # p => (o \in DOMAIN live' <=> o \in DOMAIN live)
      BY Zenon
    <2>2. QED
      BY <1>12, <1>13, <1>19, <1>20, <2>1, Zenon DEF Touches
  <1>23. PagesOk'
    <2>1. PagesOk
      BY Zenon DEF HeapOk
    <2>2. ASSUME NEW q \in Pages
          PROVE  /\ slab'[q].magic <=> slab[q].magic
                 /\ slab[q].magic => slab'[q].npages = slab[q].npages
      BY <1>1, <1>3, <1>12, <1>13, Zenon
    <2>3. QED
      BY <2>1, <2>2, KeepPages, Zenon
  <1>24. PageOk(p)'
    <2>1. In(p)' \subseteq Slots(p, c) \ Range(t)
      <3>1. ASSUME NEW o \in In(p)' PROVE o \in In(p) /\ o # obj
        BY Zenon DEF In
      <3>2. QED
        BY <1>3, <1>6, <3>1, Zenon
    <2>2. SmallOk(p, g, In(p)')
      BY <1>6, <1>7, <1>12, <2>1, Zenon DEF SmallOk
    <2>3. SlabOk(p, slab'[p], In(p)') /\ slab'[p].magic
      <3>1. SlabOk(p, g, In(p)')
        BY <1>12, <2>2, NoBigCache, Zenon DEF SlabOk
      <3>2. QED
        BY <1>12, <1>13, <3>1, Zenon
    <2>4. ASSUME p \in dying'
          PROVE  In(p)' = {}
      <3>1. ReturnsSlab(g, ca)
        BY <1>20, <2>4, Zenon
      <3>2. Len(t) = Capacity(c)
        BY <1>12, <3>1, ZenonT(30) DEF ReturnsSlab
      <3>3. Slots(p, c) \ Range(t) = {}
        BY <1>6, <1>7, <3>2, AllFree, ZenonT(30)
      <3>4. QED
        BY <2>1, <3>3, Zenon
    <2>5. QED
      BY <2>3, <2>4, Zenon DEF PageOk
  <1>25. Relists(p, c, S)
    <2>1. S \subseteq Pages /\ \A q \in Pages \ {p} : q \in S <=> q \in Listed(c)
      BY <1>14, <1>16, Zenon DEF Listed, Cached
    <2>2. p \in Cached(c)' <=> ~ReturnsSlab(g, ca)
      BY <1>12, <1>13, <1>20, Zenon DEF Cached
    <2>3. t # << >>
      BY <1>6, <1>9, SMTT(30)
    <2>4. p \in S <=> p \in Listed(c)'
      BY <1>12, <1>13, <1>14, <1>16, <2>2, <2>3, Zenon DEF Listed
    <2>5. ASSUME p \in Cached(c)', Empty(p)', NEW q \in Cached(c) \ {p}, Empty(q)
          PROVE  FALSE
      <3>1. ~(ca.slab_count > 1)
        BY <1>12, <1>13, <2>2, <2>5, Zenon DEF Empty, ReturnsSlab
      <3>2. slab[q] \in Headers /\ SmallOk(q, slab[q], In(q))
        BY ListedSlab, Zenon
      <3>3. slab[q].free_count # 0 /\ slab[q].free_count = Len(slab[q].free_list)
        BY <1>9, <2>5, <3>2, HeaderTypes, Zenon DEF Empty, SmallOk
      <3>4. slab[q].free_list # << >>
        BY <3>3, Zenon
      <3>5. q \in L /\ p \in L /\ q # p
        BY <1>14, <2>5, <3>4, Zenon DEF Listed
      <3>6. ca.slab_count > 1
        BY <1>15, <3>5, CountsTwo, SMTT(30)
      <3>7. QED
        BY <3>1, <3>6, Zenon
    <2>6. QED
      BY <2>1, <2>4, <2>5, Zenon DEF Relists
  <1>26. CacheOk(c)'
    <2>1. ListIs(caches'[c], S)
      BY <1>18, <1>19, Zenon
    <2>2. QED
      BY <1>22, <1>25, <2>1, OneCache, Zenon
  <1>27. HeapOk'
    BY <1>21, <1>22, <1>23, <1>24, <1>26, OnePage, Zenon
  <1>28. SameShape
    <2>1. ASSUME NEW o \in DOMAIN live
          PROVE  o[1] \in Pages
      BY Zenon DEF HeapOk, HeapTypes, Objects
    <2>2. /\ g.cache = h.cache /\ g.object_size = h.object_size /\ g.npages = h.npages
      BY <1>3, <1>12, Zenon
    <2>3. QED
      BY <1>13, <2>1, <2>2, Zenon DEF SameShape
  <1>29. QED
    BY <1>27, <1>28, Zenon

LEMMA ReleaseStep ==
    ASSUME HeapOk, NEW obj \in DOMAIN live, Release(obj), used' = used,
           DOMAIN live' = DOMAIN live \ {obj}
    PROVE  HeapOk' /\ SameShape
  <1>1. PICK p : p = obj[1]
    BY Zenon
  <1>2. PICK h : h = slab[p]
    BY Zenon
  <1>3. p \in Pages /\ h \in Headers
    <2>1. p \in Pages
      BY <1>1, Zenon DEF HeapOk, HeapTypes, Objects
    <2>2. slab[p].magic
      <3>1. obj \in In(p)
        BY <1>1, Zenon DEF In
      <3>2. QED
        BY <2>1, <3>1, Zenon DEF HeapOk, PageOk
    <2>3. QED
      BY <1>2, <2>1, <2>2, SlabTypes, Zenon DEF HeapOk
  <1>4. PICK c : c = h.cache
    BY Zenon
  <1>5. PICK g : g = FreedHeader(h, obj)
    BY Zenon
  <1>6. PICK ca : ca = FreedCache(h, c, p)
    BY Zenon
  <1>7. IF c = BIG \/ h.capacity = 1
        THEN dying' = dying \cup {p} /\ UNCHANGED <<slab, caches>>
        ELSE Returns(p, c, g, ca)
    BY <1>1, <1>2, <1>4, <1>5, <1>6, Zenon DEF Release, With, Returns, FreedHeader, FreedCache
  <1>8. CASE c = BIG \/ h.capacity = 1
    <2>1. (h.cache = BIG \/ h.capacity = 1) /\ dying' = dying \cup {p} /\ UNCHANGED <<slab, caches, used>>
      BY <1>4, <1>7, <1>8, Zenon
    <2>2. QED
      BY <1>1, <1>2, <1>3, <2>1, ReleaseLast, Zenon
  <1>9. CASE ~(c = BIG \/ h.capacity = 1)
    <2>1. c \in Caches
      BY <1>3, <1>4, <1>9, HeaderTypes, Zenon
    <2>2. Returns(p, c, g, ca)
      BY <1>7, <1>9, Zenon
    <2>3. Frees(obj, p, h, c, g, ca)
      BY <1>5, <1>6, Zenon DEF Frees
    <2>4. QED
      BY <1>1, <1>2, <1>3, <1>4, <2>1, <2>2, <2>3, ReturnObject, Zenon
  <1>10. QED
    BY <1>8, <1>9, Zenon

-----------------------------------------------------------------------------
LEMMA KeepObject ==
    ASSUME NEW o \in DOMAIN live, ObjectOk(o), live'[o] = live[o], SameShape,
           Copying(o) => Copying(o)'
    PROVE  ObjectOk(o)'
  <1>1. Fits(live[o].size, slab'[o[1]])
    BY Zenon DEF ObjectOk, Fits, SameShape
  <1>2. KeptOk(o)'
    BY Zenon DEF ObjectOk, KeptOk
  <1>3. QED
    BY <1>1, <1>2, Zenon DEF ObjectOk

\* kmalloc, and the part of krealloc that is one.
Grown(obj, size, kept) ==
    /\ HeapOk' /\ obj \notin DOMAIN live /\ DOMAIN live' = DOMAIN live \cup {obj} /\ SameShape
    /\ live'[obj] = [size |-> size, kept |-> kept] /\ \A o \in DOMAIN live : live'[o] = live[o]
    /\ Fits(size, slab'[obj[1]])
LEMMA ApplyStep ==
    ASSUME HeapOk, NEW size \in Sizes, NEW kept, NEW r \in Outcomes(size),
           Apply(r, kept, size), dying' = dying
    PROVE  Grown(r.obj, size, kept)
  <1>1. PICK obj : obj = r.obj
    BY Zenon
  <1>2. live' = [o \in DOMAIN live \cup {obj} |->
                    IF o = obj THEN [size |-> size, kept |-> kept] ELSE live[o]]
    BY <1>1, Zenon DEF Apply
  <1>3. DOMAIN live' = DOMAIN live \cup {obj}
    BY <1>2, Zenon
  <1>4. Applies(r)
    BY <1>1, <1>3, Zenon DEF Apply, Applies
  <1>5. Allocated(obj, size)
    BY <1>1, <1>4, AllocStep, Zenon
  <1>6. /\ HeapOk' /\ obj \notin DOMAIN live /\ SameShape /\ Fits(size, slab'[obj[1]])
    BY <1>5, Zenon DEF Allocated
  <1>7. live'[obj] = [size |-> size, kept |-> kept] /\ \A o \in DOMAIN live : live'[o] = live[o]
    BY <1>2, <1>6, Zenon
  <1>8. QED
    BY <1>1, <1>3, <1>6, <1>7, Zenon DEF Grown

LEMMA GrownTypes ==
    ASSUME NEW obj, NEW size \in Sizes, NEW kept \in Nat, Grown(obj, size, kept)
    PROVE  /\ live'[obj] \in [size : Sizes, kept : Nat]
           /\ live'[obj].size = size /\ live'[obj].kept = kept
  <1>1. live'[obj] = [size |-> size, kept |-> kept]
    BY Zenon DEF Grown
  <1>2. QED
    BY <1>1

LEMMA KmallocStep == \A size \in Sizes : Inv /\ kmalloc(size) => Inv'
  <1>1. SUFFICES ASSUME NEW size \in Sizes, Inv, kmalloc(size)
                 PROVE  Inv'
    BY Zenon
  <1>2. PICK r \in Outcomes(size) : Apply(r, size, size)
    BY <1>1, Zenon DEF kmalloc
  <1>3. HeapOk /\ dying' = dying /\ moving' = moving
    BY <1>1, Zenon DEF kmalloc, Inv
  <1>4. PICK obj : obj = r.obj
    BY Zenon
  <1>5. Grown(obj, size, size)
    BY <1>2, <1>3, <1>4, ApplyStep, Zenon
  <1>6. size \in Nat
    BY LayoutAssumption, ZenonT(30)
  <1>7. /\ live'[obj] \in [size : Sizes, kept : Nat] /\ live'[obj].size = size /\ live'[obj].kept = size
    BY <1>5, <1>6, GrownTypes, Zenon
  <1>8. ObjectOk(obj)'
    <2>1. size >= MinOf(size, SIZE_CAP)
      BY <1>6, LayoutAssumption DEF MinOf
    <2>2. QED
      BY <1>5, <1>7, <2>1, Zenon DEF ObjectOk, KeptOk, Grown
  <1>9. ASSUME NEW o \in DOMAIN live
        PROVE  ObjectOk(o)'
    <2>1. ObjectOk(o) /\ live'[o] = live[o] /\ SameShape /\ (Copying(o) => Copying(o)')
      BY <1>1, <1>3, <1>5, Zenon DEF Inv, Grown, Copying
    <2>2. QED
      BY <2>1, KeepObject, Zenon
  <1>10. MovesOk'
    <2>1. moving \subseteq [old : DOMAIN live', new : DOMAIN live']
      BY <1>1, <1>5, ZenonT(30) DEF Inv, MovesOk, Grown
    <2>2. QED
      BY <1>1, <1>3, <2>1, Zenon DEF Inv, MovesOk
  <1>11. QED
    BY <1>5, <1>8, <1>9, <1>10, Zenon DEF Inv, Grown

\* No krealloc works on an object in use.
LEMMA InUseIs == \A o \in InUse : o \in DOMAIN live /\ \A m \in moving : m.old # o /\ m.new # o
  <1>1. SUFFICES ASSUME NEW o \in InUse, NEW m \in moving
                 PROVE  o \in DOMAIN live /\ m.old # o /\ m.new # o
    BY Zenon DEF InUse
  <1>2. o \in DOMAIN live /\ o \notin UNION {{x.old, x.new} : x \in moving}
    BY Zenon DEF InUse
  <1>3. o \notin {m.old, m.new}
    BY <1>2, Zenon
  <1>4. QED
    BY <1>2, <1>3, Zenon

\* krealloc into a new object, which it has not filled yet.
LEMMA KreallocStep == \A obj \in InUse, size \in Sizes : Inv /\ krealloc(obj, size) => Inv'
  <1>1. SUFFICES ASSUME NEW old \in InUse, NEW size \in Sizes, Inv, krealloc(old, size)
                 PROVE  Inv'
    BY Zenon
  <1>2. PICK r \in Outcomes(size) : /\ Apply(r, 0, size)
                                    /\ moving' = moving \cup {[old |-> old, new |-> r.obj]}
    BY <1>1, Zenon DEF krealloc
  <1>3. HeapOk /\ dying' = dying /\ MovesOk
    BY <1>1, Zenon DEF krealloc, Inv
  <1>4. PICK obj : obj = r.obj
    BY Zenon
  <1>5. Grown(obj, size, 0)
    BY <1>2, <1>3, <1>4, ApplyStep, Zenon
  <1>6. PICK k : k = [old |-> old, new |-> obj]
    BY Zenon
  <1>7. k.old = old /\ k.new = obj
    BY <1>6, ZenonT(30)
  <1>8. moving' = moving \cup {k}
    BY <1>2, <1>4, <1>6, Zenon
  <1>9. live'[obj] \in [size : Sizes, kept : Nat] /\ live'[obj].size = size
    <2>1. 0 \in Nat
      BY Zenon
    <2>2. QED
      BY <1>5, <2>1, GrownTypes, Zenon
  <1>10. \A o : Copying(o)' <=> Copying(o) \/ o = obj
    BY <1>7, <1>8, Zenon DEF Copying
  <1>11. ObjectOk(obj)'
    BY <1>5, <1>9, <1>10, Zenon DEF ObjectOk, KeptOk, Grown
  <1>12. ASSUME NEW o \in DOMAIN live
         PROVE  ObjectOk(o)'
    <2>1. ObjectOk(o) /\ live'[o] = live[o] /\ SameShape /\ (Copying(o) => Copying(o)')
      BY <1>1, <1>5, <1>10, Zenon DEF Inv, Grown
    <2>2. QED
      BY <2>1, KeepObject, Zenon
  <1>13. old \in DOMAIN live /\ \A m \in moving : m.old # old /\ m.new # old
    BY InUseIs, Zenon
  <1>14. obj \notin DOMAIN live /\ DOMAIN live' = DOMAIN live \cup {obj}
    BY <1>5, Zenon DEF Grown
  <1>15. \A m \in moving : m.old \in DOMAIN live /\ m.new \in DOMAIN live
    BY <1>3, ZenonT(30) DEF MovesOk
  <1>16. MovesOk'
    <2>1. moving' \subseteq [old : DOMAIN live', new : DOMAIN live']
      <3>1. moving \subseteq [old : DOMAIN live', new : DOMAIN live']
        BY <1>3, <1>14, Zenon DEF MovesOk
      <3>2. k \in [old : DOMAIN live', new : DOMAIN live']
        BY <1>6, <1>13, <1>14, ZenonT(30)
      <3>3. QED
        BY <1>8, <3>1, <3>2, Zenon
    <2>2. \A m \in moving' : m.old # m.new
      BY <1>3, <1>7, <1>8, <1>13, <1>14, Zenon DEF MovesOk
    <2>3. \A m \in moving : {m.old, m.new} \cap {k.old, k.new} = {}
      BY <1>7, <1>13, <1>14, <1>15, Zenon
    <2>4. \A m, n \in moving' : {m.old, m.new} \cap {n.old, n.new} # {} => m = n
      <3>1. SUFFICES ASSUME NEW m \in moving', NEW n \in moving', {m.old, m.new} \cap {n.old, n.new} # {}
                     PROVE  m = n
        BY Zenon
      <3>2. CASE m = k
        <4>1. n \in moving => {n.old, n.new} \cap {m.old, m.new} = {}
          BY <2>3, <3>2, Zenon
        <4>2. QED
          BY <1>8, <3>1, <3>2, <4>1, Zenon
      <3>3. CASE n = k
        BY <1>8, <2>3, <3>1, <3>3, Zenon
      <3>4. CASE m # k /\ n # k
        BY <1>3, <1>8, <3>1, <3>4, Zenon DEF MovesOk
      <3>5. QED
        BY <3>2, <3>3, <3>4, Zenon
    <2>5. QED
      BY <2>1, <2>2, <2>4, Zenon DEF MovesOk
  <1>17. QED
    BY <1>5, <1>11, <1>12, <1>14, <1>16, Zenon DEF Inv, Grown

\* kfree of an object that no krealloc works on.
LEMMA KfreeStep == \A obj \in InUse : Inv /\ kfree(obj) => Inv'
  <1>1. SUFFICES ASSUME NEW obj \in InUse, Inv, kfree(obj)
                 PROVE  Inv'
    BY Zenon
  <1>2. /\ Release(obj) /\ used' = used /\ moving' = moving
        /\ live' = [o \in DOMAIN live \ {obj} |-> live[o]]
    BY <1>1, Zenon DEF kfree
  <1>3. /\ obj \in DOMAIN live /\ \A m \in moving : m.old # obj /\ m.new # obj
    BY InUseIs, Zenon
  <1>4. DOMAIN live' = DOMAIN live \ {obj} /\ \A o \in DOMAIN live \ {obj} : live'[o] = live[o]
    BY <1>2, Zenon
  <1>5. HeapOk' /\ SameShape
    <2>1. HeapOk
      BY <1>1, Zenon DEF Inv
    <2>2. QED
      BY <1>2, <1>3, <1>4, <2>1, ReleaseStep, Zenon
  <1>6. ASSUME NEW o \in DOMAIN live \ {obj}
        PROVE  ObjectOk(o)'
    <2>1. o \in DOMAIN live /\ ObjectOk(o) /\ live'[o] = live[o] /\ (Copying(o) => Copying(o)')
      BY <1>1, <1>2, <1>4, Zenon DEF Inv, Copying
    <2>2. QED
      BY <1>5, <2>1, KeepObject, Zenon
  <1>7. MovesOk'
    <2>1. MovesOk
      BY <1>1, Zenon DEF Inv
    <2>2. moving \subseteq [old : DOMAIN live', new : DOMAIN live']
      BY <1>3, <1>4, <2>1, ZenonT(30) DEF MovesOk
    <2>3. QED
      BY <1>2, <2>1, <2>2, Zenon DEF MovesOk
  <1>8. QED
    BY <1>4, <1>5, <1>6, <1>7, Zenon DEF Inv

\* The contents that survive when an object is resized: the user writes the
\* bytes that are new.
LEMMA ResizedKeeps ==
    ASSUME NEW a \in Nat, NEW z \in Nat, NEW size \in Nat, a >= MinOf(z, SIZE_CAP)
    PROVE  (IF a >= MinOf(z, size) THEN size ELSE a) >= MinOf(size, SIZE_CAP)
  <1>1. SIZE_CAP \in Nat
    BY LayoutAssumption, ZenonT(30)
  <1>2. QED
    BY <1>1 DEF MinOf

LEMMA InPlaceStep == \A obj \in InUse, size \in Sizes : Inv /\ ReallocInPlace(obj, size) => Inv'
  <1>1. SUFFICES ASSUME NEW obj \in InUse, NEW size \in Sizes, Inv, ReallocInPlace(obj, size)
                 PROVE  Inv'
    BY Zenon
  <1>2. /\ size <= slab[obj[1]].object_size /\ UNCHANGED <<slab, caches, used, dying, moving>>
        /\ live' = [live EXCEPT ![obj] = Resized(obj, live[obj].kept, size)]
    BY <1>1, Zenon DEF ReallocInPlace
  <1>3. obj \in DOMAIN live /\ ~Copying(obj)
    BY InUseIs, Zenon DEF Copying
  <1>4. PICK a : a = live[obj].kept
    BY Zenon
  <1>5. PICK z : z = live[obj].size
    BY Zenon
  <1>6. PICK b : b = IF a >= MinOf(z, size) THEN size ELSE a
    BY Zenon
  <1>7. a \in Nat /\ z \in Nat /\ size \in Nat /\ a >= MinOf(z, SIZE_CAP)
    <2>1. ObjectOk(obj)
      BY <1>1, <1>3, Zenon DEF Inv
    <2>2. live[obj] \in [size : Sizes, kept : Nat] /\ a >= MinOf(z, SIZE_CAP)
      BY <1>3, <1>4, <1>5, <2>1, Zenon DEF ObjectOk, KeptOk
    <2>3. QED
      BY <1>4, <1>5, <2>2, LayoutAssumption, Zenon
  <1>8. b \in Nat /\ b >= MinOf(size, SIZE_CAP)
    BY <1>6, <1>7, ResizedKeeps, Zenon
  <1>9. Resized(obj, live[obj].kept, size) = [size |-> size, kept |-> b]
    BY <1>4, <1>5, <1>6, Zenon DEF Resized
  <1>10. /\ DOMAIN live' = DOMAIN live /\ live'[obj] = [size |-> size, kept |-> b]
         /\ \A o \in DOMAIN live \ {obj} : live'[o] = live[o]
    BY <1>2, <1>3, <1>9, Zenon
  <1>11. ObjectOk(obj)'
    <2>1. live'[obj] \in [size : Sizes, kept : Nat] /\ live'[obj].size = size /\ live'[obj].kept = b
      BY <1>8, <1>10
    <2>2. Fits(size, slab'[obj[1]])
      BY <1>2, Zenon DEF Fits
    <2>3. QED
      BY <1>8, <2>1, <2>2, Zenon DEF ObjectOk, KeptOk
  <1>12. ASSUME NEW o \in DOMAIN live \ {obj}
         PROVE  ObjectOk(o)'
    <2>1. /\ o \in DOMAIN live /\ ObjectOk(o) /\ live'[o] = live[o] /\ SameShape
          /\ Copying(o) => Copying(o)'
      BY <1>1, <1>2, <1>10, Zenon DEF Inv, Copying, SameShape
    <2>2. QED
      BY <2>1, KeepObject, Zenon
  <1>13. HeapOk'
    <2>1. HeapOk
      BY <1>1, Zenon DEF Inv
    <2>2. \A p \in Pages : In(p)' = In(p)
      BY <1>10, Zenon DEF In
    <2>3. PagesOk'
      BY <1>2, <2>1, KeepPages, Zenon DEF HeapOk
    <2>4. \A p \in Pages : PageOk(p)'
      BY <1>2, <2>1, <2>2, Zenon DEF HeapOk, PageOk
    <2>5. \A c \in Caches : CacheOk(c)'
      BY <1>2, <2>1, Zenon DEF HeapOk, CacheOk, Listed, Cached, Empty
    <2>6. HeapTypes'
      BY <1>2, <1>10, <2>1, Zenon DEF HeapOk, HeapTypes
    <2>7. QED
      BY <2>3, <2>4, <2>5, <2>6, Zenon DEF HeapOk
  <1>14. MovesOk'
    BY <1>1, <1>2, <1>10, Zenon DEF Inv, MovesOk
  <1>15. QED
    BY <1>10, <1>11, <1>12, <1>13, <1>14, Zenon DEF Inv

\* slab_destroy gives the pages of a slab back that nothing is in use in.
LEMMA DestroyStep == \A p \in dying : Inv /\ slab_destroy(p) => Inv'
  <1>1. SUFFICES ASSUME NEW p \in dying, Inv, slab_destroy(p)
                 PROVE  Inv'
    BY Zenon
  <1>2. /\ used' = used \ Extent(p) /\ slab' = [slab EXCEPT ![p] = NoSlab]
        /\ dying' = dying \ {p} /\ UNCHANGED <<caches, live, moving>>
    BY <1>1, Zenon DEF slab_destroy
  <1>3. HeapOk /\ p \in Pages /\ slab[p].magic /\ In(p) = {}
    BY <1>1, Zenon DEF Inv, HeapOk, HeapTypes, PageOk
  <1>4. /\ slab' \in [Pages -> Headers \cup {NoSlab}] /\ slab'[p] = NoSlab
        /\ \A q \in Pages \ {p} : slab'[q] = slab[q]
    BY <1>2, <1>3, Zenon DEF HeapOk, HeapTypes
  <1>5. ~slab'[p].magic
    BY <1>4 DEF NoSlab
  <1>6. PICK c : c = slab[p].cache
    BY Zenon
  <1>7. Touches(p, c)
    BY <1>2, <1>4, <1>5, <1>6, Zenon DEF Touches
  <1>8. HeapTypes'
    BY <1>2, <1>3, <1>4, Zenon DEF HeapOk, HeapTypes
  <1>9. PagesOk'
    <2>1. p \in Slabs /\ PagesOk
      BY <1>3, Zenon DEF Slabs, HeapOk
    <2>2. QED
      BY <1>2, <1>4, <1>5, <2>1, FreePages, Zenon
  <1>10. PageOk(p)'
    <2>1. In(p)' = {}
      BY <1>2, <1>3, Zenon DEF In
    <2>2. QED
      BY <1>2, <1>5, <2>1, Zenon DEF PageOk
  <1>11. ASSUME c \in Caches
         PROVE  CacheOk(c)'
    <2>1. p \notin Cached(c)' /\ p \notin Listed(c)' /\ p \notin Listed(c)
      BY <1>5, Zenon DEF Cached, Listed
    <2>2. PICK S : S = Listed(c)
      BY Zenon
    <2>3. Relists(p, c, S)
      BY <2>1, <2>2, Zenon DEF Relists, Listed, Cached
    <2>4. ListIs(caches'[c], S)
      BY <1>2, <1>3, <1>11, <2>2, Zenon DEF HeapOk, CacheOk
    <2>5. QED
      BY <1>3, <1>7, <1>11, <2>3, <2>4, OneCache, Zenon
  <1>12. HeapOk'
    BY <1>3, <1>7, <1>8, <1>9, <1>10, <1>11, OnePage, ZenonT(30)
  <1>13. SameShape
    <2>1. ASSUME NEW o \in DOMAIN live
          PROVE  o[1] \in Pages \ {p}
      <3>1. o[1] \in Pages
        BY <1>3, ZenonT(30) DEF HeapOk, HeapTypes, Objects
      <3>2. QED
        BY <1>3, <3>1, Zenon DEF In
    <2>2. QED
      BY <1>4, <2>1, Zenon DEF SameShape
  <1>14. ASSUME NEW o \in DOMAIN live
         PROVE  ObjectOk(o)'
    <2>1. ObjectOk(o) /\ live'[o] = live[o] /\ (Copying(o) => Copying(o)')
      BY <1>1, <1>2, Zenon DEF Inv, Copying
    <2>2. QED
      BY <1>13, <2>1, KeepObject, Zenon
  <1>15. MovesOk'
    BY <1>1, <1>2, Zenon DEF Inv, MovesOk
  <1>16. QED
    BY <1>2, <1>12, <1>14, <1>15, Zenon DEF Inv

\* krealloc has copied what the old slab says and frees the old object.
LEMMA CopiedKeeps ==
    ASSUME NEW a \in Nat, NEW z \in Nat, NEW n \in Nat, a >= MinOf(z, SIZE_CAP),
           z <= n \/ n = SIZE_CAP
    PROVE  MinOf(n, a) \in Nat /\ MinOf(n, a) >= MinOf(z, SIZE_CAP)
  <1>1. SIZE_CAP \in Nat
    BY LayoutAssumption, ZenonT(30)
  <1>2. QED
    BY <1>1 DEF MinOf

LEMMA InHeader ==
    ASSUME HeapOk, NEW o \in DOMAIN live
    PROVE  /\ o[1] \in Pages \ dying /\ slab[o[1]].magic /\ slab[o[1]] \in Headers
           /\ SlabOk(o[1], slab[o[1]], In(o[1])) /\ o \in In(o[1])
  <1>1. o[1] \in Pages
    BY Zenon DEF HeapOk, HeapTypes, Objects
  <1>2. o \in In(o[1])
    BY Zenon DEF In
  <1>3. slab[o[1]].magic /\ SlabOk(o[1], slab[o[1]], In(o[1])) /\ o[1] \notin dying
    BY <1>1, <1>2, Zenon DEF HeapOk, PageOk
  <1>4. QED
    BY <1>1, <1>2, <1>3, SlabTypes, Zenon DEF HeapOk

LEMMA FinishStep == \A m \in moving : Inv /\ FinishRealloc(m) => Inv'
  <1>1. SUFFICES ASSUME NEW m \in moving, Inv, FinishRealloc(m)
                 PROVE  Inv'
    BY Zenon
  <1>2. HeapOk /\ MovesOk
    BY <1>1, Zenon DEF Inv
  <1>3. PICK old : old = m.old
    BY Zenon
  <1>4. PICK new : new = m.new
    BY Zenon
  <1>5. PICK v : v = Resized(old, MinOf(Copied(old), live[old].kept), live[new].size)
    BY Zenon
  <1>6. /\ Release(old) /\ used' = used /\ moving' = moving \ {m}
        /\ live' = [o \in DOMAIN live \ {old} |-> IF o = new THEN v ELSE live[o]]
    BY <1>1, <1>3, <1>4, <1>5, Zenon DEF FinishRealloc
  <1>7. old \in DOMAIN live /\ new \in DOMAIN live /\ old # new
    BY <1>2, <1>3, <1>4, ZenonT(30) DEF MovesOk
  <1>8. /\ DOMAIN live' = DOMAIN live \ {old} /\ live'[new] = v
        /\ \A o \in DOMAIN live \ {old, new} : live'[o] = live[o]
    BY <1>6, <1>7, Zenon
  <1>9. HeapOk' /\ SameShape
    BY <1>2, <1>6, <1>7, <1>8, ReleaseStep, Zenon
  <1>10. ASSUME NEW n \in moving, n # m
         PROVE  n.old # old /\ n.new # old /\ n.old # new /\ n.new # new
    <2>1. {n.old, n.new} \cap {m.old, m.new} = {}
      BY <1>2, <1>10, Zenon DEF MovesOk
    <2>2. QED
      BY <1>3, <1>4, <2>1, Zenon
  <1>11. ~Copying(old)
    BY <1>4, <1>7, <1>10, Zenon DEF Copying
  <1>12. ObjectOk(new)'
    <2>1. ObjectOk(old) /\ ObjectOk(new)
      BY <1>1, <1>7, Zenon DEF Inv
    <2>2. PICK z : z = live[old].size
      BY Zenon
    <2>3. PICK size : size = live[new].size
      BY Zenon
    <2>4. PICK n : n = slab[old[1]].object_size
      BY Zenon
    <2>5. n \in Nat
      <3>1. n \in 1 .. SIZE_CAP
        BY <1>2, <1>7, <2>4, InHeader, HeaderTypes, Zenon
      <3>2. QED
        BY <3>1
    <2>6. /\ live[old] \in [size : Sizes, kept : Nat] /\ live[new] \in [size : Sizes, kept : Nat]
          /\ live[old].kept >= MinOf(z, SIZE_CAP) /\ (z <= n \/ n = SIZE_CAP)
      BY <1>11, <2>1, <2>2, <2>4, Zenon DEF ObjectOk, KeptOk, Fits
    <2>7. live[old].kept \in Nat /\ z \in Nat /\ size \in Nat /\ size \in Sizes
      BY <2>2, <2>3, <2>6, LayoutAssumption, Zenon
    <2>8. PICK a : a = MinOf(n, live[old].kept)
      BY Zenon
    <2>9. a \in Nat /\ a >= MinOf(z, SIZE_CAP)
      BY <2>5, <2>6, <2>7, <2>8, CopiedKeeps, Zenon
    <2>10. PICK b : b = IF a >= MinOf(z, size) THEN size ELSE a
      BY Zenon
    <2>11. b \in Nat /\ b >= MinOf(size, SIZE_CAP)
      BY <2>7, <2>9, <2>10, ResizedKeeps, Zenon
    <2>12. v = [size |-> size, kept |-> b]
      BY <1>5, <2>2, <2>3, <2>4, <2>8, <2>10, ZenonT(30) DEF Resized, Copied
    <2>13. live'[new] \in [size : Sizes, kept : Nat] /\ live'[new].size = size /\ live'[new].kept = b
      BY <1>8, <2>7, <2>11, <2>12, SMTT(30)
    <2>14. Fits(size, slab'[new[1]])
      BY <1>7, <1>9, <2>1, <2>3, Zenon DEF ObjectOk, Fits, SameShape
    <2>15. QED
      BY <2>11, <2>13, <2>14, Zenon DEF ObjectOk, KeptOk
  <1>13. ASSUME NEW o \in DOMAIN live \ {old, new}
         PROVE  ObjectOk(o)'
    <2>1. Copying(o) => Copying(o)'
      BY <1>4, <1>6, Zenon DEF Copying
    <2>2. o \in DOMAIN live /\ ObjectOk(o) /\ live'[o] = live[o]
      BY <1>1, <1>8, Zenon DEF Inv
    <2>3. QED
      BY <1>9, <2>1, <2>2, KeepObject, Zenon
  <1>14. MovesOk'
    <2>1. moving' \subseteq [old : DOMAIN live', new : DOMAIN live']
      BY <1>2, <1>6, <1>8, <1>10, ZenonT(30) DEF MovesOk
    <2>2. QED
      BY <1>2, <1>6, <2>1, Zenon DEF MovesOk
  <1>15. QED
    BY <1>8, <1>9, <1>12, <1>13, <1>14, ZenonT(30) DEF Inv

-----------------------------------------------------------------------------
LEMMA InitInv == Init => Inv
  <1>1. SUFFICES ASSUME Init
                 PROVE  Inv
    BY Zenon
  <1>2. /\ slab = [p \in Pages |-> NoSlab] /\ used = {} /\ dying = {} /\ live = << >> /\ moving = {}
        /\ caches = [c \in Caches |-> [slabs |-> << >>, slab_count |-> 0]]
    BY <1>1, Zenon DEF Init
  <1>3. DOMAIN live = {}
    BY <1>2, SMTT(30)
  <1>4. \A p \in Pages : slab[p] = NoSlab
    BY <1>2, Zenon
  <1>5. ~NoSlab.magic
    BY Zenon DEF NoSlab
  <1>6. [slabs |-> << >>, slab_count |-> 0] \in [slabs : Seq(Pages), slab_count : Nat]
    OBVIOUS
  <1>7. HeapTypes
    <2>1. slab \in [Pages -> Headers \cup {NoSlab}]
      BY <1>2, Zenon
    <2>2. caches \in [Caches -> [slabs : Seq(Pages), slab_count : Nat]]
      BY <1>2, <1>6, Zenon
    <2>3. QED
      BY <1>2, <1>3, <2>1, <2>2, Zenon DEF HeapTypes
  <1>8. Slabs = {}
    BY <1>4, <1>5, Zenon DEF Slabs
  <1>9. PagesOk
    BY <1>2, <1>8, Zenon DEF PagesOk, Owns
  <1>10. \A p \in Pages : PageOk(p)
    BY <1>2, <1>3, <1>4, <1>5, Zenon DEF PageOk, In
  <1>11. ASSUME NEW c \in Caches
         PROVE  CacheOk(c)
    <2>1. Cached(c) = {} /\ Listed(c) = {}
      BY <1>4, <1>5, Zenon DEF Cached, Listed
    <2>2. PICK ca : ca = [slabs |-> << >>, slab_count |-> 0]
      BY Zenon
    <2>3. ca.slabs = << >> /\ ca.slab_count = 0 /\ ca \in [slabs : Seq(Pages), slab_count : Nat]
      BY <2>2
    <2>4. << >> \in Seq(Pages) /\ Len(<< >>) = 0 /\ DOMAIN << >> = {}
      OBVIOUS
    <2>5. Range(<< >>) = {} /\ IsInjective(<< >>)
      BY <2>4, Zenon DEF Range, IsInjective
    <2>6. ListIs(ca, {})
      BY <2>3, <2>4, <2>5, Zenon DEF ListIs
    <2>7. caches[c] = ca
      BY <1>2, <2>2, Zenon
    <2>8. QED
      BY <2>1, <2>6, <2>7, Zenon DEF CacheOk
  <1>12. HeapOk
    BY <1>7, <1>9, <1>10, <1>11, Zenon DEF HeapOk
  <1>13. MovesOk
    BY <1>2, Zenon DEF MovesOk
  <1>14. QED
    BY <1>3, <1>12, <1>13, Zenon DEF Inv

LEMMA NextInv == Inv /\ [Next]_vars => Inv'
  <1>1. SUFFICES ASSUME Inv, [Next]_vars
                 PROVE  Inv'
    BY Zenon
  <1>2. CASE UNCHANGED vars
    <2>1. UNCHANGED <<slab, caches, used, dying, live, moving>>
      BY <1>2, Zenon DEF vars
    <2>2. HeapOk'
      <3>1. HeapTypes' /\ PagesOk'
        <4>1. Slabs' = Slabs /\ \A p : Extent(p)' = Extent(p)
          BY <2>1, Zenon DEF Slabs, Extent
        <4>2. \A p, x : Owns(p, x)' <=> Owns(p, x)
          BY <4>1, Zenon DEF Owns
        <4>3. QED
          BY <1>1, <2>1, <4>1, <4>2, Zenon DEF Inv, HeapOk, HeapTypes, PagesOk
      <3>2. \A p \in Pages : PageOk(p)'
        BY <1>1, <2>1, Zenon DEF Inv, HeapOk, PageOk, In
      <3>3. \A c \in Caches : CacheOk(c)'
        <4>1. \A c : Cached(c)' = Cached(c) /\ Listed(c)' = Listed(c)
          BY <2>1, Zenon DEF Cached, Listed
        <4>2. QED
          BY <1>1, <2>1, <4>1, Zenon DEF Inv, HeapOk, CacheOk, Empty
      <3>4. QED
        BY <3>1, <3>2, <3>3, Zenon DEF HeapOk
    <2>3. MovesOk' /\ \A o \in DOMAIN live : ObjectOk(o)'
      BY <1>1, <2>1, Zenon DEF Inv, MovesOk, ObjectOk, KeptOk, Copying
    <2>4. QED
      BY <2>1, <2>2, <2>3, ZenonT(30) DEF Inv
  <1>3. CASE Next
    BY <1>1, <1>3, KmallocStep, KfreeStep, InPlaceStep, KreallocStep, DestroyStep, FinishStep, ZenonT(30) DEF Next
  <1>4. QED
    BY <1>1, <1>2, <1>3, Zenon

\* The allocator keeps its inductive invariant, with kfree calls that have let
\* go of kheap_lock and krealloc calls between kmalloc and kfree.
THEOREM KheapInvariant == Spec => []Inv
  BY InitInv, NextInv, PTL DEF Spec

LEMMA InvLists == Inv => SlabListsExact
  <1>1. SUFFICES ASSUME Inv
                 PROVE  SlabListsExact
    BY Zenon
  <1>2. HeapOk
    BY <1>1, Zenon DEF Inv
  <1>3. TypeOK
    <2>1. \A o \in DOMAIN live : live[o] \in [size : Sizes, kept : Nat]
      BY <1>1, Zenon DEF Inv, ObjectOk
    <2>2. QED
      BY <1>1, <1>2, <2>1, Zenon DEF Inv, HeapOk, HeapTypes, MovesOk, TypeOK
  <1>4. ASSUME NEW c \in Caches
        PROVE  /\ IsInjective(caches[c].slabs) /\ caches[c].slab_count = Len(caches[c].slabs)
               /\ Range(caches[c].slabs) = {p \in Cached(c) : slab[p].free_list # << >>}
               /\ \A p \in Cached(c) : slab[p].free_count = Len(slab[p].free_list)
    <2>1. ListIs(caches[c], Listed(c))
      BY <1>2, Zenon DEF HeapOk, CacheOk
    <2>2. ASSUME NEW p \in Cached(c)
          PROVE  slab[p].free_count = Len(slab[p].free_list)
      BY <1>2, ListedSlab, Zenon DEF SmallOk
    <2>3. QED
      BY <2>1, <2>2, Zenon DEF ListIs, Listed
  <1>5. QED
    BY <1>3, <1>4, Zenon DEF SlabListsExact

\* kmalloc and kfree keep a slab on its cache's list, once, exactly while it has
\* a free object, and both counts are right.
THEOREM SlabListsAreExact == Spec => []SlabListsExact
  BY KheapInvariant, InvLists, PTL

LEMMA InvHoard == Inv => NoPageHoarded
  <1>1. SUFFICES ASSUME Inv
                 PROVE  NoPageHoarded
    BY Zenon
  <1>2. HeapOk
    BY <1>1, Zenon DEF Inv
  <1>3. ASSUME NEW c \in Caches
        PROVE  Cardinality({p \in Cached(c) : slab[p].free_count = slab[p].capacity}) <= 1
    <2>1. PICK E : E = {p \in Cached(c) : slab[p].free_count = slab[p].capacity}
      BY Zenon
    <2>2. \A p, q \in E : p = q
      BY <1>2, <2>1, Zenon DEF HeapOk, CacheOk, Empty
    <2>3. CASE E = {}
      BY <2>1, <2>3, FS_EmptySet, SMTT(30)
    <2>4. CASE E # {}
      <3>1. PICK p \in E : TRUE
        BY <2>4, Zenon
      <3>2. E = {p}
        BY <2>2, <3>1, Zenon
      <3>3. QED
        BY <2>1, <3>2, FS_Singleton, SMTT(30)
    <2>5. QED
      BY <2>3, <2>4, Zenon
  <1>4. used = UNION {Extent(p) : p \in {q \in Pages : slab[q].magic}}
    <2>1. ASSUME NEW x
          PROVE  x \in used <=> \E p \in Slabs : x \in Extent(p)
      <3>1. used \subseteq Pages /\ \A p \in Slabs : p \in Pages /\ Extent(p) \subseteq Pages
        BY <1>2, Zenon DEF HeapOk, HeapTypes, PagesOk, Slabs
      <3>2. x \in Pages => (x \in used <=> \E p \in Pages : Owns(p, x))
        BY <1>2, Zenon DEF HeapOk, PagesOk
      <3>3. QED
        BY <3>1, <3>2, Zenon DEF Owns
    <2>2. QED
      BY <2>1, Zenon DEF Slabs
  <1>5. QED
    BY <1>3, <1>4, Zenon DEF NoPageHoarded

\* A cache keeps at most one slab without objects in use, and the pages taken
\* from the page allocator are those of the slabs.
THEOREM PagesAreNotHoarded == Spec => []NoPageHoarded
  BY KheapInvariant, InvHoard, PTL

\* An object that krealloc is done with has the contents the user wrote, up to
\* the largest size a header can record.
THEOREM ContentsSurviveRealloc == Spec => []ReallocKeepsContents
  <1>1. Inv => ReallocKeepsContents
    <2>1. SUFFICES ASSUME Inv, NEW o \in InUse
                   PROVE  live[o].kept >= MinOf(live[o].size, SIZE_CAP)
      BY Zenon DEF ReallocKeepsContents
    <2>2. o \in DOMAIN live /\ ~Copying(o)
      BY InUseIs, Zenon DEF Copying
    <2>3. QED
      BY <2>1, <2>2, Zenon DEF Inv, ObjectOk, KeptOk
  <1>2. QED
    BY <1>1, KheapInvariant, PTL

-----------------------------------------------------------------------------
\* An object lies behind its header, inside the pages of its slab.
LEMMA InPages ==
    ASSUME Inv, NEW o \in DOMAIN live
    PROVE  /\ o[2] \in Nat /\ HEADER <= o[2] /\ live[o].size \in Nat
           /\ o[2] + live[o].size <= slab[o[1]].npages * PAGE_SIZE
  <1>1. HeapOk /\ ObjectOk(o)
    BY Zenon DEF Inv
  <1>2. PICK p : p = o[1]
    BY Zenon
  <1>3. PICK h : h = slab[p]
    BY Zenon
  <1>4. PICK size : size = live[o].size
    BY Zenon
  <1>5. p \in Pages /\ h \in Headers /\ SlabOk(p, h, In(p)) /\ o \in In(p)
    BY <1>1, <1>2, <1>3, InHeader, Zenon
  <1>6. /\ h.object_size \in 1 .. SIZE_CAP /\ h.cache \in {BIG} \cup Caches /\ h.npages \in Nat
    BY <1>5, HeaderTypes, ZenonT(30)
  <1>7. size \in Nat /\ Fits(size, h)
    <2>1. live[o] \in [size : Sizes, kept : Nat] /\ Fits(size, h)
      BY <1>1, <1>2, <1>3, <1>4, Zenon DEF ObjectOk
    <2>2. QED
      BY <1>4, <2>1, LayoutAssumption, Zenon
  <1>8. HEADER \in Nat /\ PAGE_SIZE \in Nat
    BY LayoutAssumption, Zenon
  <1>9. CASE h.cache = BIG
    <2>1. o = <<p, HEADER>> /\ HEADER + h.object_size <= h.npages * PAGE_SIZE
      BY <1>5, <1>9, Zenon DEF SlabOk, BigOk
    <2>2. o[2] = HEADER
      BY <2>1, Zenon
    <2>3. h.npages * PAGE_SIZE \in Nat
      BY <1>6, <1>8, SMTT(30)
    <2>4. size <= h.object_size \/ HEADER + size <= h.npages * PAGE_SIZE
      BY <1>7, Zenon DEF Fits
    <2>5. HEADER + size <= h.npages * PAGE_SIZE
      BY <1>6, <1>7, <1>8, <2>1, <2>3, <2>4, SMTT(30)
    <2>6. QED
      BY <1>2, <1>3, <1>4, <1>7, <1>8, <2>2, <2>5, SMTT(30)
  <1>10. CASE h.cache # BIG
    <2>1. PICK c \in Caches : c = h.cache
      BY <1>6, <1>10, Zenon
    <2>2. /\ o \in Slots(p, c) /\ h.npages = 1 /\ h.object_size = cache_sizes[c] /\ size <= cache_sizes[c]
      BY <1>5, <1>7, <1>10, <2>1, Zenon DEF SlabOk, SmallOk, Fits
    <2>3. PICK i \in 0 .. Capacity(c) - 1 : o = ObjAt(p, c, i)
      BY <2>2, Zenon DEF Slots
    <2>4. PICK k : k = i * cache_sizes[c]
      BY Zenon
    <2>5. k \in Nat /\ HEADER + k + cache_sizes[c] <= PAGE_SIZE /\ cache_sizes[c] \in Nat
      BY <2>4, SlotsFit, Zenon
    <2>6. o[2] = HEADER + k
      BY <2>3, <2>4, Zenon DEF ObjAt
    <2>7. h.npages * PAGE_SIZE = PAGE_SIZE
      BY <1>8, <2>2
    <2>8. QED
      BY <1>2, <1>3, <1>4, <1>7, <1>8, <2>2, <2>5, <2>6, <2>7, SMTT(30)
  <1>11. QED
    BY <1>9, <1>10, Zenon

\* Two objects of one slab do not overlap.
LEMMA Apart ==
    ASSUME Inv, NEW o \in DOMAIN live, NEW q \in DOMAIN live, o # q, o[1] = q[1]
    PROVE  o[2] + live[o].size <= q[2] \/ q[2] + live[q].size <= o[2]
  <1>1. HeapOk /\ ObjectOk(o) /\ ObjectOk(q)
    BY Zenon DEF Inv
  <1>2. PICK p : p = o[1]
    BY Zenon
  <1>3. PICK h : h = slab[p]
    BY Zenon
  <1>4. p \in Pages /\ h \in Headers /\ SlabOk(p, h, In(p)) /\ o \in In(p) /\ q \in In(p)
    BY <1>1, <1>2, <1>3, InHeader, Zenon
  <1>5. h.cache # BIG
    BY <1>4, Zenon DEF SlabOk, BigOk
  <1>6. PICK c \in Caches : c = h.cache
    BY <1>4, <1>5, HeaderTypes, Zenon
  <1>7. PICK z : z = cache_sizes[c]
    BY Zenon
  <1>8. /\ In(p) \subseteq Slots(p, c) /\ h.object_size = z
        /\ live[o].size <= z /\ live[q].size <= z
    BY <1>1, <1>2, <1>3, <1>4, <1>5, <1>6, <1>7, ZenonT(30) DEF SlabOk, SmallOk, ObjectOk, Fits
  <1>9. PICK i \in 0 .. Capacity(c) - 1 : o = ObjAt(p, c, i)
    BY <1>4, <1>8, Zenon DEF Slots
  <1>10. PICK j \in 0 .. Capacity(c) - 1 : q = ObjAt(p, c, j)
    BY <1>4, <1>8, Zenon DEF Slots
  <1>11. i # j
    BY <1>9, <1>10, Zenon
  <1>12. o[2] = HEADER + i * z /\ q[2] = HEADER + j * z
    BY <1>7, <1>9, <1>10, ZenonT(30) DEF ObjAt
  <1>13. z \in Nat /\ i \in Nat /\ j \in Nat /\ HEADER \in Nat
    BY <1>7, SlotsFit, LayoutAssumption, SMTT(30)
  <1>14. i * z \in Nat /\ j * z \in Nat /\ (i * z + z <= j * z \/ j * z + z <= i * z)
    <2>1. i < j => i * z + z <= j * z
      BY <1>13
    <2>2. j < i => j * z + z <= i * z
      BY <1>13
    <2>3. QED
      BY <1>11, <1>13, <2>1, <2>2
  <1>15. live[o].size \in Nat /\ live[q].size \in Nat
    BY InPages, Zenon
  <1>16. QED
    BY <1>8, <1>12, <1>13, <1>14, <1>15, SMTT(30)

\* The page of a byte.
LEMMA PageOf ==
    ASSUME NEW p \in Nat, NEW n \in Nat, NEW s \in Nat \ {0}, NEW b \in Nat,
           p * s <= b, b < p * s + n * s
    PROVE  \E x \in p .. p + n - 1 : x * s <= b /\ b < (x + 1) * s
  <1>1. PICK x : x = b \div s
    BY Zenon
  <1>2. x \in Nat /\ x * s <= b /\ b < x * s + s
    BY <1>1, Divide, Zenon
  <1>3. (x + 1) * s = x * s + s /\ x * s \in Nat /\ p * s \in Nat
    BY <1>2
  <1>4. x >= p
    <2>1. x + 1 <= p => (x + 1) * s <= p * s
      BY <1>2
    <2>2. QED
      BY <1>2, <1>3, <2>1
  <1>5. x < p + n
    <2>1. p + n <= x => p * s + n * s <= x * s
      BY <1>2
    <2>2. p * s + n * s \in Nat
      OBVIOUS
    <2>3. QED
      BY <1>2, <1>3, <2>1, <2>2
  <1>6. x \in p .. p + n - 1
    BY <1>2, <1>4, <1>5
  <1>7. QED
    BY <1>2, <1>3, <1>6, ZenonT(30)

\* The bytes of an object lie in the pages of its slab.
LEMMA ByteInSlab ==
    ASSUME Inv, NEW o \in DOMAIN live, NEW b \in Bytes(o)
    PROVE  /\ b \in Nat /\ o[1] * PAGE_SIZE + o[2] <= b /\ b < o[1] * PAGE_SIZE + o[2] + live[o].size
           /\ \E x \in Extent(o[1]) : x * PAGE_SIZE <= b /\ b < (x + 1) * PAGE_SIZE
  <1>1. PICK p : p = o[1]
    BY Zenon
  <1>2. PICK n : n = slab[p].npages
    BY Zenon
  <1>3. PICK size : size = live[o].size
    BY Zenon
  <1>4. PICK a : a = o[2]
    BY Zenon
  <1>5. a \in Nat /\ size \in Nat /\ a + size <= n * PAGE_SIZE
    BY <1>1, <1>2, <1>3, <1>4, InPages, ZenonT(30)
  <1>6. p \in Nat /\ n \in Nat /\ PAGE_SIZE \in Nat \ {0}
    <2>1. slab[p] \in Headers /\ p \in Pages
      BY <1>1, InHeader, Zenon DEF Inv
    <2>2. n \in Nat
      BY <1>2, <2>1, HeaderTypes, Zenon
    <2>3. QED
      BY <2>1, <2>2, LayoutAssumption DEF Pages
  <1>7. PICK k : k = p * PAGE_SIZE
    BY Zenon
  <1>8. PICK e : e = n * PAGE_SIZE
    BY Zenon
  <1>9. k \in Nat /\ e \in Nat
    BY <1>6, <1>7, <1>8
  <1>10. b \in k + a .. k + a + size - 1
    BY <1>1, <1>3, <1>4, <1>7, Zenon DEF Bytes
  <1>11. b \in Nat /\ k + a <= b /\ b < k + a + size /\ k <= b /\ b < k + e
    BY <1>5, <1>8, <1>9, <1>10
  <1>12. \E x \in p .. p + n - 1 : x * PAGE_SIZE <= b /\ b < (x + 1) * PAGE_SIZE
    BY <1>6, <1>7, <1>8, <1>11, PageOf, Zenon
  <1>13. QED
    BY <1>1, <1>2, <1>3, <1>4, <1>7, <1>11, <1>12, ZenonT(30) DEF Extent

LEMMA InvDisjoint == Inv => ObjectsDisjoint
  <1>1. SUFFICES ASSUME Inv
                 PROVE  ObjectsDisjoint
    BY Zenon
  <1>2. HeapOk
    BY <1>1, Zenon DEF Inv
  <1>3. ASSUME NEW o \in DOMAIN live
        PROVE  /\ o[1] \in Slabs /\ o[1] \notin dying /\ Extent(o[1]) \subseteq Pages
               /\ SlabOk(o[1], slab[o[1]], In(o[1])) /\ o \in In(o[1])
    <2>1. /\ o[1] \in Pages /\ o \in In(o[1]) /\ SlabOk(o[1], slab[o[1]], In(o[1]))
      BY <1>2, InHeader, Zenon
    <2>2. slab[o[1]].magic /\ o[1] \notin dying
      BY <1>2, <2>1, Zenon DEF HeapOk, PageOk
    <2>3. o[1] \in Slabs
      BY <2>1, <2>2, Zenon DEF Slabs
    <2>4. QED
      BY <1>2, <2>1, <2>2, <2>3, Zenon DEF HeapOk, PagesOk
  <1>4. ASSUME NEW o \in DOMAIN live, NEW p, p = o[1]
        PROVE  /\ slab[p].magic /\ p \notin dying
               /\ Bytes(o) \subseteq UNION {q * PAGE_SIZE .. (q + 1) * PAGE_SIZE - 1 : q \in Extent(p)}
               /\ Extent(p) \subseteq used
               /\ Bytes(o) \cap HeaderBytes(p) = {}
               /\ o \notin Range(slab[p].free_list)
    <2>1. /\ p \in Slabs /\ p \in Pages /\ slab[p].magic /\ p \notin dying /\ Extent(p) \subseteq Pages
          /\ SlabOk(p, slab[p], In(p)) /\ o \in In(p)
      BY <1>3, <1>4, Zenon DEF Slabs
    <2>2. ASSUME NEW b \in Bytes(o)
          PROVE  b \in UNION {q * PAGE_SIZE .. (q + 1) * PAGE_SIZE - 1 : q \in Extent(p)}
      <3>1. PICK x \in Extent(p) : b \in Nat /\ x * PAGE_SIZE <= b /\ b < (x + 1) * PAGE_SIZE
        BY <1>1, <1>4, ByteInSlab, Zenon
      <3>2. x \in Nat /\ PAGE_SIZE \in Nat
        BY <2>1, <3>1, LayoutAssumption, SMTT(30) DEF Pages
      <3>3. b \in x * PAGE_SIZE .. (x + 1) * PAGE_SIZE - 1
        <4>1. x * PAGE_SIZE \in Nat /\ (x + 1) * PAGE_SIZE \in Nat
          BY <3>2
        <4>2. QED
          BY <3>1, <4>1
      <3>4. QED
        BY <3>1, <3>3, Zenon
    <2>3. ASSUME NEW x \in Extent(p)
          PROVE  x \in used
      BY <1>2, <2>1, <2>3, Zenon DEF HeapOk, PagesOk, Owns
    <2>4. ASSUME NEW b \in Bytes(o), b \in HeaderBytes(p)
          PROVE  FALSE
      <3>1. b \in Nat /\ p * PAGE_SIZE + o[2] <= b
        BY <1>1, <1>4, ByteInSlab, Zenon
      <3>2. o[2] \in Nat /\ HEADER <= o[2]
        BY <1>1, InPages, Zenon
      <3>3. p * PAGE_SIZE \in Nat /\ HEADER \in Nat
        BY <2>1, LayoutAssumption, SMTT(30) DEF Pages
      <3>4. b \in p * PAGE_SIZE .. p * PAGE_SIZE + HEADER - 1
        BY <2>4, Zenon DEF HeaderBytes
      <3>5. QED
        BY <3>1, <3>2, <3>3, <3>4
    <2>5. o \notin Range(slab[p].free_list)
      <3>1. CASE slab[p].cache = BIG
        <4>1. slab[p].free_list = << >>
          BY <2>1, <3>1, Zenon DEF SlabOk, BigOk
        <4>2. DOMAIN << >> = {}
          OBVIOUS
        <4>3. QED
          BY <4>1, <4>2, Zenon DEF Range
      <3>2. CASE slab[p].cache # BIG
        BY <2>1, <3>2, Zenon DEF SlabOk, SmallOk
      <3>3. QED
        BY <3>1, <3>2, Zenon
    <2>6. QED
      BY <2>1, <2>2, <2>3, <2>4, <2>5, Zenon
  <1>5. ASSUME NEW o \in DOMAIN live, NEW q \in DOMAIN live, o # q, NEW b \in Bytes(o), b \in Bytes(q)
        PROVE  FALSE
    <2>1. PICK x \in Extent(o[1]) : b \in Nat /\ x * PAGE_SIZE <= b /\ b < (x + 1) * PAGE_SIZE
      BY <1>1, ByteInSlab, Zenon
    <2>2. PICK y \in Extent(q[1]) : y * PAGE_SIZE <= b /\ b < (y + 1) * PAGE_SIZE
      BY <1>1, <1>5, ByteInSlab, Zenon
    <2>3. x \in Pages /\ y \in Pages /\ o[1] \in Slabs /\ q[1] \in Slabs
      BY <1>3, <2>1, <2>2, Zenon
    <2>4. x = y
      <3>1. x \in Nat /\ y \in Nat /\ PAGE_SIZE \in Nat \ {0}
        BY <2>3, LayoutAssumption, SMTT(30) DEF Pages
      <3>2. QED
        BY <2>1, <2>2, <3>1, SamePage, Zenon
    <2>5. o[1] = q[1]
      BY <1>2, <2>1, <2>2, <2>3, <2>4, Zenon DEF HeapOk, PagesOk, Owns, Slabs
    <2>6. PICK k : k = o[1] * PAGE_SIZE
      BY Zenon
    <2>7. /\ k + o[2] <= b /\ b < k + o[2] + live[o].size
          /\ k + q[2] <= b /\ b < k + q[2] + live[q].size
      BY <1>1, <1>5, <2>5, <2>6, ByteInSlab, ZenonT(30)
    <2>8. k \in Nat
      BY <2>3, <2>6, LayoutAssumption, SMTT(30) DEF Slabs, Pages
    <2>9. o[2] \in Nat /\ q[2] \in Nat /\ live[o].size \in Nat /\ live[q].size \in Nat
      BY <1>1, InPages, Zenon
    <2>10. o[2] + live[o].size <= q[2] \/ q[2] + live[q].size <= o[2]
      BY <1>1, <1>5, <2>5, Apart, Zenon
    <2>11. QED
      BY <2>1, <2>7, <2>8, <2>9, <2>10, SMTT(30)
  <1>6. \A o, q \in DOMAIN live : o # q => Bytes(o) \cap Bytes(q) = {}
    BY <1>5, Zenon
  <1>7. QED
    BY <1>4, <1>6, Zenon DEF ObjectsDisjoint

\* Objects in use lie in pages their slab owns, behind its header, on no free
\* list, and no two of them share a byte, whatever kmalloc, krealloc and the
\* kfree calls that still have to release a slab are doing.
THEOREM ObjectsAreDisjoint == Spec => []ObjectsDisjoint
  BY KheapInvariant, InvDisjoint, PTL

=============================================================================
