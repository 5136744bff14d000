---------------------------- MODULE KheapLemmas ----------------------------
(***************************************************************************)
(* The inductive invariant of Kheap, lemmas about the parts it is made of, *)
(* and what kmalloc does to the heap, for every page size, header, table   *)
(* of caches and set of request sizes.                                     *)
(***************************************************************************)
EXTENDS Kheap, FiniteSetTheorems, ListLemmas, TLAPS

-----------------------------------------------------------------------------
Slabs == {p \in Pages : slab[p].magic}
Slots(p, c) == {ObjAt(p, c, i) : i \in 0 .. Capacity(c) - 1}
In(p) == {o \in DOMAIN live : o[1] = p}

\* What the header h of page p says when objs are in use there.  A slab of a
\* cache has its objects free or in use, never both; a big one has one object.
SmallOk(p, h, objs) ==
    /\ h.npages = 1 /\ h.object_size = cache_sizes[h.cache] /\ h.capacity = Capacity(h.cache)
    /\ h.free_count = Len(h.free_list) /\ IsInjective(h.free_list)
    /\ Range(h.free_list) \subseteq Slots(p, h.cache)
    /\ objs \subseteq Slots(p, h.cache) \ Range(h.free_list)
BigOk(p, h, objs) ==
    /\ h.free_list = << >> /\ objs \subseteq {<<p, HEADER>>}
    /\ HEADER + h.object_size <= h.npages * PAGE_SIZE
SlabOk(p, h, objs) == IF h.cache = BIG THEN BigOk(p, h, objs) ELSE SmallOk(p, h, objs)

\* Nothing is in use in a page that is no slab or about to be released.
PageOk(p) ==
    /\ slab[p].magic => SlabOk(p, slab[p], In(p))
    /\ p \in dying => slab[p].magic
    /\ p \in dying \/ ~slab[p].magic => In(p) = {}

\* The slabs divide the pages in use among them.
Owns(p, x) == p \in Slabs /\ x \in Extent(p)
PagesOk == /\ \A p \in Slabs : Extent(p) \subseteq Pages
           /\ \A x \in Pages : x \in used <=> \E p \in Pages : Owns(p, x)
           /\ \A p, q \in Pages : \A x \in Pages : Owns(p, x) /\ Owns(q, x) => p = q

\* A cache lists the slabs with a free object, and at most one is empty.
ListIs(ca, S) == /\ ca \in [slabs : Seq(Pages), slab_count : Nat]
                 /\ IsInjective(ca.slabs) /\ ca.slab_count = Len(ca.slabs)
                 /\ Range(ca.slabs) = S
Empty(p) == slab[p].free_count = slab[p].capacity
Listed(c) == {p \in Cached(c) : slab[p].free_list # << >>}
CacheOk(c) == /\ ListIs(caches[c], Listed(c))
              /\ \A p, q \in Cached(c) : Empty(p) /\ Empty(q) => p = q

HeapTypes == /\ slab \in [Pages -> Headers \cup {NoSlab}]
             /\ caches \in [Caches -> [slabs : Seq(Pages), slab_count : Nat]]
             /\ used \subseteq Pages /\ dying \subseteq Pages
             /\ DOMAIN live \subseteq Objects
HeapOk == /\ HeapTypes /\ PagesOk
          /\ \A p \in Pages : PageOk(p)
          /\ \A c \in Caches : CacheOk(c)

\* What was asked for fits the object, whose size only a big one may understate.
Fits(size, h) == \/ size <= h.object_size
                 \/ /\ h.cache = BIG /\ h.object_size = SIZE_CAP
                    /\ HEADER + size <= h.npages * PAGE_SIZE

\* No two krealloc calls work on the same object, and all but the copies they
\* are still making have their contents.
MovesOk == /\ moving \subseteq [old : DOMAIN live, new : DOMAIN live]
           /\ \A m \in moving : m.old # m.new
           /\ \A m, n \in moving : {m.old, m.new} \cap {n.old, n.new} # {} => m = n
Copying(o) == \E m \in moving : m.new = o
KeptOk(o) == Copying(o) \/ live[o].kept >= MinOf(live[o].size, SIZE_CAP)

ObjectOk(o) == /\ live[o] \in [size : Sizes, kept : Nat]
               /\ Fits(live[o].size, slab[o[1]]) /\ KeptOk(o)

\* The inductive invariant.
Inv == HeapOk /\ MovesOk /\ \A o \in DOMAIN live : ObjectOk(o)

-----------------------------------------------------------------------------
\* Arithmetic: division rounds down, products are monotone, a byte is in one page.
LEMMA Divide ==
    \A n \in Nat, a \in Nat \ {0} : /\ n \div a \in Nat
                                    /\ (n \div a) * a <= n /\ n < (n \div a) * a + a
  BY SMT

LEMMA Monotone == \A i, j, s \in Nat : i <= j => i * s <= j * s
  BY SMT

LEMMA Cancel == \A i \in Nat, s \in Nat \ {0} : (i * s) \div s = i
  BY SMT

LEMMA SamePage ==
    \A x, y, b \in Nat, s \in Nat \ {0} :
        x * s <= b /\ b < (x + 1) * s /\ y * s <= b /\ b < (y + 1) * s => x = y
  BY SMT

LEMMA Aligned == \A n \in Nat, a \in Nat \ {0} : AlignUp(n, a) \in Nat /\ AlignUp(n, a) >= n
  <1>1. SUFFICES ASSUME NEW n \in Nat, NEW a \in Nat \ {0}
                 PROVE  AlignUp(n, a) \in Nat /\ AlignUp(n, a) >= n
    BY Zenon
  <1>2. PICK k : k = (n + a - 1) \div a
    BY Zenon
  <1>3. n + a - 1 \in Nat
    BY SMT
  <1>4. k \in Nat /\ k * a <= n + a - 1 /\ n + a - 1 < k * a + a
    BY <1>2, <1>3, Divide, Zenon
  <1>5. k * a \in Nat
    BY <1>4, SMT
  <1>6. k * a >= n
    BY <1>4, <1>5, SMT
  <1>7. QED
    BY <1>2, <1>5, <1>6, Zenon DEF AlignUp

\* The pages of a big object have room for the header and the object.
LEMMA BigRoom ==
    ASSUME NEW size \in Nat
    PROVE  BigPages(size) \in Nat \ {0} /\ HEADER + size <= BigPages(size) * PAGE_SIZE
  <1>1. HEADER \in Nat \ {0} /\ KHEAP_ALIGN \in Nat \ {0} /\ PAGE_SIZE \in Nat \ {0}
    BY LayoutAssumption, Zenon
  <1>2. PICK n \in Nat : n = HEADER + KHEAP_ALIGN + size
    BY <1>1
  <1>3. PICK k : k = (n + PAGE_SIZE - 1) \div PAGE_SIZE
    BY Zenon
  <1>4. n + PAGE_SIZE - 1 \in Nat
    BY <1>1
  <1>5. k \in Nat /\ n + PAGE_SIZE - 1 < k * PAGE_SIZE + PAGE_SIZE
    BY <1>1, <1>3, <1>4, Divide, Zenon
  <1>6. BigPages(size) = k
    BY <1>1, <1>2, <1>3, <1>5, Cancel, Zenon DEF BigPages, AlignUp
  <1>7. k * PAGE_SIZE \in Nat
    BY <1>1, <1>5
  <1>8. k * PAGE_SIZE >= n
    BY <1>1, <1>5, <1>7
  <1>9. k # 0
    <2>1. k = 0 => k * PAGE_SIZE = 0
      BY <1>1
    <2>2. QED
      BY <1>1, <1>2, <1>8, <2>1
  <1>10. QED
    BY <1>1, <1>2, <1>5, <1>6, <1>7, <1>8, <1>9

\* A nonempty set of numbers has a least one.
Before == {ss \in Nat \X Nat : ss[1] < ss[2]}
LEMMA Least == ASSUME NEW S \in SUBSET Nat, S # {} PROVE \E n \in S : \A m \in S : n <= m
  <1>1. IsWellFoundedOn(Before, Nat)
    BY NatLessThanWellFounded, Zenon DEF OpToRel, Before
  <1>2. PICK x \in S : \A y \in S : ~(<<y, x>> \in Before)
    BY <1>1, WFMin, Zenon
  <1>3. ASSUME NEW y \in S PROVE x <= y
    <2>1. x \in Nat /\ y \in Nat /\ <<y, x>> \notin Before
      BY <1>2, Zenon
    <2>2. <<y, x>> \in Before <=> y < x
      BY <2>1, Zenon DEF Before
    <2>3. QED
      BY <2>1, <2>2
  <1>4. QED
    BY <1>2, <1>3, Zenon

-----------------------------------------------------------------------------
\* A list without repetitions has as many elements as places.
LEMMA CountList ==
    ASSUME NEW S, NEW s \in Seq(S), IsInjective(s)
    PROVE  IsFiniteSet(Range(s)) /\ Cardinality(Range(s)) = Len(s)
  <1>1. DOMAIN s = 1 .. Len(s) /\ Len(s) \in Nat
    OBVIOUS
  <1>2. /\ \A x \in Range(s) : \E i \in 1 .. Len(s) : s[i] = x
        /\ \A i \in 1 .. Len(s) : s[i] \in Range(s)
        /\ \A i, j \in 1 .. Len(s) : s[i] = s[j] => i = j
    BY ListSet, Zenon
  <1>3. s \in [1 .. Len(s) -> Range(s)]
    BY <1>1, <1>2, SMTT(30)
  <1>4. s \in Bijection(1 .. Len(s), Range(s))
    BY <1>2, <1>3, Zenon DEF Bijection, Injection, Surjection
  <1>5. ExistsBijection(1 .. Len(s), Range(s))
    BY <1>4, Zenon DEF ExistsBijection
  <1>6. QED
    BY <1>1, <1>5, FS_CountingElements, FS_NatBijection, Zenon

\* The objects of a slab lie in its page, and there are no more than its capacity.
LEMMA SlotsFit ==
    ASSUME NEW c \in Caches
    PROVE  /\ cache_sizes[c] \in Nat \ {0} /\ Capacity(c) \in Nat \ {0}
           /\ cache_sizes[c] <= SIZE_CAP
           /\ \A i \in 0 .. Capacity(c) - 1 : /\ i * cache_sizes[c] \in Nat
                                              /\ HEADER + i * cache_sizes[c] + cache_sizes[c] <= PAGE_SIZE
  <1>1. HEADER \in Nat \ {0} /\ PAGE_SIZE \in Nat \ {0} /\ HEADER < PAGE_SIZE
    BY LayoutAssumption, Zenon
  <1>2. /\ cache_sizes[c] \in Nat \ {0} /\ cache_sizes[c] <= PAGE_SIZE - HEADER
        /\ cache_sizes[c] <= SIZE_CAP
    BY CacheAssumption, SMTT(30) DEF Caches
  <1>3. PICK s : s = cache_sizes[c]
    BY Zenon
  <1>4. PICK k : k = Capacity(c)
    BY Zenon
  <1>5. PAGE_SIZE - HEADER \in Nat
    BY <1>1
  <1>6. k \in Nat /\ k * s <= PAGE_SIZE - HEADER /\ PAGE_SIZE - HEADER < k * s + s
    BY <1>2, <1>3, <1>4, <1>5, Divide, Zenon DEF Capacity
  <1>7. k # 0
    <2>1. k = 0 => k * s = 0
      BY <1>2, <1>3
    <2>2. QED
      BY <1>1, <1>2, <1>3, <1>6, <2>1, SMTT(30)
  <1>8. ASSUME NEW i \in 0 .. k - 1
        PROVE  i * s \in Nat /\ HEADER + i * s + s <= PAGE_SIZE
    <2>1. i * s \in Nat /\ i * s + s <= k * s
      BY <1>2, <1>3, <1>6, SMTT(30)
    <2>2. k * s \in Nat
      BY <1>2, <1>3, <1>6, SMTT(30)
    <2>3. QED
      BY <1>1, <1>2, <1>3, <1>6, <2>1, <2>2, SMTT(30)
  <1>9. QED
    BY <1>2, <1>3, <1>4, <1>6, <1>7, <1>8, Zenon

\* What slab_create puts on the free list.
FullList(p, c) == [k \in 1 .. Capacity(c) |-> ObjAt(p, c, Capacity(c) - k)]
LEMMA NewList ==
    ASSUME NEW p \in Pages, NEW c \in Caches
    PROVE  /\ Slots(p, c) \subseteq Objects
           /\ FullList(p, c) \in Seq(Objects) /\ Len(FullList(p, c)) = Capacity(c)
           /\ IsInjective(FullList(p, c)) /\ Range(FullList(p, c)) = Slots(p, c)
  <1>1. HEADER \in Nat \ {0} /\ PAGE_SIZE \in Nat \ {0}
    BY LayoutAssumption, Zenon
  <1>2. /\ cache_sizes[c] \in Nat \ {0} /\ Capacity(c) \in Nat \ {0}
        /\ \A i \in 0 .. Capacity(c) - 1 : /\ i * cache_sizes[c] \in Nat
                                           /\ HEADER + i * cache_sizes[c] + cache_sizes[c] <= PAGE_SIZE
    BY SlotsFit, Zenon
  <1>3. \A i \in 0 .. Capacity(c) - 1 : HEADER + i * cache_sizes[c] \in 0 .. PAGE_SIZE - 1
    BY <1>1, <1>2, SMTT(30)
  <1>4. \A i \in 0 .. Capacity(c) - 1 : ObjAt(p, c, i) \in Objects
    BY <1>3, Zenon DEF ObjAt, Objects
  <1>5. Slots(p, c) \subseteq Objects
    BY <1>4, Zenon DEF Slots
  <1>6. \A k \in 1 .. Capacity(c) : Capacity(c) - k \in 0 .. Capacity(c) - 1
    BY <1>2, SMTT(30)
  <1>7. FullList(p, c) \in Seq(Objects) /\ Len(FullList(p, c)) = Capacity(c)
    <2>1. FullList(p, c) \in [1 .. Capacity(c) -> Objects]
      BY <1>4, <1>6, Zenon DEF FullList
    <2>2. QED
      BY <1>2, <2>1, SMTT(30)
  <1>8. \A i, j \in 0 .. Capacity(c) - 1 : ObjAt(p, c, i) = ObjAt(p, c, j) => i = j
    <2>1. SUFFICES ASSUME NEW i \in 0 .. Capacity(c) - 1, NEW j \in 0 .. Capacity(c) - 1,
                          ObjAt(p, c, i) = ObjAt(p, c, j)
                   PROVE  i = j
      BY Zenon
    <2>2. HEADER + i * cache_sizes[c] = HEADER + j * cache_sizes[c]
      BY <2>1, Zenon DEF ObjAt
    <2>3. i * cache_sizes[c] = j * cache_sizes[c]
      BY <1>1, <1>2, <2>2, SMTT(30)
    <2>4. (i * cache_sizes[c]) \div cache_sizes[c] = i /\ (j * cache_sizes[c]) \div cache_sizes[c] = j
      <3>1. i \in Nat /\ j \in Nat
        BY <1>2, SMTT(30)
      <3>2. QED
        BY <1>2, <3>1, Cancel, Zenon
    <2>5. QED
      BY <2>3, <2>4, Zenon
  <1>9. \A k \in 1 .. Capacity(c) : FullList(p, c)[k] = ObjAt(p, c, Capacity(c) - k)
    BY Zenon DEF FullList
  <1>10. IsInjective(FullList(p, c))
    <2>1. DOMAIN FullList(p, c) = 1 .. Capacity(c)
      BY Zenon DEF FullList
    <2>2. \A k, l \in 1 .. Capacity(c) : FullList(p, c)[k] = FullList(p, c)[l] => Capacity(c) - k = Capacity(c) - l
      BY <1>6, <1>8, <1>9, Zenon
    <2>3. \A k, l \in 1 .. Capacity(c) : Capacity(c) - k = Capacity(c) - l => k = l
      BY <1>2, SMTT(30)
    <2>4. QED
      BY <2>1, <2>2, <2>3, Zenon DEF IsInjective
  <1>11. Range(FullList(p, c)) = Slots(p, c)
    <2>1. DOMAIN FullList(p, c) = 1 .. Capacity(c)
      BY Zenon DEF FullList
    <2>2. Range(FullList(p, c)) \subseteq Slots(p, c)
      BY <1>6, <1>9, <2>1, Zenon DEF Range, Slots
    <2>3. \A i \in 0 .. Capacity(c) - 1 : Capacity(c) - i \in 1 .. Capacity(c) /\ Capacity(c) - (Capacity(c) - i) = i
      BY <1>2, SMTT(30)
    <2>4. \A i \in 0 .. Capacity(c) - 1 : FullList(p, c)[Capacity(c) - i] = ObjAt(p, c, i)
      BY <1>9, <2>3, Zenon
    <2>5. Slots(p, c) \subseteq Range(FullList(p, c))
      BY <2>1, <2>3, <2>4, Zenon DEF Range, Slots
    <2>6. QED
      BY <2>2, <2>5, Zenon
  <1>12. QED
    BY <1>5, <1>7, <1>10, <1>11, Zenon

\* So a free list is never longer than the capacity.
LEMMA FreeFits ==
    ASSUME NEW p \in Pages, NEW c \in Caches, NEW s \in Seq(Objects),
           IsInjective(s), Range(s) \subseteq Slots(p, c)
    PROVE  Len(s) <= Capacity(c)
  <1>1. IsFiniteSet(Slots(p, c)) /\ Cardinality(Slots(p, c)) = Capacity(c)
    <2>1. /\ FullList(p, c) \in Seq(Objects) /\ Len(FullList(p, c)) = Capacity(c)
          /\ IsInjective(FullList(p, c)) /\ Range(FullList(p, c)) = Slots(p, c)
      BY NewList, Zenon
    <2>2. /\ IsFiniteSet(Range(FullList(p, c)))
          /\ Cardinality(Range(FullList(p, c))) = Len(FullList(p, c))
      BY <2>1, CountList, Zenon
    <2>3. QED
      BY <2>1, <2>2, Zenon
  <1>2. IsFiniteSet(Range(s)) /\ Cardinality(Range(s)) = Len(s)
    BY CountList, Zenon
  <1>3. Cardinality(Range(s)) <= Cardinality(Slots(p, c))
    BY <1>1, FS_Subset, Zenon
  <1>4. QED
    BY <1>1, <1>2, <1>3, Zenon

-----------------------------------------------------------------------------
\* cache_for_size finds a cache whose objects are large enough.
LEMMA CacheFor ==
    ASSUME NEW size \in Nat, cache_for_size(size) # BIG
    PROVE  cache_for_size(size) \in Caches /\ size <= cache_sizes[cache_for_size(size)]
  <1>1. PICK S : S = {c \in Caches : size <= cache_sizes[c]}
    BY Zenon
  <1>2. S # {} /\ S \in SUBSET Nat
    <2>1. Caches \subseteq Nat
      BY DEF Caches
    <2>2. QED
      BY <1>1, <2>1, Zenon DEF cache_for_size
  <1>3. PICK c \in S : \A d \in S : c <= d
    BY <1>2, Least, Zenon
  <1>4. \A d \in 1 .. c - 1 : size > cache_sizes[d]
    <2>1. ASSUME NEW d \in 1 .. c - 1
          PROVE  size > cache_sizes[d]
      <3>1. d \in Caches /\ d < c
        BY <1>1, <1>3, CacheAssumption, SMTT(30) DEF Caches
      <3>2. d \notin S
        BY <1>2, <1>3, <3>1
      <3>3. ~(size <= cache_sizes[d]) /\ cache_sizes[d] \in Nat
        BY <1>1, <3>1, <3>2, SlotsFit, Zenon
      <3>4. QED
        BY <3>3
    <2>2. QED
      BY <2>1, Zenon
  <1>5. \E b \in Caches : size <= cache_sizes[b] /\ \A d \in 1 .. b - 1 : size > cache_sizes[d]
    BY <1>1, <1>3, <1>4, Zenon
  <1>6. \E b \in Caches : size <= cache_sizes[b]
    BY <1>5, Zenon
  <1>7. QED
    BY <1>5, <1>6, Zenon DEF cache_for_size

-----------------------------------------------------------------------------
\* A header whose free list is replaced.
With(h, s, n) == [h EXCEPT !.free_list = s, !.free_count = n]
IsWith(g, h, s, n) ==
    /\ g \in Headers /\ g.magic /\ g.free_list = s /\ g.free_count = n
    /\ g.object_size = h.object_size /\ g.cache = h.cache
    /\ g.npages = h.npages /\ g.capacity = h.capacity
LEMMA HeaderWith ==
    ASSUME NEW h \in Headers, NEW s \in Seq(Objects), NEW n \in Nat
    PROVE  IsWith(With(h, s, n), h, s, n)
  BY Zenon DEF With, Headers, IsWith

LEMMA HeaderTypes ==
    ASSUME NEW h \in Headers
    PROVE  /\ h.magic /\ h.object_size \in 1 .. SIZE_CAP /\ h.cache \in {BIG} \cup Caches
           /\ h.npages \in Nat \ {0} /\ h.capacity \in Nat \ {0} /\ h.free_count \in Nat
           /\ h.free_list \in Seq(Objects)
  BY Zenon DEF Headers

LEMMA SlabTypes ==
    ASSUME HeapTypes, NEW p \in Pages
    PROVE  /\ slab[p].magic => slab[p] \in Headers
           /\ ~slab[p].magic => slab[p] = NoSlab
  <1>1. slab[p] \in Headers \cup {NoSlab}
    BY Zenon DEF HeapTypes
  <1>2. slab[p] \in Headers => slab[p].magic
    BY HeaderTypes, Zenon
  <1>3. slab[p] = NoSlab => ~slab[p].magic
    BY SMTT(30) DEF NoSlab
  <1>4. QED
    BY <1>1, <1>2, <1>3, Zenon

LEMMA NoBigCache == BIG \notin Caches
  BY DEF BIG, Caches

\* The list of a cache grows and shrinks.
LEMMA AddToList ==
    ASSUME NEW ca, NEW S, ListIs(ca, S), NEW p \in Pages, p \notin S
    PROVE  ListIs(cache_add_slab(ca, p), S \cup {p})
  <1>1. /\ ca.slabs \in Seq(Pages) /\ ca.slab_count \in Nat /\ IsInjective(ca.slabs)
        /\ ca.slab_count = Len(ca.slabs) /\ Range(ca.slabs) = S
    BY ZenonT(30) DEF ListIs
  <1>2. PICK s : s = Pushed(ca.slabs, p)
    BY Zenon
  <1>3. s \in Seq(Pages) /\ Len(s) = Len(ca.slabs) + 1 /\ Range(s) = S \cup {p} /\ IsInjective(s)
    <2>1. PICK l \in Seq(Pages) : l = ca.slabs
      BY <1>1, Zenon
    <2>2. IsInjective(l) /\ p \notin Range(l) /\ Range(l) = S
      BY <1>1, <2>1, Zenon
    <2>3. /\ Pushed(l, p) \in Seq(Pages) /\ Len(Pushed(l, p)) = Len(l) + 1
          /\ Range(Pushed(l, p)) = Range(l) \cup {p} /\ IsInjective(Pushed(l, p))
      BY <2>2, PushList, ZenonT(30)
    <2>4. QED
      BY <1>2, <2>1, <2>2, <2>3, Zenon
  <1>4. cache_add_slab(ca, p) = [slabs |-> s, slab_count |-> ca.slab_count + 1]
    BY <1>2, Zenon DEF cache_add_slab
  <1>5. QED
    BY <1>1, <1>3, <1>4, SMTT(30) DEF ListIs

LEMMA RemoveFromList ==
    ASSUME NEW ca, NEW S, ListIs(ca, S), NEW p \in Pages
    PROVE  ListIs(cache_remove_slab(ca, p), S \ {p})
  <1>1. /\ ca.slabs \in Seq(Pages) /\ ca.slab_count \in Nat /\ IsInjective(ca.slabs)
        /\ ca.slab_count = Len(ca.slabs) /\ Range(ca.slabs) = S
    BY Zenon DEF ListIs
  <1>2. CASE p \notin S
    <2>1. S \ {p} = S /\ cache_remove_slab(ca, p) = ca
      BY <1>1, <1>2, Zenon DEF cache_remove_slab
    <2>2. QED
      BY <2>1, Zenon
  <1>3. CASE p \in S
    <2>1. PICK n : n = PlaceOf(ca.slabs, p)
      BY Zenon
    <2>2. n \in 1 .. Len(ca.slabs) /\ ca.slabs[n] = p
      BY <1>1, <1>3, <2>1, PlaceList, Zenon
    <2>3. PICK s : s = Unlinked(ca.slabs, n)
      BY Zenon
    <2>4. /\ s \in Seq(Pages) /\ Len(s) = Len(ca.slabs) - 1 /\ IsInjective(s)
          /\ Range(s) = Range(ca.slabs) \ {ca.slabs[n]}
      BY <1>1, <2>2, <2>3, DropList, Zenon
    <2>5. ca.slab_count > 0 /\ ca.slab_count - 1 \in Nat
      BY <1>1, <2>2, SMTT(30)
    <2>6. cache_remove_slab(ca, p) = [slabs |-> s, slab_count |-> ca.slab_count - 1]
      BY <1>1, <1>3, <2>1, <2>3, <2>5, Zenon DEF cache_remove_slab
    <2>7. QED
      BY <1>1, <2>2, <2>4, <2>5, <2>6, SMTT(30) DEF ListIs
  <1>4. QED
    BY <1>2, <1>3, Zenon

-----------------------------------------------------------------------------
\* A step that touches only page p, which is or becomes one of cache c.
Touches(p, c) ==
    /\ \A q \in Pages \ {p} : slab'[q] = slab[q] /\ (q \in dying' <=> q \in dying)
    /\ \A o \in Objects : o[1] # p => (o \in DOMAIN live' <=> o \in DOMAIN live)
    /\ slab[p].magic => slab[p].cache = c
    /\ slab'[p].magic => slab'[p].cache = c
    /\ \A d \in Caches \ {c} : caches'[d] = caches[d]

LEMMA OtherPage ==
    ASSUME HeapOk, HeapTypes', NEW p \in Pages, NEW c, Touches(p, c), NEW q \in Pages \ {p}
    PROVE  PageOk(q)'
  <1>1. PageOk(q) /\ slab'[q] = slab[q] /\ (q \in dying' <=> q \in dying)
    BY Zenon DEF HeapOk, Touches
  <1>2. In(q)' = In(q)
    <2>1. DOMAIN live \subseteq Objects /\ DOMAIN live' \subseteq Objects
      BY Zenon DEF HeapOk, HeapTypes
    <2>2. ASSUME NEW o
          PROVE  o \in In(q)' <=> o \in In(q)
      BY <2>1, Zenon DEF In, Touches
    <2>3. QED
      BY <2>2, Zenon
  <1>3. QED
    BY <1>1, <1>2, Zenon DEF PageOk

LEMMA OtherCached ==
    ASSUME NEW p \in Pages, NEW c, Touches(p, c), NEW d \in Caches, NEW q \in Pages, q # p \/ d # c
    PROVE  q \in Cached(d)' <=> q \in Cached(d)
  <1>1. CASE q # p
    <2>1. slab'[q] = slab[q] /\ (q \in dying' <=> q \in dying)
      BY <1>1, Zenon DEF Touches
    <2>2. QED
      BY <2>1, Zenon DEF Cached
  <1>2. CASE q = p /\ d # c
    BY <1>2, Zenon DEF Cached, Touches
  <1>3. QED
    BY <1>1, <1>2, Zenon

LEMMA OtherCache ==
    ASSUME HeapOk, NEW p \in Pages, NEW c, Touches(p, c), NEW d \in Caches \ {c}
    PROVE  CacheOk(d)'
  <1>1. CacheOk(d) /\ caches'[d] = caches[d]
    BY Zenon DEF HeapOk, Touches
  <1>2. \A q \in Pages : q \in Cached(d)' <=> q \in Cached(d)
    BY OtherCached, Zenon
  <1>3. \A q \in Cached(d) : q \in Pages /\ slab'[q] = slab[q]
    BY Zenon DEF Cached, Touches
  <1>4. \A q \in Cached(d)' : q \in Pages
    BY Zenon DEF Cached
  <1>5. Listed(d)' = Listed(d)
    <2>1. ASSUME NEW q
          PROVE  q \in Listed(d)' <=> q \in Listed(d)
      BY <1>2, <1>3, <1>4, Zenon DEF Listed
    <2>2. QED
      BY <2>1, Zenon
  <1>6. \A q, r \in Cached(d)' : Empty(q)' /\ Empty(r)' => q = r
    <2>1. SUFFICES ASSUME NEW q \in Cached(d)', NEW r \in Cached(d)', Empty(q)', Empty(r)'
                   PROVE  q = r
      BY Zenon
    <2>2. q \in Cached(d) /\ r \in Cached(d)
      BY <1>2, <1>4, Zenon
    <2>3. Empty(q) /\ Empty(r)
      BY <1>3, <2>1, <2>2, Zenon DEF Empty
    <2>4. QED
      BY <1>1, <2>2, <2>3, Zenon DEF CacheOk
  <1>7. QED
    BY <1>1, <1>5, <1>6, Zenon DEF CacheOk

\* So only page p and cache c need a closer look.
LEMMA OnePage ==
    ASSUME HeapOk, NEW p \in Pages, NEW c, Touches(p, c),
           HeapTypes', PagesOk', PageOk(p)', c \in Caches => CacheOk(c)'
    PROVE  HeapOk'
  <1>1. \A q \in Pages : PageOk(q)'
    BY OtherPage, Zenon
  <1>2. \A d \in Caches : CacheOk(d)'
    BY OtherCache, Zenon
  <1>3. QED
    BY <1>1, <1>2, Zenon DEF HeapOk

\* S is what cache c has to list when page p has changed.
Relists(p, c, S) ==
    /\ S \subseteq Pages /\ \A q \in Pages \ {p} : q \in S <=> q \in Listed(c)
    /\ p \in S <=> p \in Listed(c)'
    /\ p \in Cached(c)' /\ Empty(p)' => \A q \in Cached(c) \ {p} : ~Empty(q)

LEMMA OneCache ==
    ASSUME HeapOk, NEW p \in Pages, NEW c \in Caches, Touches(p, c),
           NEW S, ListIs(caches'[c], S), Relists(p, c, S)
    PROVE  CacheOk(c)'
  <1>1. /\ S \subseteq Pages /\ \A q \in Pages \ {p} : q \in S <=> q \in Listed(c)
        /\ p \in S <=> p \in Listed(c)'
        /\ p \in Cached(c)' /\ Empty(p)' => \A q \in Cached(c) \ {p} : ~Empty(q)
        /\ CacheOk(c)
    BY Zenon DEF HeapOk, Relists
  <1>2. ASSUME NEW q \in Pages \ {p}
        PROVE  q \in Cached(c)' <=> q \in Cached(c)
    BY OtherCached, ZenonT(30)
  <1>3. \A q \in Pages \ {p} : slab'[q] = slab[q]
    BY Zenon DEF Touches
  <1>4. \A q \in Cached(c)' : q \in Pages
    BY Zenon DEF Cached
  <1>5. Listed(c)' = S
    <2>1. ASSUME NEW q \in Pages \ {p}
          PROVE  q \in Listed(c)' <=> q \in Listed(c)
      BY <1>2, <1>3, Zenon DEF Listed
    <2>2. \A q \in Listed(c)' : q \in Pages
      BY <1>4, Zenon DEF Listed
    <2>3. ASSUME NEW q
          PROVE  q \in Listed(c)' <=> q \in S
      <3>1. CASE q = p
        BY <1>1, <3>1, Zenon
      <3>2. CASE q # p
        BY <1>1, <2>1, <2>2, <3>2, Zenon
      <3>3. QED
        BY <3>1, <3>2, Zenon
    <2>4. QED
      BY <2>3, Zenon
  <1>6. ASSUME NEW q \in Cached(c)', q # p
        PROVE  q \in Cached(c) /\ (Empty(q)' <=> Empty(q))
    <2>1. q \in Pages \ {p}
      BY <1>4, <1>6, Zenon
    <2>2. slab'[q] = slab[q] /\ q \in Cached(c)
      BY <1>2, <1>3, <2>1, Zenon
    <2>3. QED
      BY <2>2, Zenon DEF Empty
  <1>7. \A q, r \in Cached(c)' : Empty(q)' /\ Empty(r)' => q = r
    <2>1. SUFFICES ASSUME NEW q \in Cached(c)', NEW r \in Cached(c)', Empty(q)', Empty(r)', q # r
                   PROVE  FALSE
      BY Zenon
    <2>2. CASE q = p
      BY <1>1, <1>6, <2>1, <2>2, Zenon
    <2>3. CASE r = p
      BY <1>1, <1>6, <2>1, <2>3, Zenon
    <2>4. CASE q # p /\ r # p
      BY <1>1, <1>6, <2>1, <2>4, Zenon DEF CacheOk
    <2>5. QED
      BY <2>2, <2>3, <2>4, Zenon
  <1>8. QED
    BY <1>5, <1>7, Zenon DEF CacheOk

-----------------------------------------------------------------------------
\* The pages the slabs own, when no slab comes or goes...
LEMMA KeepPages ==
    ASSUME PagesOk, used' = used,
           \A q \in Pages : /\ slab'[q].magic <=> slab[q].magic
                            /\ slab[q].magic => slab'[q].npages = slab[q].npages
    PROVE  PagesOk'
  <1>1. \A q \in Slabs : Extent(q)' = Extent(q)
    BY Zenon DEF Slabs, Extent
  <1>2. \A q \in Pages : q \in Slabs' <=> q \in Slabs
    BY Zenon DEF Slabs
  <1>3. \A q \in Slabs' : q \in Pages
    BY Zenon DEF Slabs
  <1>4. \A q \in Pages : \A x : Owns(q, x)' <=> Owns(q, x)
    BY <1>1, <1>2, Zenon DEF Owns
  <1>5. \A q \in Slabs' : Extent(q)' \subseteq Pages
    BY <1>1, <1>2, <1>3, Zenon DEF PagesOk
  <1>6. \A x \in Pages : x \in used' <=> \E q \in Pages : Owns(q, x)'
    BY <1>4, Zenon DEF PagesOk
  <1>7. \A q, r \in Pages : \A x \in Pages : Owns(q, x)' /\ Owns(r, x)' => q = r
    BY <1>4, Zenon DEF PagesOk
  <1>8. QED
    BY <1>5, <1>6, <1>7, Zenon DEF PagesOk

\* ...when one gets pages that are free...
LEMMA NewPages ==
    ASSUME PagesOk, NEW p \in Pages, NEW run, p \in run, run \subseteq Pages \ used,
           slab'[p].magic, Extent(p)' = run, ~slab[p].magic,
           \A q \in Pages \ {p} : slab'[q] = slab[q],
           used' = used \cup run
    PROVE  PagesOk'
  <1>1. \A q \in Pages \ {p} : (q \in Slabs' <=> q \in Slabs) /\ Extent(q)' = Extent(q)
    BY Zenon DEF Slabs, Extent
  <1>2. p \in Slabs' /\ p \notin Slabs
    BY Zenon DEF Slabs
  <1>3. \A q \in Slabs' : q \in Pages
    BY Zenon DEF Slabs
  <1>4. \A q \in Pages \ {p} : \A x : Owns(q, x)' <=> Owns(q, x)
    BY <1>1, Zenon DEF Owns
  <1>5. \A x : (Owns(p, x)' <=> x \in run) /\ ~Owns(p, x)
    BY <1>2, Zenon DEF Owns
  <1>6. ASSUME NEW x \in Pages, NEW q \in Pages, Owns(q, x)
        PROVE  x \in used /\ x \notin run
    BY <1>6, Zenon DEF PagesOk
  <1>7. \A q \in Slabs' : Extent(q)' \subseteq Pages
    <2>1. run \subseteq Pages
      BY Zenon
    <2>2. ASSUME NEW q \in Slabs'
          PROVE  Extent(q)' \subseteq Pages
      <3>1. CASE q = p
        BY <2>1, <3>1, Zenon
      <3>2. CASE q # p
        <4>1. q \in Slabs /\ Extent(q)' = Extent(q)
          BY <1>1, <1>3, <3>2, Zenon
        <4>2. Extent(q) \subseteq Pages
          BY <4>1, Zenon DEF PagesOk
        <4>3. QED
          BY <4>1, <4>2, Zenon
      <3>3. QED
        BY <3>1, <3>2, Zenon
    <2>3. QED
      BY <2>2, Zenon
  <1>8. \A x \in Pages : x \in used' <=> \E q \in Pages : Owns(q, x)'
    <2>1. SUFFICES ASSUME NEW x \in Pages
                   PROVE  x \in used' <=> \E q \in Pages : Owns(q, x)'
      BY Zenon
    <2>2. x \in used' <=> x \in used \/ x \in run
      BY Zenon
    <2>3. x \in used <=> \E q \in Pages : Owns(q, x)
      BY Zenon DEF PagesOk
    <2>4. QED
      BY <1>4, <1>5, <2>2, <2>3, ZenonT(30)
  <1>9. \A q, r \in Pages : \A x \in Pages : Owns(q, x)' /\ Owns(r, x)' => q = r
    <2>1. SUFFICES ASSUME NEW q \in Pages, NEW r \in Pages, NEW x \in Pages, Owns(q, x)', Owns(r, x)'
                   PROVE  q = r
      BY Zenon
    <2>2. CASE q = p
      BY <1>4, <1>5, <1>6, <2>1, <2>2, Zenon
    <2>3. CASE r = p
      BY <1>4, <1>5, <1>6, <2>1, <2>3, Zenon
    <2>4. CASE q # p /\ r # p
      BY <1>4, <2>1, <2>4, Zenon DEF PagesOk
    <2>5. QED
      BY <2>2, <2>3, <2>4, Zenon
  <1>10. QED
    BY <1>7, <1>8, <1>9, Zenon DEF PagesOk

\* ...and when one gives its pages back.
LEMMA FreePages ==
    ASSUME PagesOk, NEW p \in Slabs, ~slab'[p].magic,
           \A q \in Pages \ {p} : slab'[q] = slab[q],
           used' = used \ Extent(p)
    PROVE  PagesOk'
  <1>1. \A q \in Pages \ {p} : (q \in Slabs' <=> q \in Slabs) /\ Extent(q)' = Extent(q)
    BY Zenon DEF Slabs, Extent
  <1>2. p \in Pages /\ p \notin Slabs'
    BY Zenon DEF Slabs
  <1>3. \A q \in Slabs' : q \in Pages /\ q # p
    BY <1>2, Zenon DEF Slabs
  <1>4. \A q \in Pages \ {p} : \A x : Owns(q, x)' <=> Owns(q, x)
    BY <1>1, Zenon DEF Owns
  <1>5. \A x : (Owns(p, x) <=> x \in Extent(p)) /\ ~Owns(p, x)'
    BY <1>2, Zenon DEF Owns
  <1>6. \A q \in Slabs' : Extent(q)' \subseteq Pages
    BY <1>1, <1>3, Zenon DEF PagesOk
  <1>7. \A x \in Pages : x \in used' <=> \E q \in Pages : Owns(q, x)'
    <2>1. SUFFICES ASSUME NEW x \in Pages
                   PROVE  x \in used' <=> \E q \in Pages : Owns(q, x)'
      BY Zenon
    <2>2. x \in used' <=> x \in used /\ ~Owns(p, x)
      BY <1>5, Zenon
    <2>3. /\ x \in used <=> \E q \in Pages : Owns(q, x)
          /\ \A q, r \in Pages : Owns(q, x) /\ Owns(r, x) => q = r
      BY Zenon DEF PagesOk
    <2>4. QED
      BY <1>2, <1>4, <1>5, <2>2, <2>3, Zenon
  <1>8. \A q, r \in Pages : \A x \in Pages : Owns(q, x)' /\ Owns(r, x)' => q = r
    BY <1>4, <1>5, Zenon DEF PagesOk
  <1>9. QED
    BY <1>6, <1>7, <1>8, Zenon DEF PagesOk

\* A page that is free is no slab.
LEMMA FreeIsNoSlab ==
    ASSUME HeapOk, NEW p \in Pages \ used
    PROVE  ~slab[p].magic /\ In(p) = {}
  <1>1. ~slab[p].magic
    <2>1. SUFFICES ASSUME slab[p].magic
                   PROVE  FALSE
      BY Zenon
    <2>2. slab[p].npages \in Nat \ {0}
      BY <2>1, SlabTypes, HeaderTypes, Zenon DEF HeapOk
    <2>3. p \in Extent(p)
      BY <2>2, SMTT(30) DEF Extent, Pages
    <2>4. Owns(p, p)
      BY <2>1, <2>3, Zenon DEF Owns, Slabs
    <2>5. QED
      BY <2>4, Zenon DEF HeapOk, PagesOk
  <1>2. QED
    BY <1>1, Zenon DEF HeapOk, PageOk

-----------------------------------------------------------------------------
\* kmalloc takes the first object of the slab at p: an old one, or one that was
\* just created and put on the list.
Takes(p, c, h, ca) ==
    /\ slab' = [slab EXCEPT ![p] = With(h, Tail(h.free_list), h.free_count - 1)]
    /\ caches' = [caches EXCEPT ![c] = IF h.free_count - 1 = 0 THEN cache_remove_slab(ca, p) ELSE ca]
    /\ DOMAIN live' = DOMAIN live \cup {Head(h.free_list)}
    /\ dying' = dying

Took(p, c, obj) ==
    /\ HeapOk' /\ obj[1] = p /\ obj \in Objects \ DOMAIN live
    /\ slab'[p].object_size = cache_sizes[c] /\ slab'[p].cache = c /\ slab'[p].npages = 1
    /\ \A q \in Pages \ {p} : slab'[q] = slab[q]

LEMMA TakeStep ==
    ASSUME HeapOk, NEW p \in Pages \ dying, NEW c \in Caches,
           slab[p].magic => slab[p].cache = c,
           NEW h \in Headers, h.cache = c, SmallOk(p, h, In(p)), h.free_list # << >>,
           NEW ca, ListIs(ca, Listed(c) \cup {p}),
           Takes(p, c, h, ca), used' \subseteq Pages, PagesOk'
    PROVE  Took(p, c, Head(h.free_list))
  <1>1. PICK s : s = h.free_list
    BY Zenon
  <1>2. PICK t : t = Tail(s)
    BY Zenon
  <1>3. PICK obj : obj = Head(s)
    BY Zenon
  <1>4. /\ s \in Seq(Objects) /\ s # << >> /\ IsInjective(s) /\ h.free_count = Len(s)
        /\ Range(s) \subseteq Slots(p, c) /\ In(p) \subseteq Slots(p, c) \ Range(s)
        /\ h.capacity = Capacity(c) /\ h.object_size = cache_sizes[c] /\ h.npages = 1
    BY <1>1, HeaderTypes, Zenon DEF SmallOk
  <1>5. /\ t \in Seq(Objects) /\ Len(t) = Len(s) - 1 /\ obj \in Range(s)
        /\ Range(t) \subseteq Range(s) /\ IsInjective(t) /\ obj \notin Range(t)
    <2>1. /\ Tail(s) \in Seq(Objects) /\ Len(Tail(s)) = Len(s) - 1 /\ Head(s) \in Range(s)
          /\ Range(s) = Range(Tail(s)) \cup {Head(s)}
          /\ IsInjective(Tail(s)) /\ Head(s) \notin Range(Tail(s))
      BY <1>4, TailList, Zenon
    <2>2. Range(Tail(s)) \subseteq Range(s)
      BY <2>1, Zenon
    <2>3. QED
      BY <1>2, <1>3, <2>1, <2>2, Zenon
  <1>6. Len(t) \in Nat /\ Len(s) \in Nat /\ (Len(t) = 0 <=> t = << >>)
    BY <1>4, <1>5, SMTT(30)
  <1>7. PICK g : g = With(h, t, Len(t))
    BY Zenon
  <1>8. /\ g \in Headers /\ g.magic /\ g.free_list = t /\ g.free_count = Len(t)
        /\ g.object_size = cache_sizes[c] /\ g.cache = c /\ g.npages = 1 /\ g.capacity = Capacity(c)
    <2>1. IsWith(g, h, t, Len(t))
      BY <1>5, <1>6, <1>7, HeaderWith, Zenon
    <2>2. QED
      BY <1>4, <2>1, Zenon DEF IsWith
  <1>9. slab' = [slab EXCEPT ![p] = g]
    BY <1>1, <1>2, <1>4, <1>5, <1>7, Zenon DEF Takes
  <1>10. caches' = [caches EXCEPT ![c] = IF Len(t) = 0 THEN cache_remove_slab(ca, p) ELSE ca]
    BY <1>1, <1>4, <1>5, Zenon DEF Takes
  <1>11. DOMAIN live' = DOMAIN live \cup {obj} /\ dying' = dying
    BY <1>1, <1>3, Zenon DEF Takes
  <1>12. /\ slab' \in [Pages -> Headers \cup {NoSlab}] /\ slab'[p] = g
         /\ \A q \in Pages \ {p} : slab'[q] = slab[q]
    BY <1>8, <1>9, Zenon DEF HeapOk, HeapTypes
  <1>13. obj \in Slots(p, c) /\ obj \in Objects /\ obj[1] = p
    <2>1. obj \in Slots(p, c)
      BY <1>4, <1>5, Zenon
    <2>2. obj[1] = p
      BY <2>1, SMTT(30) DEF Slots, ObjAt
    <2>3. QED
      BY <2>1, <2>2, NewList, Zenon
  <1>14. obj \notin DOMAIN live
    BY <1>4, <1>5, <1>13, Zenon DEF In
  <1>15. PICK S : S = IF Len(t) = 0 THEN (Listed(c) \cup {p}) \ {p} ELSE Listed(c) \cup {p}
    BY Zenon
  <1>16. PICK new : new = IF Len(t) = 0 THEN cache_remove_slab(ca, p) ELSE ca
    BY Zenon
  <1>17. ListIs(new, S)
    BY <1>15, <1>16, RemoveFromList, Zenon
  <1>18. /\ caches' \in [Caches -> [slabs : Seq(Pages), slab_count : Nat]] /\ caches'[c] = new
         /\ \A d \in Caches \ {c} : caches'[d] = caches[d]
    <2>1. new \in [slabs : Seq(Pages), slab_count : Nat]
      BY <1>17, Zenon DEF ListIs
    <2>2. caches \in [Caches -> [slabs : Seq(Pages), slab_count : Nat]] /\ caches' = [caches EXCEPT ![c] = new]
      BY <1>10, <1>16, Zenon DEF HeapOk, HeapTypes
    <2>3. QED
      BY <2>1, <2>2, Zenon
  <1>19. HeapTypes'
    <2>1. DOMAIN live' \subseteq Objects /\ dying' \subseteq Pages
      BY <1>11, <1>13, Zenon DEF HeapOk, HeapTypes
    <2>2. QED
      BY <1>12, <1>18, <2>1, Zenon DEF HeapTypes
  <1>20. Touches(p, c)
    <2>1. \A o \in Objects : o[1] # p => (o \in DOMAIN live' <=> o \in DOMAIN live)
      BY <1>11, <1>13, Zenon
    <2>2. QED
      BY <1>8, <1>11, <1>12, <1>18, <2>1, Zenon DEF Touches
  <1>21. PageOk(p)'
    <2>1. In(p)' = In(p) \cup {obj}
      <3>1. ASSUME NEW o PROVE o \in In(p)' <=> o \in In(p) \/ o = obj
        BY <1>11, <1>13, Zenon DEF In
      <3>2. QED
        BY <3>1, Zenon
    <2>2. In(p) \cup {obj} \subseteq Slots(p, c) \ Range(t)
      BY <1>4, <1>5, <1>13, Zenon
    <2>3. SmallOk(p, g, In(p)')
      <3>1. Range(t) \subseteq Slots(p, c)
        BY <1>4, <1>5, Zenon
      <3>2. QED
        BY <1>5, <1>8, <2>1, <2>2, <3>1, Zenon DEF SmallOk
    <2>4. SlabOk(p, slab'[p], In(p)')
      BY <1>8, <1>12, <2>3, NoBigCache, Zenon DEF SlabOk
    <2>5. slab'[p].magic /\ p \notin dying'
      BY <1>8, <1>11, <1>12, Zenon
    <2>6. QED
      BY <2>4, <2>5, Zenon DEF PageOk
  <1>22. CacheOk(c)'
    <2>1. S \subseteq Pages /\ \A q \in Pages \ {p} : q \in S <=> q \in Listed(c)
      BY <1>15, Zenon DEF Listed, Cached
    <2>2. p \in Cached(c)'
      BY <1>8, <1>11, <1>12, Zenon DEF Cached
    <2>3. p \in Listed(c)' <=> t # << >>
      BY <1>8, <1>12, <2>2, Zenon DEF Listed
    <2>4. p \in S <=> p \in Listed(c)'
      BY <1>6, <1>15, <2>3, Zenon
    <2>5. ~Empty(p)'
      <3>1. Len(s) <= Capacity(c) /\ Capacity(c) \in Nat
        BY <1>4, FreeFits, SlotsFit, Zenon
      <3>2. Len(t) # Capacity(c)
        BY <1>5, <1>6, <3>1, SMTT(30)
      <3>3. QED
        BY <1>8, <1>12, <3>2, Zenon DEF Empty
    <2>6. p \in Pages /\ Relists(p, c, S) /\ ListIs(caches'[c], S)
      BY <1>17, <1>18, <2>1, <2>4, <2>5, Zenon DEF Relists
    <2>7. QED
      BY <1>20, <2>6, OneCache, Zenon
  <1>23. HeapOk'
    BY <1>19, <1>20, <1>21, <1>22, OnePage, Zenon
  <1>24. QED
    BY <1>1, <1>3, <1>8, <1>12, <1>13, <1>14, <1>23, Zenon DEF Took

-----------------------------------------------------------------------------
\* What a call that allocates does to the allocator, whatever it notes of the
\* new object, and what it must leave alone.
Applies(r) == /\ slab' = r.slab /\ caches' = r.caches /\ used' = r.used
              /\ DOMAIN live' = DOMAIN live \cup {r.obj} /\ dying' = dying
SameShape == \A o \in DOMAIN live : /\ slab'[o[1]].object_size = slab[o[1]].object_size
                                    /\ slab'[o[1]].cache = slab[o[1]].cache
                                    /\ slab'[o[1]].npages = slab[o[1]].npages
Allocated(obj, size) == /\ HeapOk' /\ obj \in Objects \ DOMAIN live /\ SameShape
                        /\ Fits(size, slab'[obj[1]])

TakesFrom(obj, p, c, h, ca, us) == Takes(p, c, h, ca) /\ used' = us /\ obj = Head(h.free_list)
LEMMA TakeIs ==
    ASSUME NEW p, NEW c, NEW h \in Headers, NEW ca, NEW us,
           h.free_list # << >>, h.free_count = Len(h.free_list),
           Applies(TakeObject(c, p, h, ca, us))
    PROVE  TakesFrom(TakeObject(c, p, h, ca, us).obj, p, c, h, ca, us)
  <1> DEFINE r == TakeObject(c, p, h, ca, us)
  <1>1. h.free_list \in Seq(Objects)
    BY HeaderTypes, Zenon
  <1>2. h.free_count > 0
    BY <1>1, SMTT(30)
  <1>3. PICK sl : sl = [slab EXCEPT ![p] = With(h, Tail(h.free_list), h.free_count - 1)]
    BY Zenon
  <1>4. PICK cs : cs = [caches EXCEPT ![c] = IF h.free_count - 1 = 0 THEN cache_remove_slab(ca, p) ELSE ca]
    BY Zenon
  <1>5. r = Outcome(Head(h.free_list), sl, cs, us)
    BY <1>2, <1>3, <1>4, Zenon DEF TakeObject, With, Exhausted
  <1> HIDE DEF r
  <1>6. r.obj = Head(h.free_list) /\ r.slab = sl /\ r.caches = cs /\ r.used = us
    BY <1>5, ZenonT(30) DEF Outcome
  <1>7. Applies(r)
    BY Zenon DEF r
  <1>8. TakesFrom(r.obj, p, c, h, ca, us)
    BY <1>3, <1>4, <1>6, <1>7, Zenon DEF Takes, TakesFrom, Applies
  <1>9. QED
    BY <1>8, Zenon DEF r

\* A slab on the list of a cache is as that cache has it.
LEMMA ListedSlab ==
    ASSUME HeapOk, NEW c \in Caches, NEW p \in Cached(c)
    PROVE  p \in Pages \ dying /\ slab[p].magic /\ slab[p] \in Headers /\ slab[p].cache = c
           /\ SmallOk(p, slab[p], In(p))
  <1>1. p \in Pages \ dying /\ slab[p].magic /\ slab[p].cache = c
    BY Zenon DEF Cached
  <1>2. slab[p] \in Headers
    BY <1>1, SlabTypes, Zenon DEF HeapOk
  <1>3. SlabOk(p, slab[p], In(p))
    BY <1>1, Zenon DEF HeapOk, PageOk
  <1>4. QED
    BY <1>1, <1>2, <1>3, NoBigCache, Zenon DEF SlabOk

LEMMA FirstListed ==
    ASSUME HeapOk, NEW c \in Caches, WithFree(c) # {}
    PROVE  First(c) \in Listed(c)
  <1>1. /\ caches[c].slabs \in Seq(Pages) /\ Range(caches[c].slabs) = Listed(c)
    <2>1. ListIs(caches[c], Listed(c))
      BY Zenon DEF HeapOk, CacheOk
    <2>2. QED
      BY <2>1, ZenonT(30) DEF ListIs
  <1>2. WithFree(c) \in SUBSET Nat
    <2>1. DOMAIN caches[c].slabs \subseteq Nat
      BY <1>1, SMTT(30)
    <2>2. QED
      BY <2>1, Zenon DEF WithFree
  <1>3. \E n \in WithFree(c) : \A m \in WithFree(c) : n <= m
    BY <1>2, Least, Zenon
  <1>4. PICK n : n = CHOOSE k \in WithFree(c) : \A m \in WithFree(c) : k <= m
    BY Zenon
  <1>5. n \in WithFree(c) /\ First(c) = caches[c].slabs[n]
    BY <1>3, <1>4, Zenon DEF First
  <1>6. caches[c].slabs[n] \in Range(caches[c].slabs)
    BY <1>5, Zenon DEF Range, WithFree
  <1>7. QED
    BY <1>1, <1>5, <1>6, Zenon

LEMMA FromSlab ==
    ASSUME HeapOk, NEW c \in Caches, NEW p \in Listed(c), NEW r,
           r = TakeObject(c, p, slab[p], caches[c], used), Applies(r),
           NEW size, size <= cache_sizes[c]
    PROVE  Allocated(r.obj, size)
  <1>1. /\ p \in Pages \ dying /\ slab[p].magic /\ slab[p] \in Headers /\ slab[p].cache = c
        /\ SmallOk(p, slab[p], In(p)) /\ slab[p].free_list # << >>
    BY ListedSlab, Zenon DEF Listed
  <1>2. PICK h : h = slab[p]
    BY Zenon
  <1>3. /\ h \in Headers /\ h.cache = c /\ SmallOk(p, h, In(p)) /\ h.free_list # << >>
        /\ h.free_count = Len(h.free_list) /\ h.npages = 1 /\ h.object_size = cache_sizes[c]
    BY <1>1, <1>2, Zenon DEF SmallOk
  <1>4. Takes(p, c, h, caches[c]) /\ used' = used /\ r.obj = Head(h.free_list)
    <2>1. r = TakeObject(c, p, h, caches[c], used)
      BY <1>2, Zenon
    <2>2. Applies(TakeObject(c, p, h, caches[c], used))
      BY <2>1, Zenon
    <2>3. TakesFrom(TakeObject(c, p, h, caches[c], used).obj, p, c, h, caches[c], used)
      BY <1>3, <2>2, TakeIs, Zenon
    <2>4. QED
      BY <2>1, <2>3, Zenon DEF TakesFrom
  <1>5. ListIs(caches[c], Listed(c) \cup {p})
    <2>1. Listed(c) \cup {p} = Listed(c)
      BY Zenon
    <2>2. QED
      BY <2>1, Zenon DEF HeapOk, CacheOk
  <1>6. PagesOk'
    <2>1. PICK g : g = With(h, Tail(h.free_list), h.free_count - 1)
      BY Zenon
    <2>2. h.free_count - 1 \in Nat /\ Tail(h.free_list) \in Seq(Objects)
      <3>1. h.free_list \in Seq(Objects) /\ h.free_list # << >>
        BY <1>3, HeaderTypes, Zenon
      <3>2. QED
        BY <1>3, <3>1, SMTT(30)
    <2>3. g.magic /\ g.npages = h.npages
      <3>1. IsWith(g, h, Tail(h.free_list), h.free_count - 1)
        BY <1>3, <2>1, <2>2, HeaderWith, Zenon
      <3>2. QED
        BY <3>1, Zenon DEF IsWith
    <2>4. slab' = [slab EXCEPT ![p] = g] /\ slab \in [Pages -> Headers \cup {NoSlab}]
      BY <1>4, <2>1, Zenon DEF Takes, HeapOk, HeapTypes
    <2>5. slab'[p] = g /\ \A q \in Pages \ {p} : slab'[q] = slab[q]
      BY <1>1, <2>4, Zenon
    <2>6. ASSUME NEW q \in Pages
          PROVE  /\ slab'[q].magic <=> slab[q].magic
                 /\ slab[q].magic => slab'[q].npages = slab[q].npages
      BY <1>1, <1>2, <2>3, <2>5, Zenon
    <2>7. PagesOk
      BY Zenon DEF HeapOk
    <2>8. QED
      BY <1>4, <2>6, <2>7, KeepPages, Zenon
  <1>7. used' \subseteq Pages
    BY <1>4, Zenon DEF HeapOk, HeapTypes
  <1>8. /\ HeapOk' /\ r.obj[1] = p /\ r.obj \in Objects \ DOMAIN live
        /\ slab'[p].object_size = cache_sizes[c] /\ slab'[p].cache = c /\ slab'[p].npages = 1
        /\ \A q \in Pages \ {p} : slab'[q] = slab[q]
    <2>1. Took(p, c, Head(h.free_list))
      BY <1>1, <1>3, <1>4, <1>5, <1>6, <1>7, TakeStep, Zenon
    <2>2. QED
      BY <1>4, <2>1, Zenon DEF Took
  <1>9. SameShape
    <2>1. ASSUME NEW o \in DOMAIN live
          PROVE  o[1] \in Pages
      BY ZenonT(30) DEF HeapOk, HeapTypes, Objects
    <2>2. QED
      BY <1>2, <1>3, <1>8, <2>1, ZenonT(30) DEF SameShape
  <1>10. Fits(size, slab'[r.obj[1]])
    BY <1>8, Zenon DEF Fits
  <1>11. QED
    BY <1>8, <1>9, <1>10, Zenon DEF Allocated

\* The header that slab_create makes.
Fresh(p, c, h) == /\ h \in Headers /\ h.cache = c /\ SmallOk(p, h, {}) /\ h.free_list # << >>
                  /\ h.free_count = Len(h.free_list) /\ h.npages = 1
LEMMA FreshSlab ==
    ASSUME NEW p \in Pages, NEW c \in Caches
    PROVE  Fresh(p, c, slab_create(p, c))
  <1>1. /\ FullList(p, c) \in Seq(Objects) /\ Len(FullList(p, c)) = Capacity(c)
        /\ IsInjective(FullList(p, c)) /\ Range(FullList(p, c)) = Slots(p, c)
    BY NewList, Zenon
  <1>2. PICK s : s = FullList(p, c)
    BY Zenon
  <1>3. PICK k : k = Capacity(c)
    BY Zenon
  <1>4. PICK z : z = cache_sizes[c]
    BY Zenon
  <1>5. /\ s \in Seq(Objects) /\ Len(s) = k /\ IsInjective(s) /\ Range(s) \subseteq Slots(p, c)
    BY <1>1, <1>2, <1>3, Zenon
  <1>6. k \in Nat \ {0} /\ z \in 1 .. SIZE_CAP
    <2>1. z \in Nat \ {0} /\ k \in Nat \ {0} /\ z <= SIZE_CAP
      BY <1>3, <1>4, SlotsFit, Zenon
    <2>2. QED
      BY <2>1, LayoutAssumption
  <1>7. PICK h : h = [magic |-> TRUE, object_size |-> z, cache |-> c, npages |-> 1,
                      capacity |-> k, free_count |-> k, free_list |-> s]
    BY Zenon
  <1>8. h = slab_create(p, c)
    BY <1>2, <1>3, <1>4, <1>7, Zenon DEF slab_create, FullList
  <1>9. /\ h.cache = c /\ h.free_list = s /\ h.free_count = k /\ h.capacity = k
        /\ h.object_size = z /\ h.npages = 1
    BY <1>7, Zenon
  <1>10. h \in Headers
    BY <1>5, <1>6, <1>7, SMTT(30) DEF Headers
  <1>11. s # << >>
    BY <1>5, <1>6, ZenonT(30)
  <1>12. SmallOk(p, h, {})
    BY <1>3, <1>4, <1>5, <1>9, ZenonT(30) DEF SmallOk
  <1>13. QED
    BY <1>5, <1>8, <1>9, <1>10, <1>11, <1>12, Zenon DEF Fresh

LEMMA FromNewSlab ==
    ASSUME HeapOk, NEW c \in Caches, NEW p \in Pages \ used, NEW r,
           r = TakeObject(c, p, slab_create(p, c), cache_add_slab(caches[c], p), used \cup {p}),
           Applies(r), NEW size, size <= cache_sizes[c]
    PROVE  Allocated(r.obj, size)
  <1>1. ~slab[p].magic /\ In(p) = {} /\ p \in Pages \ dying
    BY FreeIsNoSlab, Zenon DEF HeapOk, PageOk
  <1>2. PICK h : h = slab_create(p, c)
    BY Zenon
  <1>3. /\ h \in Headers /\ h.cache = c /\ SmallOk(p, h, In(p)) /\ h.free_list # << >>
        /\ h.free_count = Len(h.free_list) /\ h.npages = 1
    <2>1. Fresh(p, c, h)
      BY <1>1, <1>2, FreshSlab, Zenon
    <2>2. QED
      BY <1>1, <2>1, Zenon DEF Fresh
  <1>4. PICK ca : ca = cache_add_slab(caches[c], p)
    BY Zenon
  <1>5. ListIs(ca, Listed(c) \cup {p})
    <2>1. p \notin Listed(c) /\ ListIs(caches[c], Listed(c))
      BY <1>1, Zenon DEF Listed, Cached, HeapOk, CacheOk
    <2>2. QED
      BY <1>4, <2>1, AddToList, Zenon
  <1>6. PICK us : us = used \cup {p}
    BY Zenon
  <1>7. r = TakeObject(c, p, h, ca, us)
    BY <1>2, <1>4, <1>6, Zenon
  <1>8. Takes(p, c, h, ca) /\ used' = us /\ r.obj = Head(h.free_list)
    <2>1. Applies(TakeObject(c, p, h, ca, us))
      BY <1>7, Zenon
    <2>2. TakesFrom(TakeObject(c, p, h, ca, us).obj, p, c, h, ca, us)
      BY <1>3, <2>1, TakeIs, Zenon
    <2>3. QED
      BY <1>7, <2>2, Zenon DEF TakesFrom
  <1>9. PagesOk'
    <2>1. PICK g : g = With(h, Tail(h.free_list), h.free_count - 1)
      BY Zenon
    <2>2. h.free_count - 1 \in Nat /\ Tail(h.free_list) \in Seq(Objects)
      <3>1. h.free_list \in Seq(Objects) /\ h.free_list # << >>
        BY <1>3, HeaderTypes, Zenon
      <3>2. QED
        BY <1>3, <3>1, SMTT(30)
    <2>3. g.magic /\ g.npages = 1
      <3>1. IsWith(g, h, Tail(h.free_list), h.free_count - 1)
        BY <1>3, <2>1, <2>2, HeaderWith, Zenon
      <3>2. QED
        BY <1>3, <3>1, Zenon DEF IsWith
    <2>4. slab' = [slab EXCEPT ![p] = g] /\ slab \in [Pages -> Headers \cup {NoSlab}]
      BY <1>8, <2>1, Zenon DEF Takes, HeapOk, HeapTypes
    <2>5. slab'[p] = g /\ \A q \in Pages \ {p} : slab'[q] = slab[q]
      BY <2>4, Zenon
    <2>6. Extent(p)' = {p}
      <3>1. Extent(p)' = p .. p + 1 - 1
        BY <2>3, <2>5, Zenon DEF Extent
      <3>2. p \in Int
        BY DEF Pages
      <3>3. QED
        BY <3>1, <3>2
    <2>7. p \in {p} /\ {p} \subseteq Pages \ used /\ PagesOk /\ slab'[p].magic /\ used' = used \cup {p}
      BY <1>6, <1>8, <2>3, <2>5, Zenon DEF HeapOk
    <2>8. QED
      BY <1>1, <2>5, <2>6, <2>7, NewPages, Zenon
  <1>10. used' \subseteq Pages
    BY <1>6, <1>8, Zenon DEF HeapOk, HeapTypes
  <1>11. /\ HeapOk' /\ r.obj[1] = p /\ r.obj \in Objects \ DOMAIN live
         /\ slab'[p].object_size = cache_sizes[c] /\ slab'[p].cache = c /\ slab'[p].npages = 1
         /\ \A q \in Pages \ {p} : slab'[q] = slab[q]
    <2>1. Took(p, c, Head(h.free_list))
      BY <1>1, <1>3, <1>5, <1>8, <1>9, <1>10, TakeStep, Zenon
    <2>2. QED
      BY <1>8, <2>1, Zenon DEF Took
  <1>12. SameShape
    <2>1. ASSUME NEW o \in DOMAIN live
          PROVE  o[1] \in Pages \ {p}
      <3>1. o[1] \in Pages
        BY ZenonT(30) DEF HeapOk, HeapTypes, Objects
      <3>2. QED
        BY <1>1, <3>1, Zenon DEF In
    <2>2. QED
      BY <1>11, <2>1, Zenon DEF SameShape
  <1>13. Fits(size, slab'[r.obj[1]])
    BY <1>11, Zenon DEF Fits
  <1>14. QED
    BY <1>11, <1>12, <1>13, Zenon DEF Allocated

\* A big object gets a header and pages of its own.
LEMMA BigStep ==
    ASSUME HeapOk, NEW p \in Pages, NEW rounded \in Nat \ {0}, NEW n, n = BigPages(rounded),
           p .. p + n - 1 \subseteq Pages \ used, NEW r,
           r = Outcome(<<p, HEADER>>, [slab EXCEPT ![p] = BigSlab(rounded, n)], caches,
                       used \cup (p .. p + n - 1)),
           Applies(r), NEW size \in Nat, size <= rounded
    PROVE  Allocated(r.obj, size)
  <1>1. n \in Nat \ {0} /\ HEADER + rounded <= n * PAGE_SIZE
    BY BigRoom, Zenon
  <1>2. PICK run : run = p .. p + n - 1
    BY Zenon
  <1>3. p \in run /\ run \subseteq Pages \ used
    <2>1. p \in p .. p + n - 1
      BY <1>1, SMTT(30) DEF Pages
    <2>2. QED
      BY <1>2, <2>1, Zenon
  <1>4. ~slab[p].magic /\ In(p) = {} /\ p \notin dying
    BY <1>3, FreeIsNoSlab, Zenon DEF HeapOk, PageOk
  <1>5. PICK z : z = MinOf(rounded, SIZE_CAP)
    BY Zenon
  <1>6. PICK h : h = BigSlab(rounded, n)
    BY Zenon
  <1>7. h = [magic |-> TRUE, object_size |-> z, cache |-> BIG, npages |-> n,
             capacity |-> 1, free_count |-> 0, free_list |-> << >>]
    BY <1>5, <1>6, Zenon DEF BigSlab
  <1>8. z \in 1 .. SIZE_CAP /\ z <= rounded /\ (z = SIZE_CAP \/ size <= z)
    BY <1>5, LayoutAssumption, SMTT(30) DEF MinOf
  <1>9. /\ h.magic /\ h.object_size = z /\ h.cache = BIG /\ h.npages = n /\ h.free_list = << >>
    BY <1>7, Zenon
  <1>10. h \in Headers
    <2>1. << >> \in Seq(Objects)
      BY SMTT(30)
    <2>2. QED
      BY <1>1, <1>7, <1>8, <2>1, SMTT(30) DEF Headers
  <1>11. /\ slab' = [slab EXCEPT ![p] = h] /\ caches' = caches /\ used' = used \cup run
         /\ DOMAIN live' = DOMAIN live \cup {<<p, HEADER>>} /\ dying' = dying /\ r.obj = <<p, HEADER>>
    <2>1. PICK sl : sl = [slab EXCEPT ![p] = h]
      BY Zenon
    <2>2. PICK us : us = used \cup run
      BY Zenon
    <2>3. PICK obj : obj = <<p, HEADER>>
      BY Zenon
    <2>4. r = Outcome(obj, sl, caches, us)
      BY <1>2, <1>6, <2>1, <2>2, <2>3, ZenonT(30)
    <2>5. r.obj = obj /\ r.slab = sl /\ r.caches = caches /\ r.used = us
      BY <2>4, SMTT(30) DEF Outcome
    <2>6. QED
      BY <2>1, <2>2, <2>3, <2>5, Zenon DEF Applies
  <1>12. /\ slab' \in [Pages -> Headers \cup {NoSlab}] /\ slab'[p] = h
         /\ \A q \in Pages \ {p} : slab'[q] = slab[q]
    BY <1>10, <1>11, Zenon DEF HeapOk, HeapTypes
  <1>13. <<p, HEADER>> \in Objects /\ <<p, HEADER>>[1] = p
    <2>1. HEADER \in 0 .. PAGE_SIZE - 1
      BY LayoutAssumption, SMTT(30)
    <2>2. QED
      BY <2>1, ZenonT(30) DEF Objects
  <1>14. <<p, HEADER>> \notin DOMAIN live
    BY <1>4, <1>13, Zenon DEF In
  <1>15. HeapTypes'
    <2>1. DOMAIN live' \subseteq Objects /\ dying' \subseteq Pages /\ used' \subseteq Pages
      BY <1>3, <1>11, <1>13, Zenon DEF HeapOk, HeapTypes
    <2>2. QED
      BY <1>11, <1>12, <2>1, Zenon DEF HeapOk, HeapTypes
  <1>16. Touches(p, BIG)
    <2>1. \A o \in Objects : o[1] # p => (o \in DOMAIN live' <=> o \in DOMAIN live)
      BY <1>11, <1>13, Zenon
    <2>2. QED
      BY <1>4, <1>9, <1>11, <1>12, <2>1, Zenon DEF Touches
  <1>17. PagesOk'
    <2>1. Extent(p)' = run
      BY <1>2, <1>9, <1>12, Zenon DEF Extent
    <2>2. slab'[p].magic /\ PagesOk /\ used' = used \cup run
      BY <1>9, <1>11, <1>12, Zenon DEF HeapOk
    <2>3. QED
      BY <1>3, <1>4, <1>12, <2>1, <2>2, NewPages, Zenon
  <1>18. PageOk(p)'
    <2>1. In(p)' \subseteq {<<p, HEADER>>}
      BY <1>4, <1>11, Zenon DEF In
    <2>2. HEADER + z <= n * PAGE_SIZE
      <3>1. HEADER \in Nat /\ n * PAGE_SIZE \in Nat
        BY <1>1, LayoutAssumption, SMTT(30)
      <3>2. QED
        BY <1>1, <1>8, <3>1, SMTT(30)
    <2>3. SlabOk(p, slab'[p], In(p)')
      BY <1>9, <1>12, <2>1, <2>2, Zenon DEF SlabOk, BigOk
    <2>4. slab'[p].magic /\ p \notin dying'
      BY <1>4, <1>9, <1>11, <1>12, Zenon
    <2>5. QED
      BY <2>3, <2>4, Zenon DEF PageOk
  <1>19. HeapOk'
    BY <1>15, <1>16, <1>17, <1>18, NoBigCache, OnePage, Zenon
  <1>20. SameShape
    <2>1. ASSUME NEW o \in DOMAIN live
          PROVE  o[1] \in Pages \ {p}
      <3>1. o[1] \in Pages
        BY Zenon DEF HeapOk, HeapTypes, Objects
      <3>2. QED
        BY <1>4, <3>1, Zenon DEF In
    <2>2. QED
      BY <1>12, <2>1, Zenon DEF SameShape
  <1>21. Fits(size, h)
    <2>1. HEADER + size <= n * PAGE_SIZE
      <3>1. HEADER \in Nat /\ n * PAGE_SIZE \in Nat
        BY <1>1, LayoutAssumption
      <3>2. QED
        BY <1>1, <3>1, SMTT(30)
    <2>2. QED
      BY <1>8, <1>9, <2>1, Zenon DEF Fits
  <1>22. r.obj \in Objects \ DOMAIN live /\ r.obj[1] = p
    BY <1>11, <1>13, <1>14, Zenon
  <1>23. Fits(size, slab'[r.obj[1]])
    BY <1>12, <1>21, <1>22, Zenon
  <1>24. QED
    BY <1>19, <1>20, <1>22, <1>23, Zenon DEF Allocated

\* So kmalloc gives out an object that nobody has, in a slab of the right size.
LEMMA AllocStep ==
    ASSUME HeapOk, NEW size \in Sizes, NEW r \in Outcomes(size), Applies(r)
    PROVE  Allocated(r.obj, size)
  <1>1. size \in Nat \ {0} /\ KHEAP_ALIGN \in Nat \ {0}
    BY LayoutAssumption, ZenonT(30)
  <1>2. PICK rounded : rounded = AlignUp(size, KHEAP_ALIGN)
    BY Zenon
  <1>3. rounded \in Nat \ {0} /\ size <= rounded
    <2>1. rounded \in Nat /\ rounded >= size
      BY <1>1, <1>2, Aligned, Zenon
    <2>2. QED
      BY <1>1, <2>1
  <1>4. PICK c : c = cache_for_size(rounded)
    BY Zenon
  <1>5. r \in IF c = BIG THEN BigObject(rounded) ELSE FromCache(c)
    BY <1>2, <1>4, Zenon DEF Outcomes
  <1>6. CASE c = BIG
    <2>1. PICK n : n = BigPages(rounded)
      BY Zenon
    <2>2. r \in BigObject(rounded)
      BY <1>5, <1>6, Zenon
    <2>3. \E p \in {q \in Pages : q .. q + n - 1 \subseteq Pages \ used} :
              r = Outcome(<<p, HEADER>>, [slab EXCEPT ![p] = BigSlab(rounded, n)], caches,
                          used \cup (p .. p + n - 1))
      BY <2>1, <2>2, Zenon DEF BigObject
    <2>4. PICK p \in Pages :
              /\ p .. p + n - 1 \subseteq Pages \ used
              /\ r = Outcome(<<p, HEADER>>, [slab EXCEPT ![p] = BigSlab(rounded, n)], caches,
                             used \cup (p .. p + n - 1))
      BY <2>3, Zenon
    <2>5. QED
      BY <1>1, <1>3, <2>1, <2>4, BigStep, Zenon
  <1>7. CASE c # BIG
    <2>1. c \in Caches /\ rounded <= cache_sizes[c] /\ r \in FromCache(c)
      BY <1>3, <1>4, <1>5, <1>7, CacheFor, Zenon
    <2>2. size <= cache_sizes[c]
      <3>1. cache_sizes[c] \in Nat
        BY <2>1, SlotsFit, Zenon
      <3>2. QED
        BY <1>1, <1>3, <2>1, <3>1
    <2>3. CASE WithFree(c) # {}
      <3>1. PICK p : p = First(c)
        BY Zenon
      <3>2. p \in Listed(c) /\ r = TakeObject(c, p, slab[p], caches[c], used)
        BY <2>1, <2>3, <3>1, FirstListed, Zenon DEF FromCache
      <3>3. QED
        BY <2>1, <2>2, <3>2, FromSlab, Zenon
    <2>4. CASE WithFree(c) = {}
      <3>1. PICK p \in Pages \ used :
               r = TakeObject(c, p, slab_create(p, c), cache_add_slab(caches[c], p), used \cup {p})
        BY <2>1, <2>4, Zenon DEF FromCache
      <3>2. QED
        BY <2>1, <2>2, <3>1, FromNewSlab, Zenon
    <2>5. QED
      BY <2>3, <2>4, Zenon
  <1>8. QED
    BY <1>6, <1>7, Zenon
=============================================================================
