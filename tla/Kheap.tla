------------------------------- MODULE Kheap -------------------------------
(***************************************************************************)
(* The slab allocator (mm/kheap.c).  A cache serves objects of one size    *)
(* from slabs of one page; its list holds the slabs that have a free       *)
(* object.  Requests larger than every cache get pages of their own.       *)
(*                                                                         *)
(* kheap_lock makes kmalloc one step and kfree one step, except that kfree *)
(* returns pages to the page allocator after it has let go of the lock;    *)
(* krealloc calls one after the other.  pmm_alloc_page may return any free *)
(* page, pmm_alloc_pages any run of free pages, and both may fail.         *)
(***************************************************************************)
EXTENDS Lists, FiniteSets

CONSTANTS NPages,        \* pages are numbered 0 .. NPages - 1
          PAGE_SIZE,
          HEADER,        \* sizeof(slab_t)
          KHEAP_ALIGN,
          cache_sizes,   \* the object sizes, in ascending order
          SIZE_CAP,      \* the largest object_size a slab header can hold
          Sizes          \* the request sizes

ASSUME LayoutAssumption ==
    /\ NPages \in Nat /\ {PAGE_SIZE, HEADER, KHEAP_ALIGN, SIZE_CAP} \subseteq Nat \ {0}
    /\ HEADER % KHEAP_ALIGN = 0 /\ HEADER < PAGE_SIZE
    /\ Sizes \subseteq Nat \ {0}
ASSUME CacheAssumption ==
    /\ cache_sizes \in Seq(Nat \ {0})
    /\ \A i, j \in 1 .. Len(cache_sizes) : i < j => cache_sizes[i] < cache_sizes[j]
    /\ \A i \in 1 .. Len(cache_sizes) : /\ cache_sizes[i] % KHEAP_ALIGN = 0
                                        /\ cache_sizes[i] <= PAGE_SIZE - HEADER
                                        /\ cache_sizes[i] <= SIZE_CAP

VARIABLES slab,      \* the header at the start of each page that is a slab
          caches,    \* each cache's list of slabs and its slab_count
          used,      \* the pages the page allocator has handed out
          dying,     \* slabs that a kfree is about to release
          live,      \* ghost: for each object in use, the size that was asked for
                     \* and how many of its leading bytes are what the user wrote
          moving     \* the krealloc calls between kmalloc and kfree

vars == <<slab, caches, used, dying, live, moving>>

Pages == 0 .. NPages - 1
Caches == 1 .. Len(cache_sizes)
BIG == 0                              \* BIG_CACHE_INDEX
NoSlab == [magic |-> FALSE]

AlignUp(n, a) == ((n + a - 1) \div a) * a
MinOf(m, n) == IF m <= n THEN m ELSE n

\* Objects are named by page and offset; a big object starts behind its header.
Capacity(c) == (PAGE_SIZE - HEADER) \div cache_sizes[c]
ObjAt(p, c, i) == <<p, HEADER + i * cache_sizes[c]>>

Init == /\ slab = [p \in Pages |-> NoSlab]
        /\ caches = [c \in Caches |-> [slabs |-> <<>>, slab_count |-> 0]]
        /\ used = {}
        /\ dying = {}
        /\ live = <<>>
        /\ moving = {}

-----------------------------------------------------------------------------
\* (Mutant: an object that only just does not fit the cache below is squeezed in.)
CacheTooSmall(size) ==
    IF \E c \in Caches : size <= cache_sizes[c] THEN 1 ELSE BIG

\* cache_for_size: the first cache whose objects are large enough, or BIG.
cache_for_size(size) ==
    IF \E c \in Caches : size <= cache_sizes[c]
    THEN CHOOSE c \in Caches : size <= cache_sizes[c] /\ \A d \in 1 .. c - 1 : size > cache_sizes[d]
    ELSE BIG

\* slab_create: the free list holds the objects in descending order.
slab_create(p, c) ==
    [magic |-> TRUE, object_size |-> cache_sizes[c], cache |-> c, npages |-> 1,
     capacity |-> Capacity(c), free_count |-> Capacity(c),
     free_list |-> [k \in 1 .. Capacity(c) |-> ObjAt(p, c, Capacity(c) - k)]]

\* The header of a big object: object_size has 16 bits.
BigSlab(size, n) ==
    [magic |-> TRUE, object_size |-> MinOf(size, SIZE_CAP), cache |-> BIG, npages |-> n,
     capacity |-> 1, free_count |-> 0, free_list |-> <<>>]

BigPages(size) == AlignUp(HEADER + KHEAP_ALIGN + size, PAGE_SIZE) \div PAGE_SIZE

Extent(p) == p .. p + slab[p].npages - 1

cache_add_slab(ca, p) == [slabs |-> Pushed(ca.slabs, p), slab_count |-> ca.slab_count + 1]

cache_remove_slab(ca, p) ==
    IF p \in Range(ca.slabs)
    THEN [slabs |-> Unlinked(ca.slabs, PlaceOf(ca.slabs, p)),
          slab_count |-> IF ca.slab_count > 0 THEN ca.slab_count - 1 ELSE 0]
    ELSE ca

\* (Mutant: a slab leaves the list while one object is still free.)
LastObject(left) == left <= 1

\* kmalloc takes a slab off the list with its last object.
Exhausted(left) == left = 0

\* What kmalloc does to the allocator, returning obj.
Outcome(obj, sl, ca, us) == [obj |-> obj, slab |-> sl, caches |-> ca, used |-> us]

\* Take the first object of the slab at p, whose header is hdr and whose cache
\* is ca.
TakeObject(c, p, hdr, ca, us) ==
    LET left == IF hdr.free_count > 0 THEN hdr.free_count - 1 ELSE 0 IN
    Outcome(Head(hdr.free_list),
            [slab EXCEPT ![p] = [hdr EXCEPT !.free_list = Tail(@), !.free_count = left]],
            [caches EXCEPT ![c] = IF Exhausted(left) THEN cache_remove_slab(ca, p) ELSE ca],
            us)

\* Where kmalloc finds a slab with a free object on the list of c.
WithFree(c) == {n \in DOMAIN caches[c].slabs : slab[caches[c].slabs[n]].free_list # <<>>}
First(c) == caches[c].slabs[CHOOSE n \in WithFree(c) : \A m \in WithFree(c) : n <= m]

FromCache(c) ==
    IF WithFree(c) # {}
    THEN {TakeObject(c, First(c), slab[First(c)], caches[c], used)}
    ELSE {TakeObject(c, p, slab_create(p, c), cache_add_slab(caches[c], p), used \cup {p}) :
             p \in Pages \ used}

BigObject(size) ==
    LET n == BigPages(size)
        run(p) == p .. p + n - 1
    IN {Outcome(<<p, HEADER>>, [slab EXCEPT ![p] = BigSlab(size, n)], caches, used \cup run(p)) :
           p \in {q \in Pages : run(q) \subseteq Pages \ used}}

\* The possible outcomes of kmalloc(size); when there is none it returns NULL.
Outcomes(size) ==
    LET rounded == AlignUp(size, KHEAP_ALIGN)
        c == cache_for_size(rounded)
    IN IF c = BIG THEN BigObject(rounded) ELSE FromCache(c)

Apply(r, kept, size) ==
    /\ slab' = r.slab /\ caches' = r.caches /\ used' = r.used
    /\ live' = [o \in DOMAIN live \cup {r.obj} |->
                   IF o = r.obj THEN [size |-> size, kept |-> kept] ELSE live[o]]

Objects == Pages \X (0 .. PAGE_SIZE - 1)
InUse == DOMAIN live \ UNION {{m.old, m.new} : m \in moving}

\* The user writes the whole object it gets.
kmalloc(size) == /\ \E r \in Outcomes(size) : Apply(r, size, size)
                 /\ UNCHANGED <<dying, moving>>

\* An object of which kept bytes survive is resized; the user writes the rest.
Resized(o, kept, size) == [size |-> size, kept |-> IF kept >= MinOf(live[o].size, size)
                                                   THEN size ELSE kept]

-----------------------------------------------------------------------------
\* (Mutant: an empty slab is never given back.)
KeepEmptySlab(hdr, ca) == FALSE

\* kfree gives an empty slab back unless it is the only one on the list.
ReturnsSlab(hdr, ca) == hdr.free_count = hdr.capacity /\ ca.slab_count > 1

\* The part of kfree(obj) under the lock.  A slab of one object was never put
\* back on a list, so it goes straight to slab_destroy.
Release(obj) ==
    LET p == obj[1]
        c == slab[p].cache
        hdr == [slab[p] EXCEPT !.free_list = Pushed(@, obj),
                               !.free_count = IF @ < slab[p].capacity THEN @ + 1 ELSE @]
        ca == IF slab[p].free_count = 0 THEN cache_add_slab(caches[c], p) ELSE caches[c]
    IN IF c = BIG \/ slab[p].capacity = 1
       THEN dying' = dying \cup {p} /\ UNCHANGED <<slab, caches>>
       ELSE /\ slab' = [slab EXCEPT ![p] = hdr]
            /\ IF ReturnsSlab(hdr, ca)
               THEN /\ caches' = [caches EXCEPT ![c] = cache_remove_slab(ca, p)]
                    /\ dying' = dying \cup {p}
               ELSE /\ caches' = [caches EXCEPT ![c] = ca]
                    /\ UNCHANGED dying

\* The users of kfree and krealloc pass what kmalloc returned: the paths for a
\* pointer without a slab are never taken.
kfree(obj) ==
    /\ obj \in InUse
    /\ Release(obj)
    /\ live' = [o \in DOMAIN live \ {obj} |-> live[o]]
    /\ UNCHANGED <<used, moving>>

\* The pages go back in one step; the code releases them one after the other and
\* reads none of them in between.  The header, which the code leaves behind, is
\* not read either: kmalloc writes a new one where it takes a page.
slab_destroy(p) ==
    /\ p \in dying
    /\ used' = used \ Extent(p)
    /\ slab' = [slab EXCEPT ![p] = NoSlab]
    /\ dying' = dying \ {p}
    /\ UNCHANGED <<caches, live, moving>>

\* krealloc(obj, size) within the object...
ReallocInPlace(obj, size) ==
    /\ obj \in InUse
    /\ size <= slab[obj[1]].object_size
    /\ live' = [live EXCEPT ![obj] = Resized(obj, live[obj].kept, size)]
    /\ UNCHANGED <<slab, caches, used, dying, moving>>

\* (Mutant: the header is not copied along with the old object.)
CopiedLessHeader(old) == slab[old[1]].object_size - HEADER

\* krealloc copies as many bytes as the old slab's object_size says.
Copied(old) == slab[old[1]].object_size

\* ...and into a new one: kmalloc, then memcpy and kfree.
krealloc(obj, size) ==
    /\ obj \in InUse
    /\ size > slab[obj[1]].object_size
    /\ \E r \in Outcomes(size) :
          /\ Apply(r, 0, size)
          /\ moving' = moving \cup {[old |-> obj, new |-> r.obj]}
    /\ UNCHANGED dying

FinishRealloc(m) ==
    /\ Release(m.old)
    /\ live' = [o \in DOMAIN live \ {m.old} |->
                   IF o = m.new
                   THEN Resized(m.old, MinOf(Copied(m.old), live[m.old].kept), live[o].size)
                   ELSE live[o]]
    /\ moving' = moving \ {m}
    /\ UNCHANGED used

Next == \/ \E size \in Sizes : kmalloc(size)
        \/ \E obj \in InUse : \/ kfree(obj)
                              \/ \E size \in Sizes : ReallocInPlace(obj, size) \/ krealloc(obj, size)
        \/ \E p \in dying : slab_destroy(p)
        \/ \E m \in moving : FinishRealloc(m)

Spec == Init /\ [][Next]_vars

-----------------------------------------------------------------------------
Headers == [magic : {TRUE}, object_size : 1 .. SIZE_CAP, cache : {BIG} \cup Caches,
            npages : Nat \ {0}, capacity : Nat \ {0}, free_count : Nat,
            free_list : Seq(Objects)]

\* Slab headers, caches and requests have their types.
TypeOK == /\ slab \in [Pages -> Headers \cup {NoSlab}]
          /\ caches \in [Caches -> [slabs : Seq(Pages), slab_count : Nat]]
          /\ used \subseteq Pages
          /\ dying \subseteq Pages
          /\ DOMAIN live \subseteq Objects
          /\ \A o \in DOMAIN live : live[o] \in [size : Sizes, kept : Nat]
          /\ moving \subseteq [old : DOMAIN live, new : DOMAIN live]

Cached(c) == {p \in Pages : slab[p].magic /\ slab[p].cache = c /\ p \notin dying}

\* kmalloc and kfree move slabs on and off the lists so that a slab is listed,
\* once, exactly while it has a free object, and the counts are right.
SlabListsExact ==
    /\ TypeOK
    /\ \A c \in Caches :
          /\ IsInjective(caches[c].slabs)
          /\ caches[c].slab_count = Len(caches[c].slabs)
          /\ Range(caches[c].slabs) = {p \in Cached(c) : slab[p].free_list # <<>>}
          /\ \A p \in Cached(c) : slab[p].free_count = Len(slab[p].free_list)

\* The bytes of object o: as much as its header says, at least what was asked.
Bytes(o) == LET start == o[1] * PAGE_SIZE + o[2] IN start .. start + live[o].size - 1
HeaderBytes(p) == p * PAGE_SIZE .. p * PAGE_SIZE + HEADER - 1

\* Objects in use lie inside pages the slab owns, behind its header, and never
\* share a byte; no object in use is also on a free list.
ObjectsDisjoint ==
    /\ \A o \in DOMAIN live :
          LET p == o[1] IN
          /\ slab[p].magic /\ p \notin dying
          /\ Bytes(o) \subseteq UNION {q * PAGE_SIZE .. (q + 1) * PAGE_SIZE - 1 : q \in Extent(p)}
          /\ Extent(p) \subseteq used
          /\ Bytes(o) \cap HeaderBytes(p) = {}
          /\ o \notin Range(slab[p].free_list)
    /\ \A o, q \in DOMAIN live : o # q => Bytes(o) \cap Bytes(q) = {}

\* kfree hoards at most one empty slab per cache, and every page taken from
\* the page allocator belongs to a slab, so it can come back.
NoPageHoarded ==
    /\ \A c \in Caches :
          Cardinality({p \in Cached(c) : slab[p].free_count = slab[p].capacity}) <= 1
    /\ used = UNION {Extent(p) : p \in {q \in Pages : slab[q].magic}}

\* krealloc keeps what the user wrote, up to the largest size a header can
\* record: object_size is capped, and that is how much memcpy copies.
ReallocKeepsContents == \A o \in InUse : live[o].kept >= MinOf(live[o].size, SIZE_CAP)
=============================================================================
