SPECIFICATION Spec
CONSTANTS
    NPages = 5
    PAGE_SIZE = 10
    HEADER = 2
    KHEAP_ALIGN = 2
    cache_sizes <- MCCacheSizes
    SIZE_CAP = 8
    Sizes <- MCSizes
INVARIANTS
    SlabListsExact
    ObjectsDisjoint
    NoPageHoarded
    ReallocKeepsContents
