SPECIFICATION Spec
CONSTANTS
    Nodes <- MCNodes
    NULL = NULL
    VMM_USER_START = 1
    VMM_MMAP_BASE = 7
    Sizes = {3}
    SizesAt = {1}
    Flags = {r, w}
    Prots <- MCProts
INVARIANTS
    TreeSound
    QueriesSound
    AccessibleExact
PROPERTY
    ImplementsAddressSpace
VIEW StateView
SYMMETRY Symmetry
CONSTRAINT Disjoint
