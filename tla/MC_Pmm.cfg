SPECIFICATION Spec
CONSTANTS
    MaxPfn = 4
    Usable <- MCUsable
    Holders = {h1, h2}
    MaxCount = 3
    MaxRefs = 4
    MaxShares = 2
CONSTRAINT Bounded
SYMMETRY Symmetry
INVARIANTS
    TypeOK
    FreeListExact
    FreeCountExact
    RefcountExact
    ShareCountExact
    NoPageLost
    FirstFit
