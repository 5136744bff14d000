SPECIFICATION Spec
CONSTANTS
    Threads = {t1, t2}
    Tables = {T1, T2}
    Entries = {e1, e2}
    FD_TABLE_INITIAL = 1
    FD_TABLE_MAX = 3
    NULL = NULL
SYMMETRY Symmetry
INVARIANTS
    EntryRefcountExact
    EntryLifetime
    TableLifetime
    SlotsInBounds
