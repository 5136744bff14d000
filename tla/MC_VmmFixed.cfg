SPECIFICATION Spec
CONSTANTS
    Vmms = {v1}
    Frames = {f1, f2}
    VMM_USER_START = 1
    VMM_MMAP_BASE = 4
    Sizes = {1, 2}
    MapFlags <- MCFixedFlags
    ProtFlags <- MCProtFlags
    Data = {zero, x}
    Zero = zero
    NULL = NULL
    MaxLost = 2
CONSTRAINT Bounded
SYMMETRY Symmetry
CHECK_DEADLOCK FALSE
INVARIANT
    FixedNeverOverlaps
