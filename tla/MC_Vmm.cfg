SPECIFICATION Spec
CONSTANTS
    Vmms = {v1, v2, v3}
    Frames = {f1, f2}
    VMM_USER_START = 1
    VMM_MMAP_BASE = 2
    Sizes = {1}
    MapFlags <- MCMapFlags
    ProtFlags <- MCProtFlags
    Data = {zero, x}
    Zero = zero
    NULL = NULL
    MaxLost = 1
CONSTRAINT Bounded
SYMMETRY Symmetry
CHECK_DEADLOCK FALSE
INVARIANTS
    MappedFrameOwned
    CowIsolation
