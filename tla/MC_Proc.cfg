SPECIFICATION Spec
CONSTANTS
    i = i
    p1 = p1
    p2 = p2
    p3 = p3
    ti = ti
    t1 = t1
    t2 = t2
    t3 = t3
    t4 = t4
    Procs = {i, p1, p2, p3}
    Threads = {ti, t1, t2, t3, t4}
    init_proc = i
    InitThread = ti
    FirstProc = p1
    FirstThread = t1
    ANY = ANY
    NULL = NULL
CHECK_DEADLOCK FALSE
SYMMETRY Symmetry
INVARIANTS
    LastThreadExits
    ReapedOnce
    ChildStaysListed
