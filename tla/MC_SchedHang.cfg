SPECIFICATION Spec
CONSTANTS
    t1 = t1
    t2 = t2
    t3 = t3
    Workers = {t1, t2, t3}
    Idle = idle
    NONE = NONE
    BootQueue <- MCBootQueue
    MaxLevel = 1
    Ops = {"yield", "spawn"}
CHECK_DEADLOCK FALSE
INVARIANT
    NoRecursiveDeadlock
