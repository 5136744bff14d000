SPECIFICATION Spec
CONSTANTS
    t1 = t1
    t2 = t2
    t3 = t3
    Workers = {t1, t2, t3}
    Idle = idle
    NONE = NONE
    BootQueue <- MCBootQueue
    MaxLevel = 1
    Ops = {"yield", "wait", "wake_one", "wake_all", "exit", "spawn"}
CHECK_DEADLOCK FALSE
INVARIANTS
    RunqueueSound
    NoLostWaiter
    WaiterReturnsWoken
    NoDanglingThread
