SPECIFICATION Spec
CONSTANTS
    Threads = {t1, t2}
    Size = 5
    HugePages = 1
    LockLimit = 1
CHECK_DEADLOCK FALSE
INVARIANTS FastMemoryServes
