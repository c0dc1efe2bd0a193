SPECIFICATION Spec
CONSTANTS
    Threads = {t1, t2}
    Size = 3
    HugePages = 3
    LockLimit = 1
CHECK_DEADLOCK FALSE
INVARIANTS TypeOK PagesAccounted OnlyLeaksKill
PROPERTIES LeakIsFatal HashesGoOn
