SPECIFICATION Spec
CONSTANTS
    Malformed = Malformed
    Null = Null
    Absent = Absent
    None = None
    Conns = {c1, c2, c3, c4}
    Jobs = {j1, j2, j3}
    Lines <- MCLines
    SleepCoversHash = TRUE
INVARIANTS
    TypeOK
    SharesComeHome
    OneLogin
    ReadsOwnConnection
    NobodyMinesOffline
    OneJobMined
PROPERTY
    ComesBack
