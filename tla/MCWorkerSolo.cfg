SPECIFICATION Spec
CONSTANTS
    Threads = 1
    MaxJobs = 3
    ByteBase = 2
    Window = 2
    Winning <- MCWinning
    PoolNonce <- MCPoolNonce
INVARIANTS
    TypeOK
    SoloShareValid
    OnlyLatestJob
PROPERTY
    KeepsPromise
