SPECIFICATION Spec
CONSTANTS
    Threads = 2
    MaxJobs = 1
    ByteBase = 2
    Window = 2
    Winning <- MCWinning
    PoolNonce <- MCPoolNonce
INVARIANT
    ShareValid
