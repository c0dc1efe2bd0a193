SPECIFICATION Spec
CONSTANTS
    Workers = {w1, w2}
    Limit = 2
    Report = 2
    MinCapacity = 4
    MaxCapacity = 8
INVARIANT
    ThreadCount
