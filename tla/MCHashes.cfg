SPECIFICATION MCSpec
CONSTANTS
    BlakeWord = 1024
    GroestlWord = 2
    MaxLength = 200
    Given <- MCGiven
INVARIANTS
    FramesAsDefined
    AesAsDefined
    BlakeAsDefined
    GroestlAsDefined
    JhAsDefined
    KeccakAsDefined
    SkeinAsDefined
    PrecomputedIVs
PROPERTY
    KeepsStreaming
CHECK_DEADLOCK FALSE
