SPECIFICATION InputsSpec
CONSTANTS
    Malformed = Malformed
    Null = Null
    Absent = Absent
    Base = 2
    NotHex = NotHex
    Unreadable = Unreadable
INVARIANTS
    OutcomeMatchesReference
    SharesAreWanted
    NonceArrives
CHECK_DEADLOCK FALSE
