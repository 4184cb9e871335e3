SPECIFICATION FairSpec
CONSTANTS
    Readers = {r1, r2}
    NoReader = NoReader
    MaxSessions = 2
    MaxKicks = 3
    PadVanishes = FALSE
    SlowReader = FALSE
    HoldsEvict = FALSE
INVARIANTS
    NoHandleLeak
    OneReader
    AttachedHasHandle
PROPERTIES
    HandleReleased
CHECK_DEADLOCK FALSE
