SPECIFICATION FairSpec
CONSTANTS
    Readers = {r1, r2}
    NoReader = NoReader
    MaxSessions = 1
    MaxKicks = 1
    PadVanishes = FALSE
    SlowReader = FALSE
    HoldsEvict = TRUE
PROPERTIES
    HandleReleased
CHECK_DEADLOCK FALSE
