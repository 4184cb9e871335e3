SPECIFICATION Spec
CONSTANTS
    Readers = {r1, r2, r3}
    NoReader = NoReader
    MaxSessions = 1
    MaxKicks = 2
    PadVanishes = TRUE
    SlowReader = TRUE
    HoldsEvict = TRUE
INVARIANTS
    PadCaughtUp
SYMMETRY MCReaderSymmetry
CHECK_DEADLOCK FALSE
