SPECIFICATION ParallelSpec
CONSTANTS
    Session = {s1}
    NumSlots = 1
    NoSession = NoSession
    Events <- MCToolEvents
    Keys = {}
    LinkFaults = FALSE
    StallThreshold = 1
INVARIANTS
    OpenCallIsTracked
CHECK_DEADLOCK FALSE
