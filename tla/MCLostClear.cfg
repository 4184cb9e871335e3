SPECIFICATION Spec
CONSTANTS
    Session = {s1}
    NumSlots = 1
    NoSession = NoSession
    Events <- MCStartEndEvents
    Keys = {}
    LinkFaults = TRUE
    StallThreshold = 1
INVARIANTS
    FreedSlotIsDark
CHECK_DEADLOCK FALSE
