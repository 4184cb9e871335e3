SPECIFICATION Spec
CONSTANTS
    Session = {s1, s2}
    NumSlots = 2
    NoSession = NoSession
    Events <- MCRaceEvents
    Keys <- MCOneSlot
    LinkFaults = TRUE
    StallThreshold = 0
INVARIANTS
    TablesAgree
    DisplayMirrors
    TrackedCallOwnsSlot
    MappedSessionHasTarget
PROPERTIES
    OwnershipStable
    ImplementsDirectory
SYMMETRY MCSymmetry
CHECK_DEADLOCK FALSE
