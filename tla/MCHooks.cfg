SPECIFICATION FairSpec
CONSTANTS
    Session = {s1, s2, s3}
    NumSlots = 2
    NoSession = NoSession
    Events <- MCAllEvents
    Keys = {}
    LinkFaults = FALSE
    StallThreshold = 1
INVARIANTS
    DaemonTypeOK
PROPERTIES
    QuestionIsKept
    StalledCallsSurface
    ImplementsBoard
CHECK_DEADLOCK FALSE
