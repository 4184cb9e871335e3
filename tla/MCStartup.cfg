SPECIFICATION FairSpec
CONSTANTS
    Session = {s1, s2}
    NoSession = NoSession
    PadSizes <- MCPadSizes
    NUM_SLOTS = 2
    Keys <- MCKeys
    LinkFaults = TRUE
INVARIANTS
    StartupTypeOK
    StartsClean
    SeededSessionHasTarget
    ReaderSurvives
PROPERTIES
    SeededMappingsKept
    StartupEnds
CHECK_DEADLOCK FALSE
