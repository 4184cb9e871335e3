SPECIFICATION Spec
CONSTANTS
    s1 = s1
    s2 = s2
    Session = {s1, s2}
    MayRun <- MCMayRun
    NumSlots = 1
    NoSession = NoSession
    NoAgent = NoAgent
    Keys <- MCOneSlot
    Backlog = 2
    MaxDeaths = 1
INVARIANTS
    NoPhantom
    NoGhostSeed
    AgentIsItsOwn
    ShowsLastHook
CHECK_DEADLOCK FALSE
