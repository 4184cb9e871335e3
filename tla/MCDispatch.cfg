CONSTANTS
    Session = {a}
    a = a
    none = none
    NumSlots = 1
    NoSession = nobody
    None = none
    Place <- MCPlace
    Window <- MCWindow
    Staying <- MCStaying
    Processes <- MCProcesses
    OnTty <- MCOnTty
    Warmer = {w}
    Seeded = {a}
    MaxDepth = 2
    TreePids = {2, 3, 4}
SPECIFICATION FairSpec
INVARIANTS NothingLingers KnownPlaceIsReal PaneIsLearned ReachableIsRaised OneWindowPerPress AncestorIsNearest
PROPERTY DispatchEnds
CHECK_DEADLOCK FALSE
