SPECIFICATION Spec
CONSTANTS
    Size = 5
    NumKeys = 3
    Lit <- MCThreeLit
    MaxSlots = 3
    static_keymap <- MCSparse
    ViaEnable = FALSE
    BulkImports = FALSE
    Pressed <- MCThreeLit
    HoldThreshold = 3
    TimerRange = 5
INVARIANTS
    HoldNeedsKey
    HoldIsReported
    MessagesArrive
    NothingIsMistaken
CHECK_DEADLOCK FALSE
