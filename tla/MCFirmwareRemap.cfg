SPECIFICATION Spec
CONSTANTS
    Size = 5
    NumKeys = 3
    Lit <- MCTwoLit
    MaxSlots = 2
    static_keymap <- MCSwapped
    ViaEnable = TRUE
    BulkImports = TRUE
    Pressed = {}
    HoldThreshold = 1
    TimerRange = 2
INVARIANTS
    FirmwareTypeOK
    DenseAgrees
    LedsFollowKeymap
    ColourStaysOnItsKey
CHECK_DEADLOCK FALSE
