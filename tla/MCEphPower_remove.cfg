\* The driver unbound while the panel is blanked and unblanked.
CONSTANTS
    SuspendMode = "regulator"
    StoreInputs <- MCStoreInputs
    Slots <- MCOneSlot
    WritesMayFail = FALSE
    InputUsers = 0
    MaxInputOps = 0
    MaxPanelEvents = 2
    MaxStores = 0
    MaxSuspends = 0
    MaxTouches = 0
    MaxTaps = 0
SPECIFICATION SpecUnbind
INVARIANT
    NoWorkAfterRemove
