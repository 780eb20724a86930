\* System suspend with the event node open, as Android keeps it.
CONSTANTS
    SuspendMode = "regulator"
    StoreInputs <- MCStoreInputs
    Slots <- MCSlots
    WritesMayFail = FALSE
    InputUsers = 1
    MaxInputOps = 2
    MaxPanelEvents = 0
    MaxStores = 0
    MaxSuspends = 1
    MaxTouches = 0
    MaxTaps = 0
SPECIFICATION SpecOpen
PROPERTY
    SuspendReturns
