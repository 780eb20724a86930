\* Gesture wake-up changed while the panel is blanked, against the
\* interrupt state after unblank.
CONSTANTS
    SuspendMode = "regulator"
    StoreInputs <- MCStoreInputs
    Slots <- MCSlots
    WritesMayFail = FALSE
    InputUsers = 0
    MaxInputOps = 0
    MaxPanelEvents = 4
    MaxStores = 2
    MaxSuspends = 0
    MaxTouches = 0
    MaxTaps = 0
SPECIFICATION Spec
INVARIANT
    IrqRestoredOnWake
