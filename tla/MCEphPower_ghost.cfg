\* A finger on the screen while it blanks with double-tap wake-up on.
CONSTANTS
    SuspendMode = "regulator"
    StoreInputs <- MCStoreInputs
    Slots <- MCSlots
    WritesMayFail = FALSE
    InputUsers = 0
    MaxInputOps = 0
    MaxPanelEvents = 2
    MaxStores = 1
    MaxSuspends = 0
    MaxTouches = 2
    MaxTaps = 0
SPECIFICATION Spec
INVARIANT
    NoGhostContacts
