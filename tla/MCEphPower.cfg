\* Panel, gesture store, suspend, heartbeat and touch interleavings, the
\* event node closed.
CONSTANTS
    SuspendMode = "regulator"
    StoreInputs <- MCStoreInputs
    Slots <- MCOneSlot
    WritesMayFail = TRUE
    InputUsers = 0
    MaxInputOps = 0
    MaxPanelEvents = 4
    MaxStores = 1
    MaxSuspends = 1
    MaxTouches = 1
    MaxTaps = 1
SPECIFICATION Spec
INVARIANTS
    HeartbeatQuietInLp
    NoContactWhileIrqOff
PROPERTY
    HeartbeatResumes
    GestureWakes
