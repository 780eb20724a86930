\* Probe of a device whose application fails its CRC (a flash cut off by a
\* power loss), then one write to update_fw.
CONSTANTS
    FrameLens <- MCFrameLens
    FwInfo <- MCFwInfoNewer
    DevIds <- MCDevIds
    LateAnswers = FALSE
    AppIntactAtProbe <- MCAppBroken
    UpdateFwStores = 1
    Settings <- MCSettings
    SettingsStores = 0
    WriteFailures = 0
    ProbeFaults <- MCNoProbeFaults
SPECIFICATION Spec
INVARIANTS
    InBootloaderMatchesDevice
