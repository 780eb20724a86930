\* Probe and one update_fw write, against a device whose application is
\* intact at probe and a bootloader that answers within the host's delay.
CONSTANTS
    FrameLens <- MCFrameLens
    FwInfo <- MCFwInfoNewer
    DevIds <- MCDevIds
    LateAnswers = FALSE
    AppIntactAtProbe <- MCAppIntact
    UpdateFwStores = 1
    Settings <- MCSettings
    SettingsStores = 1
    WriteFailures = 12
    ProbeFaults <- MCProbeFaults
SPECIFICATION Spec
INVARIANTS
    TypeOK
    ImagePrefix
    FlashedImageIntact
    IrqEnabledWhenReady
    InBootloaderMatchesDevice
    NoIrqOnFreedData
    SettingsWrittenInOrder
    SettingsSuccessComplete
PROPERTIES
    LoadFwTerminates
