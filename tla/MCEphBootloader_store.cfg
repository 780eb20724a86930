\* Probe, then one write to update_fw.
CONSTANTS
    FrameLens <- MCFrameLens
    FwInfo <- MCFwInfoNewer
    DevIds <- MCDevIds
    LateAnswers = FALSE
    AppIntactAtProbe <- MCAppIntact
    UpdateFwStores = 1
    Settings <- MCSettings
    SettingsStores = 0
    WriteFailures = 0
    ProbeFaults <- MCNoProbeFaults
SPECIFICATION Spec
INVARIANTS
    DriverIntactWhenReady
