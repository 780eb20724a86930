\* Probe and one update_fw write against a device whose application is
\* intact and whose bootloader answers within the host's delay, with the
\* heartbeat started by an unblank and run up to three times.
CONSTANTS
    FrameLens <- MCFrameLens
    FwInfo <- MCFwInfoNewer
    DevIds <- MCDevIds
    LateAnswers = FALSE
    AppIntactAtProbe <- MCAppIntact
    UpdateFwStores = 1
    Settings <- MCSettings
    SettingsStores = 0
    WriteFailures = 0
    ProbeFaults <- MCNoProbeFaults
    MaxBeats = 3
SPECIFICATION DriverSpec
INVARIANTS
    FlashedImageIntact
