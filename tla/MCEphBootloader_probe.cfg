\* Probe with every step that can fail allowed to, against a failed probe
\* leaving nothing behind.
CONSTANTS
    FrameLens <- MCFrameLens
    FwInfo <- MCFwInfoNewer
    DevIds <- MCDevIds
    LateAnswers = FALSE
    AppIntactAtProbe <- MCAppIntact
    UpdateFwStores = 0
    Settings <- MCSettings
    SettingsStores = 0
    WriteFailures = 0
    ProbeFaults <- MCProbeFaults
SPECIFICATION Spec
INVARIANTS
    ProbeFailureReleasesAll
