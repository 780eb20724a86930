\* Command, interrupt, sysfs-reader and raw-transfer interleavings with one command,
\* two unsolicited reports and one raw read or write.
CONSTANTS
    c1 = c1
    IrqThread = IrqThread
    Reader = Reader
    RawUser = RawUser
    NoActor = NoActor
    Callers <- MCCallers
    Ops <- MCOps
    ReportTypes <- MCReportTypes
    ReportRaw <- MCReportRaw
    MaxCmds = 1
    MaxReports = 2
    MaxRaw = 1
SPECIFICATION Spec
INVARIANTS
    MessagesConserved
    DeviceInfoTrusted
    FlushErasesOnlyDelivered
PROPERTIES
    CommandsComplete
    EveryReportConsumed
    ChannelSpec
