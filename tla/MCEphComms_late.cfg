\* A command whose answer comes late, followed by another command.
CONSTANTS
    c1 = c1
    IrqThread = IrqThread
    Reader = Reader
    RawUser = RawUser
    NoActor = NoActor
    Callers <- MCCallers
    Ops <- MCOps
    ReportTypes <- MCReportTypes
    ReportRaw <- MCReportRaw
    MaxCmds = 2
    MaxReports = 2
    MaxRaw = 0
SPECIFICATION Spec
INVARIANT
    ResponseBelongsToRequest
