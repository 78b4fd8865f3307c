\* Four segments and one claim to a report: a report is split.
CONSTANTS
    NSeg = 4
    MaxSerial = 3
    Intermediate = {}
    RetranRetries = 0
    RcvRetries = 0
    ClaimsPerReport = 1
    EarlyCloseout = FALSE
    UseFilesXmit = FALSE
SPECIFICATION Spec
INVARIANT NeverStranded
CHECK_DEADLOCK FALSE
