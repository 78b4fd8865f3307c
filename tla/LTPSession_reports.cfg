\* Three segments, an intermediate checkpoint, one claim to a report, unreadable files.
CONSTANTS
    NSeg = 3
    MaxSerial = 2
    Intermediate = {1}
    RetranRetries = 0
    RcvRetries = 0
    ClaimsPerReport = 1
    EarlyCloseout = FALSE
    UseFilesXmit = TRUE
SPECIFICATION Spec
INVARIANT IInv
 
INVARIANT RetransmitsAreNotCheckpoints
PROPERTY ReportsTruthfully
CHECK_DEADLOCK FALSE
