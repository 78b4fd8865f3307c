\* Two segments, both checkpoints, one resend of everything on both sides, fair threads.
CONSTANTS
    NSeg = 2
    MaxSerial = 2
    Intermediate = {0}
    RetranRetries = 1
    RcvRetries = 1
    ClaimsPerReport = 9
    EarlyCloseout = FALSE
    UseFilesXmit = FALSE
SPECIFICATION FairSpec
INVARIANT ClosedMeansReported
INVARIANT DeliveredOnce
 
CHECK_DEADLOCK FALSE
