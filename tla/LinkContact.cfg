SPECIFICATION FairSpec
CONSTANTS
    Types = {"ALWAYSON", "ONDEMAND", "OPPORTUNISTIC"}
    Contacts = {1, 2, 3, 4}
    min_retry_interval = 1
    max_retry_interval = 2
    MaxCommands = 2
CHECK_DEADLOCK FALSE
INVARIANTS ContactMatchesState OnlyBrokenIsClosed
PROPERTIES ReopensAfterFailure BrokenIsReleased
