SPECIFICATION Spec
CONSTANTS
    NNames = 2
    Dest <- MCDest
    Source <- MCSource
    Objects = {o1, o2, o3}
    NLinks = 4
    Registered = {1, 2, 3}
    Pooled = {1, 2}
    disk_quota = 1
    Quotas <- MCQuotas
    Setups <- MCSetups
    MaxCommands = 1
    MaxFaults = 1
    Budget = 6
CHECK_DEADLOCK FALSE
INVARIANTS UsageMatches ExternalAccounted 
PROPERTIES KeptUntilDropped
