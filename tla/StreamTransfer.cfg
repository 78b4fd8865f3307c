SPECIFICATION FairSpec
CONSTANTS
    Nodes = {"a", "b"}
    Bundles = {"x", "y"}
    source <- MCOneWay
    size <- MCSize
    segment_length = 1
    max_inflight_bundles_ = 2
    quota <- MCQuota
    Acks = {TRUE, FALSE}
    Reactive = {TRUE, FALSE}
    MaxFaults = 1
CHECK_DEADLOCK FALSE
INVARIANTS NothingLost NoProtocolErrors 
PROPERTIES EventuallySent
