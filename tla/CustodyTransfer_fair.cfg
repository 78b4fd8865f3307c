SPECIFICATION FairSpec
CONSTANTS
    Bundles = {b1, b2}
    MaxId = 2
    MaxRestarts = 1
    MaxInFlight = 1
INVARIANTS
    SignalsAreTruthful
    LostOnlyByReuse
PROPERTY
    CustodyEnds
CHECK_DEADLOCK FALSE
