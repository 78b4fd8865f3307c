SPECIFICATION Spec
CONSTANTS
    Bundles = {b1, b2}
    MaxId = 2
    MaxRestarts = 1
    MaxInFlight = 2
INVARIANT
    ReleasesOnlyAccepted
CHECK_DEADLOCK FALSE
