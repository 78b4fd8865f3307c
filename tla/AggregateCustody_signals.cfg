SPECIFICATION FairSpec
CONSTANTS
    MaxId = 4
    SdnvRadix = 3
    Modulus = 27
    Params <- MCParams
    StartParams <- MCStartParams
    MaxInputs = 5
    MaxQueue = 2
INVARIANTS
    AssertsHold
    WithinAcsSize
PROPERTIES
    ImplementsCustodySignals
    SavedIsSignalled
