SPECIFICATION FairSpec
CONSTANTS
    empty = empty
    small = small
    large = large
    Bundles <- MCBundles
    payload_length <- MCPayloadLength
    block_size = 4
    payload_quota = 4
    bard_quota_strict = FALSE
    MaxArrivals = 1
    MaxRestarts = 1
INVARIANTS
    FreedIsUnreferenced
    NoOrphanRow
    StorageIsCurrent
    
PROPERTY
    DeletedIsFreed
CHECK_DEADLOCK FALSE
