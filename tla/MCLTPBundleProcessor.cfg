\* Everything may happen (files, disk errors, timeouts and a shutdown), and the plain setting.
CONSTANTS
    NBundles = 3
    UseFile = TRUE
    DiskMayFail = TRUE
    Intermediate = TRUE
    MayShutdown = TRUE
SPECIFICATION MCSpec
INVARIANTS IteratorValid  PlainAssertsHold
PROPERTY PlainCancelReachesBundles
CHECK_DEADLOCK FALSE
