\* Retention overtakes the committed offset: the worker never opens again.
CONSTANTS
    k1 = k1
    k2 = k2
    Keys = {k1, k2}
    Message <- MCMessage
    Retention = TRUE
    MaxLog = 3
    MaxRestarts = 1
SPECIFICATION FairSpec
PROPERTIES
    EveryMessageAttempted
CHECK_DEADLOCK FALSE
