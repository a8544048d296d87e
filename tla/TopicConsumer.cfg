\* Two keys, three messages, two stops or crashes, retention on; no symmetry,
\* which liveness does not allow.
CONSTANTS
    k1 = k1
    k2 = k2
    Keys = {k1, k2}
    Message <- MCMessage
    Retention = TRUE
    MaxLog = 3
    MaxRestarts = 2
SPECIFICATION FairSpec
INVARIANTS
    IInv
    CommitCovered
    ViewFollowsCursor
    CleanStopNeverReplays
PROPERTIES
    RegressionOnlyInReplay
    AtLeastOnceSpec
    OnlyRetentionStarves
    ViewConverges
CHECK_DEADLOCK FALSE
