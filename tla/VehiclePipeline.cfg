\* One vehicle that reports at the seconds 2 and 3, the first one maybe late; one fault
\* (a failed Produce or a repeated append), one end of the process, retention.
CONSTANTS
    v1 = v1
    Vehicles = {v1}
    Slack = 2
    MaxLate = 1
    MaxCopies = 2
    FirstTime = 3
    MaxClock = 3
    Retention = TRUE
    MaxFaults = 1
    MaxExits = 1
SPECIFICATION FairSpec
INVARIANTS
    RowsShowTheFeed
    TopicInOrder
PROPERTIES
    RowsGoBackOnlyInReplay
    RowsSettle
