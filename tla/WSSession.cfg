\* Packets of three stops, an empty table and one of five, two routes and lines of
\* three points, two changes of the vehicles, one query that fails or is cut short.
CONSTANTS
    Packet = 3
    StopCounts = {0, 5}
    RouteCounts = {2}
    PointCounts = {3}
    MaxTraffic = 2
    MaxFaults = 1
SPECIFICATION FairSpec
INVARIANTS
    StaticFirst
    NullOnlyOnFailure
PROPERTIES
    SessionEnds
    PageCatchesUp
