\* Two stops and one that does not exist, a timetable around two midnights, two
\* changes of the URL, one request that fails.
CONSTANTS
    Nil = Nil
    s1 = s1
    s2 = s2
    Unknown = unknown
    Stops = {s1, s2}
    StopTimes <- MCStopTimes
    Day = 4
    Hour = 1
    MaxClock = 8
    MaxMoves = 2
    MaxFaults = 1
SPECIFICATION FairSpec
INVARIANTS
    ArrivalsAreUpcoming
PROPERTIES
    PageFollowsUrl
CHECK_DEADLOCK FALSE
