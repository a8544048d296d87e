\* Three messages written one after another, and requests one at a time.
CONSTANTS
    t1 = t1
    t2 = t2
    s1 = s1
    s2 = s2
    r1 = r1
    NoRow = NoRow
    Trips = {t1, t2}
    Stops = {s1, s2}
    Feeds <- MCFeeds
    Readers = {r1}
    MaxIndex = 2
    MaxId = 6
    MaxCommits = 3
SPECIFICATION Spec
INVARIANTS
    OneWholeFeed
    UndisturbedReadExact
    OnlyFirstTripPolluted
    PanicOnlyFromEmpty
