\* One request against messages being committed: the two selects disagree.
CONSTANTS
    t1 = t1
    t2 = t2
    s1 = s1
    s2 = s2
    r1 = r1
    NoRow = NoRow
    Trips = {t1, t2}
    Stops = {s1, s2}
    Feeds <- MCFeeds
    Readers = {r1}
    MaxIndex = 2
    MaxId = 5
    MaxCommits = 2
SPECIFICATION Spec
INVARIANT SameSnapshot
