\* One request at a time, a polling period of four hours, two archives, three faults.
CONSTANTS
    r1 = r1
    Readers = {r1}
    Day = 4
    MaxFiles = 2
    MaxFaults = 3
SPECIFICATION FairSpec
INVARIANTS
    OneArchive
    NextFetchInTime
PROPERTIES
    NeverEmptyAgain
    FetchesADayApart
    EveryRequestEnds
    DataCatchUp
