\* Two vehicles and two seconds of time: reports at most one second late, a cursor
\* two seconds behind, one failed Produce, one restart.  (Repeated appends are
\* exercised in VehiclePipeline, which has one vehicle.)
CONSTANTS
    v1 = v1
    v2 = v2
    Vehicles = {v1, v2}
    Slack = 2
    MaxLate = 1
    MaxCopies = 1
    FirstTime = 3
    MaxClock = 4
    MaxFaults = 1
    MaxExits = 1
SPECIFICATION FairSpec
INVARIANTS
    IInv
    NoReportSlips
PROPERTIES
    OnlyNews
    EveryReportProduced
