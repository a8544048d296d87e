\* Every combination of the optional fields, rows of which one or two fields are
\* spoilt, networks of two shapes of at most three points.
CONSTANTS
    Nil = Nil
    MaxNumber = 99
    CSVs <- MCCSVs
    Points <- MCPoints
    Networks <- MCNetworks
    Requests <- MCRequests
SPECIFICATION Spec
INVARIANTS
    VehiclesSurvive
    TripUpdatesSurvive
    LinesSurvive
    FilesSurvive
CHECK_DEADLOCK FALSE
