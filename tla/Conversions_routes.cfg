\* The violation run of the url of a route.
CONSTANTS
    Nil = Nil
    MaxNumber = 99
    CSVs <- MCCSVs
    Points <- MCPoints
    Networks <- MCNetworks
    Requests <- MCRequests
SPECIFICATION Spec
INVARIANT
    RouteUrlSurvives
CHECK_DEADLOCK FALSE
