\* Four workers, two migrations, three errors, signals or panics.
CONSTANTS
    w1 = w1
    w2 = w2
    w3 = w3
    w4 = w4
    Workers = {w1, w2, w3, w4}
    Counted = 4
    Latest = 2
    MaxFaults = 3
SPECIFICATION FairSpec
INVARIANTS
    CounterExact
    ExitAfterWorkers
    SchemaIsCurrent
PROPERTIES
    AllEndTogether
