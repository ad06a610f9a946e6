SPECIFICATION HistorySpec
CONSTANTS
    None = None
    Modulus = 8
    Horizon = 3
    MaxGenerations = 2
    MaxEpochs = 2
    NearestFrontier = TRUE
    Keys = {k1, k2, k3}
    Busy = k1
    Segments <- MCSegments
    StepBound = 5
    HotTuples = 2
    Quota = 5
    FaultBound = 1
    Rows = {1, 2}
    MaxRows = 5
    Entries = 2
    FanIn = 2
    Quotas = {7, 10}
    Indexes <- MCIndexes
    Queries <- MCQueries
    MaxLen = 3
    MaxIntervals = 3
    MaxReferences = 5
    PageLimits = {1, 4}
SYMMETRY Others
INVARIANTS
    SortsInput
    QueryHonest
PROPERTIES
    ImplementsMap
    PlacementsExact
CHECK_DEADLOCK FALSE
