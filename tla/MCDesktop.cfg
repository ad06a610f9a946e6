CONSTANTS
    None = None
    Jobs = {j1}
    Requests = {t1, t2}
    Closer = closer
    BootBound = 2
    Paths <- MCPaths
    Retained <- MCRetained
    Peaks = {1, 2}
    Limit = 5
    MinJob = 2
    MaxJobs = 2
    MaxEntries = 6
SPECIFICATION ManagerSpec
INVARIANTS
    StopReaches
PROPERTIES
    JobsSafe
    CancelEnds
    WithinBudget
CHECK_DEADLOCK FALSE
