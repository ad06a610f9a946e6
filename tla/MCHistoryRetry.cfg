SPECIFICATION Spec
CONSTANTS
    MaxRecords = 8
    MaxDisk = 38
    BufferCells = 6
    Captures <- SmallCaptures
    Workspaces = {w1, w2}
    CheckpointRecords = 2
    CommandBound = 2
    TroubleBound = 2
SYMMETRY Symmetry
INVARIANT NeverSealedByRetry
CHECK_DEADLOCK FALSE
