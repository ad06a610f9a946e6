SPECIFICATION MCSpec
CONSTANTS
    t1 = t1
    t2 = t2
    Publishers <- MCPublishers
    MaxTries = 2
    FaultBound = 1
    CrashBound = 2
    Sources <- MCSources
    MaxRecordCount = 3
    MaxSource = 3
    MaxChanges = 1
INVARIANTS
    PublicationSound
    ArchiveHonest
PROPERTIES
    NoClobber
CHECK_DEADLOCK FALSE
