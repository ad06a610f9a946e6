SPECIFICATION Spec
CONSTANTS
    Unsupported = {"u"}
    MaxRows = 5
    MaxViews = 2
    FeedContext <- MCContext
    MaxFeedRecords = 4
    Rows = 3
    Contents <- ArchiveContents
    FamilyOf <- ArchiveFamilies
    UnicastFamilies = {1, 2}
    MaxOpens = 4
    PeerRelation = "Unknown"
    RibKeys <- MCRibKeys
    SupportedFamilies = {1, 2}
    AsnOf <- MrtAsns
    MaxSessions = 2
    MaxReplay = 14
    RecordNames <- ArchiveNames
    MaxRecords = 12
    MaxObservations = 6
    PeerClaims <- BmpClaims
    MaxPeers = 2
    MaxMonitored = 2
    BmpNames <- ArchiveNames
    MaxBmpEvents = 14
INVARIANTS
    EvidenceStands
    ArchiveSound
PROPERTIES
    FeedCloses
CHECK_DEADLOCK FALSE
