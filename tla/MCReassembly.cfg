CONSTANTS
    Keys = {"v4", "v6"}
    Ipv6Keys = {"v6"}
    Byte = {0, 1}
    MaxDatagram = 3
    V6Base = 1
    Lifetime = 2
    U64Max = 5
    MaxSets = 2
    MaxPerSet = 3
    MaxRetained = 4
    FrameBound = 5
    Inputs <- MCInputs
    None = None
    Half = 8
    StreamRetained = 5
    MaxSegments = 3
    Span = 3
    Syns = {None, 14, 15}
    StreamSegments <- MCSegments
    MaxFlows = 2
    IdleNs = 2
    RequireValid = TRUE
    MaxMessages = 2
    PacketBound = 5
    LastFrame = 100
    Records <- MCRecords
    NotFragment = NotFragment
    TunnelPackets <- MCTunnelPackets
    Inside <- MCInside
    MaxContexts = 2
    MaxDepth = 2
    CapturedBound = 5
    DecodePacket <- MCDecodePacket
    TransportModulus = 3
    ApplicationModulus = 3
    MaxProtocolMessages = 7
    MaxApplicationUnits = 3
    MaxStream = 6
    MaxApplications = 3
    AllowPortHints = TRUE
    MaxPluginEvents = 14
    MaxBuffered = 13
    MaxChecks = 10
    MaxInputs = 2
    Elements = 3
    Active = 2
    MaxFileLog = 4
SPECIFICATION ReassemblySpec
INVARIANTS
    FragmentsSound
    NothingLost
    PacketsAccounted
    DecodingSound
    EventsTraceable
    CorrelationSound
    FileCoverage
PROPERTIES
    LifetimeExact
CHECK_DEADLOCK FALSE
