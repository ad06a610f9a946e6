SPECIFICATION TrackersSpec
CONSTANTS
    None = None
    Half = 8
    StreamRetained = 4
    MaxSegments = 3
    Span = 3
    MaxFlows = 3
    IdleNs = 2
    Policy = "RejectConflict"
    CallBound = 4
    Inputs <- MCInputs
    Times <- MCTimes
    TcpKeys = {"a", "b"}
    UdpKeys = {"u"}
    MaxActiveKeys = 2
    MaxActivePayload = 3
    IdleFrames = 2
    PacketBound = 5
    Packets <- MCPackets
    WindowPayload = 2
    WindowFlows = 1
INVARIANTS
    DirectionIsolated
    WindowAccounts
PROPERTIES
    JoinJustified
CHECK_DEADLOCK FALSE
