SPECIFICATION MCSpec
CONSTANTS
    MaxSessions = 2
    MaxLog = 3
    Header = "h"
    ForeignHeader = "g"
    MaxElements = 8
    MaxAdapter = 22
    Sessions = {1, 2}
    Frames = {1}
    MaxPending = 1
    MaxRows = 2
    MaxJournal = 5
    MaxEvents = 8
    Menus = {"life", "codes", "source", "damage"}
    InputBytes = 4
    Elements = 3
    Active = 2
    FrameSpans = 3
    FrameRetained = 16
    FrameHeader = 1
    TransportModulus = 3
    SequenceModulus = 8
    Wrap = 2
    MaxCuts = 2
    Spans = 2
    Retained = 6
    Scopes = {"a", "b", "c"}
    Pieces <- MCPieces
    MaxIdle = 2
    MaxFrame = 4
INVARIANTS
    ReplayFaithful
    JournalSound
    RunAccounts
    PagesIrrelevant
    NothingDropped
    SegmentsSound
CHECK_DEADLOCK FALSE
