SPECIFICATION DecodeSpec
CONSTANTS
    Contents <- MCContents
    Adverts <- MCContents
    FamilyOf <- MCFamily
    Family <- MCFamily
    UnicastFamilies = {1}
    Supported = {"p1"}
    MaxOpens = 4
    Records = {1, 2, 3, 4, 5}
    Imported = FALSE
    MaxEvents = 6
    MaxBytes = 100
    MaxUnits = 1000
    RibSessions = {"s", "t"}
    RibImported = FALSE
    MaxElements = 20
    MaxActive = 4
    MaxRetained = 100000
    MaxWork = 1000000
    Session = "s"
    MaxRecords = 5
    MaxCache = 12
    Depth = 4
    ReducerEvents = 4
    ReducerBytes = 40
    ReducerUnits = 200
    ReducerElements = 14
    ReducerActive = 3
    MaxDepth = 4
INVARIANTS
    ObserverSound
    TableSound
    UpdateFate
    IdentitySound
    PipelineSound
PROPERTIES
    EffectExplains
CHECK_DEADLOCK FALSE
