SPECIFICATION MCSpec
CONSTANTS
    Turns = {"t1", "t2", "t3"}
    NoTurn = "none"
    OneAtATime = TRUE
    BoardCalls = {"v1", "v2"}
    CardIds = {"i1"}
    Actors = {"plain", "a]b"}
    Bracketed = {"a]b"}
    MaxCards = 2
    MaxMoves = 5
    MaxFaults = 1
    Bodies = {"x", "y"}
    Depths = {"raw"}
    InWorkspace = {TRUE}
    Jobs = {"j1", "j2"}
    Refiner = "j2"
    MinCluster = 2
    MaxItems = 3
    MaxTime = 2
    MaxFails = 1
    MaxOps = 2
    Carriers = {"p1", "p2"}
    Exts = {"e1"}
    Versions = {1, 2}
    Builtins = {"builtin"}
    Customs = {"custom"}
    Hosts = {"systemd", "logind", "bare"}
    Faults = {"file", "unit", "elevation", "query"}
    Creators = {"b1", "b2"}
    TierFiles = {"f1", "f2"}
    MaxSeconds = 2
    MaxVersion = 2
    Openers = {"o1", "o2"}
    Newest = 3
    Steps = {2, 3}
    NTables = 2
INVARIANTS
    JournalHolds
    HistoriesAreLegalAndLogged
    DatabasesHold
    CatalogsHold
    ActivationAnswersHold
    BackupsAreWhole
PROPERTIES
    MergesLoseNoLink
CHECK_DEADLOCK FALSE
