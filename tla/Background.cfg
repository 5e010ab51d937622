SPECIFICATION MCSpec
CONSTANTS
    Workflows <- MCWorkflows
    Tasks = {"t1", "t2"}
    Artifacts = {"plan", "prompt"}
    Mutable = {"plan"}
    Evolvable = {"prompt"}
    MaxIterations = 2
    Patience = 2
    MaxGenerations = 2
    GenerationPatience = 1
    N = 2
    Local = {2}
    Calls = {"c1", "c2"}
    Threshold = 2
    Cooldown = 2
    Interval = 3
    NKeys = 2
    EvictThreshold = 2
    QueueLines = 2
    MaxSize = 1
    MaxFiles = 2
    MaxEvents = 4
    MaxFaults = 2
INVARIANTS
    RulesHold
    EffectsAreUndone
    CommitsAreDeclaredAndRecorded
    CircuitsFollowReports
    LogIsTrue
PROPERTIES
    LoggedOutIsFinal
    RunsAndLoopsEnd
    ProvidersRestAndAreTried
    LogIsKept
CHECK_DEADLOCK FALSE
