SPECIFICATION FairSpec
CONSTANTS
    Old = 2
    MaxSessions = 3
    MaxMessages = 1
    MaxCommands = 2
    MaxMoves = 1
    MaxStops = 1
    MaxRelaunches = 1
CHECK_DEADLOCK FALSE
INVARIANTS
    MarksHaveJobs
    ShownIsSelected
PROPERTIES
    RelaunchComes
