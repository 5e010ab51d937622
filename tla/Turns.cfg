SPECIFICATION MCSpec
CONSTANTS
    Calls = {c1, c2, c3}
    Sessions = {s1, s2}
    Roots = {r1}
    EngineRoot = r1
    NoRoot = none
    MaxTokens = 2
    MaxOther = 1
    Capacity = 1
INVARIANTS
    ChangesWaitForTurns
    EntriesAreOfLiveTurns
    SeenIsSent
PROPERTIES
    TurnsAndCallsEnd
CHECK_DEADLOCK FALSE
