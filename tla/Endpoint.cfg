SPECIFICATION MCSpec
CONSTANTS
    NoConn = "none"
    Conns = {"c1", "c2", "c3"}
    Quick = {"c3"}
    MaxConnections = 2
    MaxPieces = 4
    Faults = {"clone", "spawn", "reply", "panic", "wake"}
INVARIANTS
    PlacesAreAccountedFor
    DroppedMeansClosed
    NothingLostOnTheWay
PROPERTIES
    EveryoneIsAnswered
    KeepsItsPromise
CHECK_DEADLOCK FALSE
