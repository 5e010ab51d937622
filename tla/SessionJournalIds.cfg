SPECIFICATION Spec
CONSTANTS
    Turns = {"t1", "t2", "t3"}
    NoTurn = "none"
    OneAtATime = FALSE
INVARIANT
    IdsAreUnique
CHECK_DEADLOCK FALSE
