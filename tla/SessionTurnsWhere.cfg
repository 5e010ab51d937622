SPECIFICATION Spec
CONSTANTS
    Calls = {c1, c2, c3}
    Sessions = {s1, s2}
    Roots = {r1, r2}
    EngineRoot = r1
    NoRoot = none
CHECK_DEADLOCK FALSE
INVARIANT
    RecordedWhereAsked
