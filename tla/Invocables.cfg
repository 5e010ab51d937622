SPECIFICATION MCSpec
CONSTANTS
    Calls = {c1, c2}
    MaxThreads = 1
    Identities = {"core", "ext", "other"}
    Core = "core"
    Sources = {"s0", "s1", "s2"}
    CoreSource = "s0"
    Tails = {"t"}
    Observers = 2
    Faulty = {1}
    Behaviours = {"b1", "b2"}
    MaxHandles = 2
    None = "none"
INVARIANTS
    RunsAreRecorded
    CatalogAgrees
    NoSecretShown
PROPERTIES
    ContributionsAreAnswered
    RefusalsLeaveNoTrace
CHECK_DEADLOCK FALSE
