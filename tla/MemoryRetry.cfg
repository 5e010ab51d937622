SPECIFICATION Spec
CONSTANTS
    Bodies = {"x", "y"}
    Depths = {"raw"}
    InWorkspace = {TRUE}
    Jobs = {"j1"}
    MinCluster = 2
    MaxItems = 3
    MaxTime = 2
    MaxFails = 1
    MaxOps = 2
INVARIANT
    FailedInputsAreRetried
CHECK_DEADLOCK FALSE
