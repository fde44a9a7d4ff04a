SPECIFICATION FairSpec
CONSTANTS
    Options <- MCOptions
    MinInterval = 1
    MinTimeout = 1
    MaxTimeout = 4
    RpcTimeout = 2
    TakenBack = {"succeeded"}
CHECK_DEADLOCK FALSE
INVARIANT WaitsAtMostTimeout
