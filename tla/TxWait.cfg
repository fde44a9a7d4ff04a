SPECIFICATION FairSpec
CONSTANTS
    Options <- MCOptions
    MinInterval = 1
    MinTimeout = 1
    MaxTimeout = 4
    RpcTimeout = 2
    TakenBack = {"succeeded"}
CHECK_DEADLOCK FALSE
INVARIANTS
    TypeOK
    ResultMatchesChain
    OverrunIsTwoRequests
    NoRpcFlood
PROPERTY
    CallReturns
