SPECIFICATION Spec
CONSTANTS
    Tasks = {t1}
    Hashes = {h1}
    NoTx = NoTx
    Modes <- FullWait
    MaxWaitTimeout = 4
    MinPollInterval = 1
    RpcTimeout = 1
    ResolveTime = 0
    TakenBack = {"succeeded"}
    HeldCap = 5
INVARIANT PipeHeldAtMostMaxWait
