SPECIFICATION FairSpec
CONSTANTS
    Tasks = {t1}
    Hashes = {h1}
    NoTx = NoTx
    Modes <- OneWait
    MaxWaitTimeout = 2
    MinPollInterval = 1
    RpcTimeout = 1
    ResolveTime = 0
    TakenBack = {"succeeded"}
    HeldCap = 0
PROPERTY SubmitOnlyIsTracked
