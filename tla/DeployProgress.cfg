SPECIFICATION FairSpec
CONSTANTS
    Tasks = {t1, t2}
    Hashes = {h1}
    NoTx = NoTx
    Modes <- OneWait
    MaxWaitTimeout = 2
    MinPollInterval = 1
    RpcTimeout = 1
    ResolveTime = 1
    TakenBack = {"succeeded"}
    HeldCap = 0
PROPERTIES
    EveryDeploySettles
