SPECIFICATION Spec
CONSTANTS
    Tasks = {t1, t2}
    Hashes = {h1, h2}
    NoTx = NoTx
    Modes <- MCModes
    MaxWaitTimeout = 2
    MinPollInterval = 1
    RpcTimeout = 1
    ResolveTime = 0
    TakenBack = {"succeeded", "reverted"}
    HeldCap = 0
SYMMETRY DeploySymmetry
INVARIANTS
    TypeOK
    DeployedClaimsAreTrue
    FinalFailureNeverLandsItself
    WaitEndsByDeadline
    RetryNeverResubmits
PROPERTY
    KeepsPromise
