SPECIFICATION FairSpec
CONSTANTS
    Requests = {"q", "p", "v"}
    Outdated = {"v"}
    Privileged = {"p", "v"}
    ConfirmGate = TRUE
    Bytes = {"q", "p", "v", "n", "r", "L", "C"}
    MaxInput = 5
    MaxBytes = 2
CHECK_DEADLOCK FALSE
INVARIANTS
    TypeOK
    AnswersMatchLines
PROPERTY
    ServeEnds
