SPECIFICATION GatewaySpec
CONSTANTS
    o1 = o1
    o2 = o2
    Ids = {o1, o2}
    Readers = {}
    Outcomes = {"Submitted", "Accepted", "Completed", "Rejected"}
    TtlMs = 1
    MaxEntries = 1
    MaxTime = 2
    RevisionLimit = 100
    Requests <- MCRequests
CHECK_DEADLOCK FALSE
INVARIANTS
    GatewayTypeOK
    ProvenanceVerified
    AnswerIsTheRecord
PROPERTIES
    HandlersFollowStore
