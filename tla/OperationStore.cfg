SPECIFICATION Spec
CONSTANTS
    o1 = o1
    o2 = o2
    o3 = o3
    r1 = r1
    Ids = {o1, o2, o3}
    Readers = {r1}
    Outcomes = {"Completed"}
    TtlMs = 1
    MaxEntries = 2
    MaxTime = 2
    RevisionLimit = 6
SYMMETRY OperationSymmetry
INVARIANTS
    TypeOK
    Bounded
    ForgetsOnlyWhenFull
    RecentOperationsRetained
    ExpiredOnlyAfterTtl
PROPERTIES
    WriteVisible
    ExpiredEvictedFirst
    LookupTruthful
CHECK_DEADLOCK FALSE
