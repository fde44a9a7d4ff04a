SPECIFICATION Spec
CONSTANTS
    q1 = q1
    q2 = q2
    k1 = k1
    k2 = k2
    k3 = k3
    Requests = {q1, q2}
    Keys = {k1, k2, k3}
    Selector <- MCSelector
    Policies <- MCPolicies
    CacheMax = 2
    MaxTtlMs = 1
    MaxStaleMs = 1
    Quantum = 2
    MaxRequests = 3
    AskedUntil <- MCAskedUntil
    MaxTime = 4
    MaxHeight = 1
INVARIANTS
    TypeOK
    FreshnessNotOverstated
    StalenessBounded
    StateNotNewerThanBlock
    OrderMatchesEntries
PROPERTIES
    StoreDisplacesAtMostOne
CHECK_DEADLOCK FALSE
SYMMETRY CacheSymmetry
