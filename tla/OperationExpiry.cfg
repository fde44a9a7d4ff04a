SPECIFICATION Spec
CONSTANTS
    o1 = o1
    o2 = o2
    o3 = o3
    Ids = {o1, o2, o3}
    Readers = {}
    Outcomes = {"Completed"}
    TtlMs = 1
    MaxEntries = 2
    MaxTime = 2
    RevisionLimit = 100
PROPERTY ExpiredRemainQueryable
CHECK_DEADLOCK FALSE
