SPECIFICATION Spec
CONSTANTS
    t1 = t1
    t2 = t2
    Threads = {t1, t2}
    TicksPerMs = 2
    MaxMs = 3
    MaxInstant = 5
INVARIANTS
    TypeOK
    ReadingIsHighestLine
PROPERTIES
    NeverDecreasesNorFreezes
