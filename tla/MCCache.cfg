SPECIFICATION FairSpec
CONSTANTS
    o1 = o1
    o2 = o2
    r1 = r1
    r2 = r2
    w1 = w1
    w2 = w2
    Object <- MCObject
    Reader <- MCReader
    Writer <- MCWriter
    Silent = TRUE
    MaxWrites = 2
    MaxLost = 1
CHECK_DEADLOCK FALSE
INVARIANTS
    TypeOK
    StaleIsExcused
PROPERTIES
    CacheConverges
