SPECIFICATION FairSpec
CONSTANTS
    Producers = {p1, p2, p3}
    Addr = {n1, n2, n3}
    MaxPush = 2
    Null = Null
    Stub = Stub
CHECK_DEADLOCK FALSE
INVARIANTS
    TypeOK
    NoUseAfterFree
    NoDataRace
    FifoOrder
    DrainComplete
    NoLeak
PROPERTIES
    Delivered
