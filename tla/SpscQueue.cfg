SPECIFICATION Spec
CONSTANTS
    Items = {a, b}
    Uninit = Uninit
    Capacity = 4
    MaxPush = 6
PROPERTIES
    ImplementsFifo
    WaitFree
    AllDelivered
INVARIANTS
    TypeOK
    NoDataRace
    FifoOrder
    NeverOverfull
