SPECIFICATION Spec
CONSTANTS
    U32 = 4
    U64 = 16
    MAX_ORDERS = 4
    Prices = {1, 2, 3}
    Quantities = {0, 1, 2}
    MaxCalls = 4
INVARIANTS
    CancelEmptiesBook
