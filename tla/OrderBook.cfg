SPECIFICATION Spec
CONSTANTS
    U32 = 3
    U64 = 9
    MAX_ORDERS = 4
    Prices = {1, 2}
    Quantities = {1, 2}
    MaxCalls = 4
INVARIANTS
    TypeOK
    LaddersSorted
    NoEmptyLevels
    Uncrossed
    PoolKept
PROPERTIES
    MatchesByPriority
