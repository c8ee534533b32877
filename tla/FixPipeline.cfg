SPECIFICATION FairPipelineSpec
CONSTANTS
    U32 = 1000
    U64 = 1000000
    MAX_ORDERS = 4
    Prices = {0, 9999, 10000, 10001, 15000}
    Quantities = {0, 1, 7, 500}
    MaxCalls = 8
    Orders <- MCOrders
    Noise <- MCNoise
    None = None
CHECK_DEADLOCK FALSE
INVARIANTS
    SlotsAccounted
    NothingDropped
    RecentLiveAreFound
    ParsedAsMeant
    RoundTrip
    ChecksumNotices
PROPERTIES
    NarrowLevelsReturn
    ImplementsBook
