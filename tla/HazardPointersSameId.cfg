SPECIFICATION Spec
CONSTANTS
    r1 = r1
    r2 = r2
    Readers <- TwoReaders
    Ptrs = {a, b}
    Null = Null
    num_threads_ = 1
    ThreadId <- SameId
    MAX_HAZARD_PTRS = 2
    RETIRED_THRESHOLD = 2
    BufferBound = 1
CHECK_DEADLOCK FALSE
INVARIANTS
    PublishedProtects
