SPECIFICATION Spec
CONSTANTS
    NumFrames = 4
    FillSize = 4
    RxSize = 3
    Batch = 2
    IndexRange = 8
    Filter = "tcp"
    Packets <- TcpPackets
    MaxPackets = 6
    MaxLoads = 2
    Null = Null
CHECK_DEADLOCK FALSE
INVARIANTS
    OneOwner
