SPECIFICATION FairSpec
CONSTANTS
    NumFrames = 7
    FillSize = 4
    RxSize = 3
    Batch = 2
    IndexRange = 8
    Filter = "tcp"
    Packets <- TcpPackets
    MaxPackets = 6
    MaxLoads = 2
    Null = Null
CHECK_DEADLOCK FALSE
INVARIANTS
    TypeOK
    OneOwner
    ReadAsDelivered
    LeaksOnlyByReload
    StackGetsTheRest
    FixIsRedirected
PROPERTIES
    DeliveredAreRead
    FramesReturn
