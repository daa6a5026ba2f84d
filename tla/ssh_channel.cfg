SPECIFICATION FairSpec
CONSTANTS
    AppBytes = 5
    SrvBytes = 4
    MaxRekeys = 1
    BothWays = 1
    ReadBuf = 2
    HighWater = 2
    LowWater = 0
    LocalWindow = 2
    ServerWindow = 3
    MaxPacket = 3
    WriteBufferSize = 2
INVARIANTS
    TypeOK
    WindowRespected
    UpstreamIntact
    ServerNeverRejected
    NoLostWrite
    EndsInOrder
PROPERTIES
    BufchainDrains
    UpstreamRead
    CloseAnswered
CHECK_DEADLOCK FALSE
