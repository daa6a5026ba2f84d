SPECIFICATION FairSpec
CONSTANTS
    TcpPorts = {"tcp"}
    SerialPorts = {"COM1", "COM2"}
    PipePorts = {"pipe"}
    InMax = 2
    MaxAddrs = 2
    MaxOpens = 1
    MaxBytes = 0
    MaxResets = 0
    Setups <- MCLimited
PROPERTIES
    LimitEndsConnect
CHECK_DEADLOCK FALSE
