SPECIFICATION FairSpec
CONSTANTS
    Conn <- MCConn
    Tunnel <- MCGateway
    Forward <- MCGateway
    Pairs = 1
    Routed = {1}
    MaxSpi = 2
    MaxFail = 2
    MaxStart = 2
INVARIANTS
    NothingLeaked
    ChildInKernel
PROPERTIES
    EventuallyAgrees
CHECK_DEADLOCK FALSE
