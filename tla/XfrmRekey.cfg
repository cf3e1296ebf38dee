SPECIFICATION Spec
CONSTANTS
    Conn <- MCConn
    Tunnel <- MCGateway
    Forward <- MCGateway
    Pairs = 1
    Routed = {1}
    MaxSpi = 2
    MaxFail = 0
    MaxStart = 1
INVARIANTS
    RekeyKeepsPolicies
CHECK_DEADLOCK FALSE
