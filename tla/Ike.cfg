SPECIFICATION FairSpec
CONSTANTS
    a = a
    b = b
    Host = {a, b}
    Initiators = {a}
    Rekeyers = {a, b}
    None = None
    MaxRetransmits = 2
    DpdRetries = 1
    Troubles = {"loss", "dup", "delay", "fail", "early", "restart"}
    MaxTrouble = 1
    MaxRekey = 2
INVARIANTS
    SameKeyPerSpi
    AgreedUnlessCrossed
PROPERTIES
    DeadPeerNoticed
CHECK_DEADLOCK FALSE
