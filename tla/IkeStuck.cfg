SPECIFICATION FairSpec
CONSTANTS
    a = a
    b = b
    Host = {a, b}
    Initiators = {a}
    Rekeyers = {}
    None = None
    MaxRetransmits = 2
    DpdRetries = 1
    Troubles = {"loss"}
    MaxTrouble = 1
    MaxRekey = 3
PROPERTY
    EventuallySettled
CHECK_DEADLOCK FALSE
