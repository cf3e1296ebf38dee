SPECIFICATION Spec
CONSTANTS
    Node = {1, 2}
    Priority <- MCPriority
    KeyServerCapable = {1, 2}
    MacsecCapable = {1, 2}
    Encrypting = {{1, 2}, {1}}
    PnReporters = {2}
    Prompt = FALSE
    Lockstep = FALSE
    QueueCap = 1
    MaxAge = 3
    MaxMi = 1
    MaxKn = 5
    MaxLoss = 1
    MaxSilence = 1
    MaxReset = 0
INVARIANTS
    TypeOK
    TxMatchesKernel
    SecuredAgree
    NoSasWithoutPeers
    TransmitOnlyIfSupported
PROPERTIES
    NoTxReinstall
