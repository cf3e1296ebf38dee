SPECIFICATION Spec
CONSTANTS
    Node = {1, 2, 3}
    Priority <- MCPriority
    KeyServerCapable = {1}
    MacsecCapable = {1, 2, 3}
    Encrypting = {{1, 2, 3}}
    PnReporters = {}
    Prompt = TRUE
    Lockstep = TRUE
    QueueCap = 1
    MaxAge = 3
    MaxMi = 1
    MaxKn = 3
    MaxLoss = 0
    MaxSilence = 0
    MaxReset = 0
INVARIANTS
    DistributesLatest
    RxInstalledMatchesKernel
PROPERTIES
    ActivateOnlyWhenAllReceive
