SPECIFICATION FairSpec
CONSTANTS
    Node = {1, 2}
    Priority <- MCPriority
    KeyServerCapable = {1, 2}
    MacsecCapable = {1, 2}
    Encrypting = {{1, 2}}
    PnReporters = {}
    Prompt = TRUE
    Lockstep = FALSE
    QueueCap = 1
    MaxAge = 3
    MaxMi = 1
    MaxKn = 5
    MaxLoss = 0
    MaxSilence = 1
    MaxReset = 0
PROPERTIES
    EventuallySecured
