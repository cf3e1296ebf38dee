SPECIFICATION FairSpec
CONSTANTS
    Ids = 4
    ChLen = 1
    ShLen = 2
    CfLen = 2
    TxFrag = 1
    AuthFrag = 1
    MaxAttempt = 6
    MaxRetry = 1
    MaxTrouble = 2
INVARIANTS
    TypeOK
    ConnectedAuthorized
    StreamIntact
PROPERTIES
    EventuallyConnected
CHECK_DEADLOCK FALSE
