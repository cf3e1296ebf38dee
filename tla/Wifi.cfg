SPECIFICATION FairSpec
CONSTANTS
    Bss = {1, 2, 3, 4, 5, 6, 7, 8, 9}
    NoBss = 0
    Ap <- MCAp
    Usable = 1
    Good = 2
    Critical = 1
    Password = {1, 2}
    Lifetime = 3
    Reauth = 1
    MaxEntries = 2
    MaxSync = 1
    MaxScanSsids = 2
    SchedCap = 2
    CqmSupported = TRUE
    Worlds <- MCWorlds
    Configs <- MCConfigs
    Levels = {0, 1, 3}
    Faults = {"err", "cut", "nodump", "slow", "reject", "lose", "race", "mic", "repeat", "deauth", "signal", "schedstop", "btm", "wake", "resume", "fwroam", "update", "age"}
    MaxTrouble = 2
INVARIANTS
    TypeOK
    UpIsReal
    UpIsKeyed
    NoDowngrade
    
PROPERTIES
    SchedScanConfined
    RetryElsewhere
    ImplementsPmksa
    ImplementsConnection
    EventuallyUp
CHECK_DEADLOCK FALSE
