SPECIFICATION SFairSpec
CONSTANTS
    ANonce <- MCANonce
    Counter <- MCCounter
    NoNonce = NoNonce
    NoPtk = NoPtk
    MaxDraw = 20
    Setups <- MCSetups
INVARIANTS
    PtkAgreed
    PtkProved
    NoReinstall
    NoReplay
    GtkAgreed
PROPERTIES
    ImplementsFourWay
    EventuallyUp
CHECK_DEADLOCK FALSE
