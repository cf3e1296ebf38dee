SPECIFICATION SSpec
CONSTANTS
    ANonce <- MCANonce
    Counter <- MCCounter
    NoNonce = NoNonce
    NoPtk = NoPtk
    MaxDraw = 20
    Setups <- MCStrict
PROPERTIES
    AcceptedMessage3Discarded
CHECK_DEADLOCK FALSE
