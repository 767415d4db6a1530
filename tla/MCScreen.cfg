SPECIFICATION ScreenSpec
CONSTANTS
    w1 = w1
    w2 = w2
    Wallets <- MCWallets
    None = none
    MaxAsks = 2
    MaxDeletes = 1
INVARIANTS
    OneProvisioning
    ScreenShowsDevice
    OwnBalance
SYMMETRY Symmetry
CHECK_DEADLOCK FALSE
