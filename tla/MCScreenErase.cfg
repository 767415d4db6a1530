SPECIFICATION ScreenSpec
CONSTANTS
    w1 = w1
    w2 = w2
    Wallets <- MCWallets
    None = none
    MaxAsks = 2
    MaxDeletes = 1
INVARIANT WalletSurvivesRestart
CHECK_DEADLOCK FALSE
