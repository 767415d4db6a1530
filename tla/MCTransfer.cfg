CONSTANTS
    Alice = Alice
    Bob = Bob
    Paymaster = Paymaster
    Mint = Mint
    c1 = c1
    c2 = c2
    None = None
    Garbage = Garbage
    Wallets <- MCWallets
    Mints = {Mint}
    Decimals <- MCDecimals
    Elsewhere <- MCElsewhere
    MaxAmount = 15
    Fee = 1
    AtaRent = 2
    RentMin = 2
    Calls = {c1, c2}
    Scripts = {c2}
    Labels = {"gift"}
    Intents <- MCIntents
    FeePayer = Paymaster
    Opening <- MCOpening
    Lifetime = 1
    MaxHeight = 2
    MaxSales = 1
SPECIFICATION TransferSpec
CHECK_DEADLOCK FALSE
INVARIANTS
    TransferTypeOK
    NameOwnerPaid
PROPERTIES
    FailsOnlyForFunds
    DebitsAreAuthorized
    RowSaysWhatMoved
