SPECIFICATION FairPaySpec
CONSTANTS
    None = None
    k1 = k1
    t1 = t1
    t2 = t2
    t3 = t3
    p1 = p1
    i1 = i1
    i2 = i2
    h1 = h1
    h2 = h2
    Keys = {k1}
    Txs = {t1, t2, t3}
    Wallets = {p1}
    Intents = {i1, i2}
    Handlers = {h1, h2}
    Requests <- Bodies
    Garbled = {}
    Forged = {}
    Pays <- PaysThree
    IntentOf <- IntentsOne
    Sender = p1
    RetryOn = {"blockhash_expired", "insufficient_funds", "chain_rejected", "rate_limited", "user_cancelled"}
    MaxAttempts = 3
CHECK_DEADLOCK FALSE
INVARIANTS
    AtMostOneExecuted
    RelayedWasApproved
    HandleIsRecorded
    CancelledMovedNothing
PROPERTY SendEnds
