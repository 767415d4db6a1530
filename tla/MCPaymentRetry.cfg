SPECIFICATION PaySpec
CONSTANTS
    None = None
    k1 = k1
    t1 = t1
    t2 = t2
    t3 = t3
    p1 = p1
    i1 = i1
    i2 = i2
    h1 = h1
    h2 = h2
    Keys = {k1}
    Txs = {t1, t2}
    Wallets = {p1}
    Intents = {i1, i2}
    Handlers = {h1, h2}
    Requests <- Bodies
    Garbled = {}
    Forged = {}
    Pays <- PaysOne
    IntentOf <- IntentsOne
    Sender = p1
    RetryOn = {"blockhash_expired", "rate_limited", "user_cancelled", "network"}
    MaxAttempts = 2
SYMMETRY Symmetry
CHECK_DEADLOCK FALSE
INVARIANTS
    AtMostOneExecuted
