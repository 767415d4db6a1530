SPECIFICATION Spec
CONSTANTS
    None = None
    k1 = k1
    k2 = k2
    k3 = k3
    k4 = k4
    t1 = t1
    forged = forged
    garbled = garbled
    p1 = p1
    i1 = i1
    i2 = i2
    h1 = h1
    h2 = h2
    Keys = {k1, k2, k3, k4}
    Txs = {t1, forged, garbled}
    Wallets = {p1}
    Intents = {i1, i2}
    Handlers = {h1, h2}
    Requests <- BlindRetries
    Garbled = {garbled}
    Forged = {forged}
SYMMETRY Symmetry
INVARIANTS
    TypeOK
    ClaimPrecedesBroadcast
    OnlyVerifiedRelayed
    AttributionSound
    LateRetryNeverBroadcasts
    OkMeansRecorded
    RowDescribesItsTransaction
PROPERTIES
    KeepsPromise
