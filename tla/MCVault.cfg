SPECIFICATION VaultSpec
CONSTANTS
    d1 = d1
    d2 = d2
    s1 = s1
    s2 = s2
    e1 = e1
    e2 = e2
    e3 = e3
    None = None
    MaxCalls = 2
    Devices = {d1, d2}
    Seeds = {s1, s2}
    EnclaveKeys = {e1, e2, e3}
SYMMETRY Symmetry
INVARIANTS
    VaultTypeOK
    WholeUnlessTorn
    SignsAsShown
    SeedFollowsWallet
CHECK_DEADLOCK FALSE
