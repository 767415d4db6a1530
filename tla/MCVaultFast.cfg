SPECIFICATION VaultSpec
CONSTANTS
    d1 = d1
    d2 = d2
    s1 = s1
    s2 = s2
    e1 = e1
    e2 = e2
    e3 = e3
    None = None
    MaxCalls = 2
    Devices = {d1}
    Seeds = {s1}
    EnclaveKeys = {e1, e2, e3}
INVARIANT FastPathIsProvisioned
CHECK_DEADLOCK FALSE
