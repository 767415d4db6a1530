SPECIFICATION MCSpec
CONSTANTS
    r1 = r1
    r2 = r2
    r3 = r3
    r4 = r4
    Rows <- MCRows
    None = none
    Nothing = nothing
    Inputs <- MCInputs
    Limit = 2
    Delay = 1
    Horizon = 3
    Radix = 4
    Base = 3
    ByteBits = 2
    WordBits = 3
    Ratio = 8
    Counts <- MCCounts
    Checksum <- MCChecksum
    Group = 2
    SignatureBytes = 2
    Ten = 3
SYMMETRY Symmetry
INVARIANTS
    NoRowTwice
    OnlyTiesAreSkipped
    EncodingsRoundTrip
    AmountsAreExact
CHECK_DEADLOCK FALSE
