SPECIFICATION GatewaySpec
SYMMETRY Symmetry
CONSTANTS
    q1 = q1
    q2 = q2
    None = None
    Anonymous = Anonymous
    Callers <- MCCallers
    Envs <- MCEnvs
    x = x
    GivenIds = {x}
    Codes = {"ok"}
    Requests = {q1, q2}
    Max = 1
    Window = 3
    Second = 2
    Stall = 1
    Horizon = 4
    MaxArrivals = 4
CHECK_DEADLOCK FALSE
INVARIANTS
    GatewayTypeOK
    AtMostTwice
    RetryAfterSuffices
    AnswerFitsRequest
    RefusedOnlyWhenSpent
