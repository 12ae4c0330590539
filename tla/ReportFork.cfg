SPECIFICATION Spec
CONSTANTS
    r1 = r1
    r2 = r2
    a1 = a1
    a2 = a2
    Nothing = Nothing
    Runs = {r1, r2}
    First = r1
    Reports = {a1, a2}
    OccurredAt <- Occurred
    Suspecting = {a1, a2}
    LeaseTerm = 1
    MaxClock = 1
    MaxCrash = 0
    MaxLost = 0
INVARIANTS
    ChainStaysValid
CHECK_DEADLOCK FALSE
