SPECIFICATION Spec
CONSTANTS
    MaxSession = 2
    MaxClock = 2
    MaxCtx = 2
    Threshold = 1
    ReadyArmMaxAge = 0
    MarkerVoidGrace = 0
    AckStaleAfter = 0
    SubmitMaxEnters = 1
    MaxCrash = 0
    Tokens = {"ready"}
    Resolves = {TRUE, FALSE}
    Outcomes = {"taken", "lost"}
    Events = {"replace", "compact", "gate", "slow"}
INVARIANTS
    TypeOK
PROPERTIES
    LatchStands
