SPECIFICATION Spec
CONSTANTS
    MaxSession = 3
    MaxClock = 2
    MaxCtx = 2
    Threshold = 1
    ReadyArmMaxAge = 1
    MarkerVoidGrace = 0
    AckStaleAfter = 0
    SubmitMaxEnters = 1
    MaxCrash = 1
    Tokens = {"ready"}
    Resolves = {TRUE}
    Outcomes = {"taken"}
    Events = {}
INVARIANTS
    OneKillEver
