SPECIFICATION FairSpec
CONSTANTS
    MaxSession = 1
    MaxClock = 3
    MaxCtx = 2
    Threshold = 1
    ReadyArmMaxAge = 1
    MarkerVoidGrace = 0
    AckStaleAfter = 0
    SubmitMaxEnters = 1
    MaxCrash = 0
    Tokens = {"ready"}
    Resolves = {TRUE}
    Outcomes = {"taken"}
    Events = {"compact"}
PROPERTIES
    CompactionAnswered
