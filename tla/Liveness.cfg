SPECIFICATION FairSpec
CONSTANTS
    MaxSession = 2
    MaxClock = 3
    MaxCtx = 2
    Threshold = 1
    ReadyArmMaxAge = 0
    MarkerVoidGrace = 0
    AckStaleAfter = 0
    SubmitMaxEnters = 1
    MaxCrash = 0
    Tokens = {"ready"}
    Resolves = {TRUE}
    Outcomes = {"taken"}
    Events = {"replace"}
PROPERTIES
    AnsweredRoundEnds
    WindDownArrives
    
    OrphanedRoundEnds
