SPECIFICATION Spec
CONSTANTS
    MaxSession = 1
    MaxClock = 3
    MaxCtx = 3
    Threshold = 2
    ReadyArmMaxAge = 1
    MarkerVoidGrace = 0
    AckStaleAfter = 0
    SubmitMaxEnters = 1
    MaxCrash = 0
    Tokens = {"ready", "winding-down", "blocked", "done"}
    Resolves = {TRUE}
    Outcomes = {"taken", "lost", "unseen"}
    Events = {"draft", "clash"}
INVARIANTS
    CertifiedRoundWasHeard
    NoBandTwice
