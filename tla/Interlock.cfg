SPECIFICATION Spec
CONSTANTS
    MaxSession = 3
    MaxClock = 2
    MaxCtx = 1
    Threshold = 1
    ReadyArmMaxAge = 0
    MarkerVoidGrace = 0
    AckStaleAfter = 0
    SubmitMaxEnters = 1
    MaxCrash = 1
    Tokens = {"ready"}
    Resolves = {TRUE, FALSE}
    Outcomes = {"taken", "lost"}
    Events = {"replace"}
INVARIANTS
    OneKillPerDeclaration
    RoundInterlock
PROPERTIES
    NoKillWhileResumePending
    RoundOnlyGrows
    KeepsAuthority
