SPECIFICATION FairSpec
CONSTANTS
    Nothing = Nothing
    MaxGen = 2
    MaxClock = 3
    MaxEnter = 1
    MaxServer = 1
    MaxFault = 1
    MaxReuse = 1
INVARIANTS
    TypeOK
    AtMostOnce
    PredecessorGone
    SuccessIsReal
PROPERTIES
    HandsOver
    LaunchNotForgotten
    LeftOversCleared
CHECK_DEADLOCK FALSE
