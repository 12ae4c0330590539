SPECIFICATION FairSpec
CONSTANTS
    p1 = p1
    p2 = p2
    a1 = a1
    a2 = a2
    Nothing = Nothing
    Passes = {p1, p2}
    Accounts = {a1, a2}
    MaxRefresh = 1
    MaxFault = 2
CONSTRAINT Intact
INVARIANTS
    TypeOK
    HostStateKept
    ReplacesWhatItDecided
PROPERTIES
    SwitchIsAtomic
    RecordCatchesUp
