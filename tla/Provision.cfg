SPECIFICATION FairSpec
CONSTANTS
    r1 = r1
    r2 = r2
    c1 = c1
    c2 = c2
    Nothing = Nothing
    Runs = {r1, r2}
    Accounts = {c1}
    LeaseTerm = 1
    MaxClock = 1
    MaxCrash = 1
    MaxFail = 1
INVARIANTS
    TypeOK
    OneWriter
    CommittedInLease
    ReceiptIsCommitted
PROPERTIES
    KeepsGrant
    WriteIsCommitted
CHECK_DEADLOCK FALSE
