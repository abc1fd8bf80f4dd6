SPECIFICATION FairSpec
CONSTANTS
    p1 = p1
    p2 = p2
    r1 = r1
    r2 = r2
    None = None
    Static = Static
    Torn = Torn
    Proc <- TwoProcs
    Job <- Jobs
    Req <- TwoReqs
    Lifetime = 2
    Margin = 1
    LoginTimeout = 1
    CodeLifetime = 2
    Interval = 0
    SlowDown = 1
    MaxCommands = 2
    MaxRenewals = 2
INVARIANT RefusalExplained
INVARIANT ConfigWhole
PROPERTY BearerInTime
PROPERTY LoginEnds
PROPERTY ApprovalRedeemed
CHECK_DEADLOCK FALSE
