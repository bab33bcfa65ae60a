CONSTANTS
    t1 = t1
    t2 = t2
    q1 = q1
    s1 = s1
    s2 = s2
    NoTurn = NoTurn
    NoStem = NoStem
    NoKey = NoKey
    Turn <- Turns2
    Rotator <- NoRotator
    Kinds <- UsedKinds
    Stem <- TwoStems
    Frontends <- BlockingFrontend
    MaxItems = 2
    MaxReceipts = 1
    MaxDispatchRetries = 2
SPECIFICATION ISpec
INVARIANT AckAfterRun
CHECK_DEADLOCK FALSE
