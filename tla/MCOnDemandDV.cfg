SPECIFICATION FairSpec
CONSTANTS
    s = s
    a = a
    b = b
    d = d
    Nodes <- MCNodes
    Src = s
    Dst = d
    Cost <- MCCost
    InitTtl = 3
    MaxRetry = 3
    HopsPerTick = 2
    MinTicks = 1
    HistoryTicks = 4
    MaxRequests = 4
    MaxOnAir = 2
INVARIANTS
    TypeOK
    
    NeverUnderstated
    RetriesAreBounded
PROPERTIES
    OnlyNewerRequests
    WaitingEnds
CHECK_DEADLOCK FALSE
