SPECIFICATION FairSpec
CONSTANTS
    a = a
    b = b
    c = c
    d = d
    x = x
    Me = a
    Dst = d
    Proxied = {}
    Nbrs <- MCFewNbrs
    LastHops <- MCLastHops
    HashOrder <- MCHashOrder
    None = None
    Metrics = {1}
    LinkMetrics = {1}
    Infinite = Infinite
    SeqNoMod = 3
    AgeTolerance = 0
    Ages = {0, 2}
    MaxAcceptedAge = 1
    DownTicks = 0
    PeerTicks = 1
    RemovalTicks = 2
    ProbationTicks = 1
    MaxQueue = 1
PROPERTY
    QueuedPacketsAreSent
CHECK_DEADLOCK FALSE
