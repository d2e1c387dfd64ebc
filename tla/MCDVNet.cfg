SPECIFICATION FairSpec
CONSTANTS
    d = d
    x = x
    y = y
    z = z
    Dst = d
    LastHops <- MCRing
    Nbrs <- MCAll
    Me = x
    HashOrder <- MCRingOrder
    Links <- MCTriangleLinks
    Breaking <- MCTriangleBreaks
    None = None
    LinkMetrics = {1}
    HopMetrics = {1}
    Infinite = Infinite
    SeqNoMod = 3
    AgeTolerance = 0
    MaxAcceptedAge = 1
    DownTicks = 0
    PeerTicks = 1
    RemovalTicks = 2
    ProbationTicks = 1
    Metrics = {1, 2, 3}
    MaxQueue = 0
    MaxSends = 1
    MaxOnAir = 1
INVARIANTS
    TypeOK
    LoopFree
    NextHopKnowsBetter
PROPERTIES
    NodeIsDVPeer
    GoneIsForgotten
CHECK_DEADLOCK FALSE
