SPECIFICATION MetricSpec
CONSTANTS
    d = d
    x = x
    y = y
    z = z
    Dst = d
    LastHops <- MCRing
    Nbrs <- MCAll
    Me = x
    HashOrder <- MCRingOrder
    Links <- MCRingLinks
    Breaking = {}
    None = None
    LinkMetrics = {1, 2, 5}
    HopMetrics = {1}
    Infinite = Infinite
    SeqNoMod = 3
    AgeTolerance = 0
    MaxAcceptedAge = 1
    DownTicks = 0
    PeerTicks = 1
    RemovalTicks = 2
    ProbationTicks = 1
    Metrics = {1, 2, 3, 4, 5, 6, 7, 8, 9}
    MaxQueue = 0
    MaxSends = 0
    MaxOnAir = 1
INVARIANTS
    LoopFree
CHECK_DEADLOCK FALSE
