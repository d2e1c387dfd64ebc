SPECIFICATION FairSpec
CONSTANTS
    Client = Client
    Server = Server
    Radio = Radio
    Upstream = Upstream
    None = None
    c1 = c1
    c2 = c2
    Conns <- MCConns
    IdleTicks = 1
    MaxCrashes = 1
    MaxBreaks = 1
    MaxOnAir = 2
INVARIANTS
    TypeOK
    BestLinkIsUsable
    LinksHaveInterfaces
PROPERTIES
    NeighboursMeet
    SilentIsForgotten
CHECK_DEADLOCK FALSE
