SPECIFICATION FairSpec
CONSTANTS
    Clients = {c1}
    RetryMax = 1
    MaxCopies = 1
INVARIANTS
    TypeOK
    SidesAgree
    NoIdleRemoteClient
    NoPendingOfGoneClients
PROPERTIES
    PendingEnds
    OrphansEnd
CHECK_DEADLOCK FALSE
