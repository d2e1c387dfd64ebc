SPECIFICATION LiveSpec
CONSTANTS
    Client = client
    Server = server
    Start <- MCStart
    Window <- MCWindow
    MaxData = 2
    MaxShort = 3
    MaxQueue = 2
    MaxPackets <- MCPackets
    MaxLosses = 1
INVARIANTS
    TypeOK
    ReaderInStep
    QueuedIsAttended
PROPERTIES
    ImplementsChannel
    AcceptedIsDelivered
CHECK_DEADLOCK FALSE
