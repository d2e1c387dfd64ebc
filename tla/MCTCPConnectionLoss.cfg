SPECIFICATION Spec
CONSTANTS
    Client = client
    Server = server
    Start <- MCStartFits
    Window <- MCWindow
    MaxData = 2
    MaxShort = 3
    MaxQueue = 2
    MaxPackets <- MCPacketsFits
    MaxLosses = 1
INVARIANT
    OnlyWholePackets
CHECK_DEADLOCK FALSE
