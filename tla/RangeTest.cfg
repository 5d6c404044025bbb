CONSTANTS
    p1 = p1
    p2 = p2
    Roles <- BothRoles
    MaxConn = 3
    ConnIdx <- FourIdx
    Free = 255
    Peers <- TwoPeers
    BurstMax = 5
SPECIFICATION SLiveSpec
INVARIANTS
    RangeInv
    RetriesBounded
    SentOnOwnHandles
    OneLatePacket
PROPERTIES
    IsTxLink
    Reconnects
    PacketsFlow
