SPECIFICATION GatewaySpec
CONSTANTS
    s1 = s1
    s2 = s2
    t1 = t1
    t2 = t2
    k1 = k1
    r1 = r1
    u1 = u1
    None = None
    Tasks = {t1, t2}
    Sources = {s1, s2}
    Configs <- MCConfigs
    Ranges <- MCRanges
    Budget = 2
    MaxNow = 5
    MaxSkew = 1
    MaxFaults = 1
    Second = 1
    Target = 1
    Keys = {k1}
    Rtmp = {r1}
    Srt = {u1}
    PushedConfigs <- MCPushed
    SetAs <- MCSetAs
    Capacity = 1
    MaxStreams = 2
    MaxFrames = 2
    MaxChanges = 1
    Tables = {"t"}
    Videos = {"v"}
    MaxPackets = 4
    MaxBacklog = 1
    MaxFlaws = 1
    Length = 3
    Gaps = {0, 1, 2}
    Formats <- MCFormats
    MaxReceived = 4
    Bodies <- MCBodies
    Shapes <- MCShapes
    MaxUnits = 2
    Replies <- MCReplies
    Addresses <- MCAddresses
    Offers <- MCOffers
    Inside = "inside"
    Ceiling = 2
    Stores <- MCStores
    MaxReplies = 2
    MaxUrls = 2
    QueueSize = 1
    MaxDatagrams = 2
    Stream <- MCStream
    Asking = {t1, t2}
    VerdictTtl = 2
    MaxProbeClock = 3
    MaxFirewalls = 1
    Rules <- MCRules
    Pictures <- MCPictures
    MaxRules = 2
    MaxPasses = 4
    MaxUpsets = 2
CONSTRAINT Quiet
SYMMETRY Symmetry
INVARIANTS
    GatewayTypeOK
    RingIsWhole
    
    
    
    BridgeIsTransparent
CHECK_DEADLOCK FALSE
