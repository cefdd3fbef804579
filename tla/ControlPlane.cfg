SPECIFICATION ControlSpec
CONSTANTS
    Handlers = {"h1", "h2", "h3"}
    Unchained = 1
    KeepFor = 1
    MaxAuditClock = 3
    MaxTampers = 1
    Cameras = {"c1"}
    Senders = {"g1"}
    Statuses = {"online", "offline"}
    Sec = 2
    HourSecs = 2
    MaxGap = 2
    MaxTicks = 6
    MaxReconnects = 1
    MaxHealthFaults = 1
    Plugins = {"pa", "pb", "pc"}
    Filed = {"pa", "pb"}
    Described = {"pa"}
    Owner <- MCOwner
    Reloads = {"l1", "l2"}
    MaxOutages = 1
    MaxEdits = 2
    Cams = {"cam"}
    Gws = {"gw1", "gw2"}
    Sites = {"site1", "site2"}
    Customers = {"acme", "zenith"}
    SiteOf <- MCSiteOf
    CustomerOf <- MCCustomerOf
    StaleAfter = 1
    MaxViewClock = 3
    token1 = token1
    token2 = token2
    call1 = call1
    call2 = call2
    caller1 = caller1
    caller2 = caller2
    Tokens = {token1, token2}
    Calls = {call1, call2}
    MaxEnrolFaults = 1
    MaxKeys = 2
    Callers = {caller1, caller2}
    Boxes = {"box1", "box2"}
    LanHosts = {"host1"}
    MaxTunnelFaults = 1
SYMMETRY Symmetry
INVARIANTS
    ControlTypeOK
    AuditIsWhole
    HoursAddUp
    
    
    
    TunnelIsHonest
CHECK_DEADLOCK FALSE
