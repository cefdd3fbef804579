CONSTANTS
    g1 = g1
    g2 = g2
    k1 = k1
    None = None
    Cameras = {k1}
    Gateways = {g1, g2}
    MaxChanges = 2
    MaxFaults = 1
SPECIFICATION FairSpec
PROPERTIES IncidentsEnd
INVARIANTS
     TimelineIsTrue
