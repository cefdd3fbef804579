CONSTANTS
    g1 = g1
    g2 = g2
    k1 = k1
    None = None
    Cameras = {k1}
    Gateways = {g1}
    MaxChanges = 2
    MaxFaults = 0
SPECIFICATION IncidentSpec
INVARIANTS RetiredHasNoIncident
