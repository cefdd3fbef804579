CONSTANTS
    g1 = g1
    g2 = g2
    c1 = c1
    c2 = c2
    None = None
    Gateways = {g1, g2}
    Commands = {c1, c2}
    MediaCommands = {c1}
    Bootstrapped = {g1}
    Revocable = {g1}
    MaxFaults = 1
SPECIFICATION Spec
INVARIANTS
    TypeOK PlaneIsTrue OrdersLapse
PROPERTIES
    ViewsMoveForward
