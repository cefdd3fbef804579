CONSTANTS
    g1 = g1
    g2 = g2
    c1 = c1
    c2 = c2
    None = None
    Gateways = {g1}
    Commands = {c1, c2}
    MediaCommands = {c1}
    Bootstrapped = {}
    Revocable = {g1}
    MaxFaults = 1
SPECIFICATION FairSpec
PROPERTIES KeepsTheLedger EveryCommandSettles
