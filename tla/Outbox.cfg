CONSTANTS
    loop = loop
    button = button
    Loop = loop
    Buttons = {button}
    Events = {1, 2}
    Sinks = {1}
    Retries = 2
    TripAfter = 2
    Limit = 1
    MaxFaults = 1
SPECIFICATION FairSpec
INVARIANTS TypeOK GiveUpIsEarned
 
