SPECIFICATION TimersSpec
CONSTANTS
    Recordings = {"ra", "rb"}
    Segments = 1
    DefaultDays = 1
    PolicyDays = {0, 2}
    MaxDay = 2
    MaxArchiveFaults = 1
    Boxes = {"g1"}
    Skews = {1}
    Stale = 1
    Grace = 1
    MaxPresenceFaults = 1
    MaxFrames = 3
    Devices = {"d1"}
    Announcing = {"d1"}
    Hosts = {"d1"}
    Sources = {"s1", "p1"}
    Pushed = {"p1"}
    Explicit = {"s1"}
    Limits = {0, 2}
    Cap = 2
    MaxLosses = 1
    MaxChanges = 2
    Requests = {"r1", "r2"}
    TripAfter = 2
    FirstCooldown = 1
    MaxCooldown = 2
    MaxPluginClock = 5
    MaxRotations = 1
    MaxTurns = 2
INVARIANTS
    TimersTypeOK
    
    NobodyIsForgotten
PROPERTIES
    JudgedOnWhatWasHeard
    WhatIsOverGoes
    ChangesAreNoticed
CHECK_DEADLOCK FALSE
