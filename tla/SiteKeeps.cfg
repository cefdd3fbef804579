CONSTANTS
    Never = Never
    Day = 4
    Week = 2
    MaxClip = 2
    Lag = 1
    CatchUp = 4
    Pre = 2
    Post = 2
    Horizon = 8
    MaxEvents = 2
    Policies <- MCPolicies
SPECIFICATION Spec
INVARIANTS TypeOK WhatIsWantedIsKept
CHECK_DEADLOCK FALSE
