CONSTANTS
    Half = Half
    Latest = 3
    Works <- WorkingReleases
    MaxFaults = 2
SPECIFICATION FairSpec
INVARIANTS TypeOK OutcomeIsTrue
PROPERTIES UpdatesEnd
\* A stop between the renames leaves nothing to start: the box stays down.
CHECK_DEADLOCK FALSE
