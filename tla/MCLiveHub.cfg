SPECIFICATION FairSpec
CONSTANTS
    Events = 3
    Garbage = {2}
    DrainMax = 2
    Rate = 1
    Second = 2
    MaxClock = 2
    Conns = {1, 2, 3, 4}
    Mounts = 2
    MaxFaults = 1
INVARIANTS
    RateHolds
    FeedHasNoGap
    OneSocketPerMount
PROPERTIES
    DeadAreForgotten
    PageComesBack
CHECK_DEADLOCK FALSE
