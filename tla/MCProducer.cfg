SPECIFICATION FairSpec
CONSTANTS
    Kinds <- KindsInstance
    QueueMax = 2
    MaxBackoff = 4
    MaxFaults = 2
    MaxEnds = 1
INVARIANTS
    EveryBlobOnce
    StreamOrder
PROPERTIES
    Reconnects
CHECK_DEADLOCK FALSE
