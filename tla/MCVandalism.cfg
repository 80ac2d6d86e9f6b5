SPECIFICATION FairSpec
CONSTANTS
    Partitions = {1}
    MaxOffset = 4
    Garbage <- GarbageInstance
    Poison = {}
    BatchSize = 2
    MaxFaults = 1
    MaxFailures = 1
    Score <- ScoreInstance
    Threshold = 50
PROPERTIES
    ImplementsSink
    SuspiciousAreFlagged
