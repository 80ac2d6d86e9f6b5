SPECIFICATION Spec
CONSTANTS
    Partitions = {1, 2}
    MaxOffset = 2
    Garbage <- GarbageInstance
    Poison = {}
    Silent = {}
    BatchSize = 2
    MaxFaults = 1
    MaxFailures = 1
INVARIANT
    FailuresReplay
