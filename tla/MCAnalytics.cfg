SPECIFICATION FairSpec
CONSTANTS
    Partitions = {1, 2}
    MaxOffset = 3
    Garbage <- GarbageInstance
    Poison <- PoisonInstance
    Silent = {}
    BatchSize = 2
    MaxFaults = 1
    MaxFailures = 1
INVARIANTS
    TypeOK
    CommittedIsApplied
    CountedOnceWithoutFaults
PROPERTIES
    ImplementsSink
    EventsAreApplied
