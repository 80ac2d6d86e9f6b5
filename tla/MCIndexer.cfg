SPECIFICATION FairSpec
CONSTANTS
    Partitions = {1}
    MaxOffset = 4
    Garbage <- GarbageInstance
    Poison <- PoisonInstance
    BatchSize = 2
    MaxHour = 1
    MaxFaults = 1
    MaxFailures = 1
INVARIANTS
    CommittedIsIndexed
    OneCopyWithoutFaults
PROPERTIES
    ImplementsSink
    EventsAreIndexed
