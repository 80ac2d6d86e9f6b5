SPECIFICATION FairSpec
CONSTANTS
    Partitions = {1}
    MaxOffset = 3
    Garbage <- GarbageInstance
    FanoutTopics <- TopicsInstance
    QueueMax = 4
    MaxFaults = 1
INVARIANTS
    CommittedIsForwarded
    LanguageOrder
    CleanStop
    OnceWithoutFaults
PROPERTIES
    EventsReachTopics
