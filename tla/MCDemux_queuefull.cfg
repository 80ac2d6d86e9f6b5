SPECIFICATION Spec
CONSTANTS
    Partitions = {1}
    MaxOffset = 3
    Garbage = {}
    FanoutTopics <- TopicsInstance
    QueueMax = 4
    MaxFaults = 0
INVARIANT
    RefusedIsRetried
