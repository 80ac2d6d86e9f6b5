SPECIFICATION FairSpec
CONSTANTS
    Log <- LogInstance
    BatchSize = 2
    Lookback = 2
    MaxBuckets = 2
    Retention = 2
    Limits = {1, 2, 3}
    MaxHour = 2
    MaxFailures = 1
INVARIANTS
    DashboardAgrees
    EveryEditCounted
    WikiRowIsTheGate
PROPERTIES
    DistinctNeverShrinks
    DistinctConverges
