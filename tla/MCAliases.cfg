SPECIFICATION FairSpec
CONSTANTS
    MaxHour = 3
    Retention = 2
    MaxFaults = 1
INVARIANTS
    BulkResolves
    WrittenIsSearchable
PROPERTIES
    AliasConverges
    ExpiredAreDeleted
