SPECIFICATION FairSpec
CONSTANTS
    PerHour = 2
    Window = 2
    Interval = 4
    Slip = 1
    Retention = 3
    WindowRetention = 8
    MaxTick = 19
    MaxDocs = 1
    MaxFaults = 1
INVARIANTS
    RowsCountTheirWindow
PROPERTIES
    WindowsAbut
    JobGoesOn
CHECK_DEADLOCK FALSE
