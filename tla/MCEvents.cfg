SPECIFICATION PayloadSpec
CONSTANTS
    Payloads <- PayloadInstance
    AllowedTypes = {"edit", "new", "log"}
    Threshold = 50
    Now = 9
    Absent = Absent
    Text = Text
    Infinite = Infinite
    None = None
INVARIANTS
    MalformedIsKept
    BytesBalance
    SameHour
    FlaggedMeans
CHECK_DEADLOCK FALSE
