CONSTANTS
    Output = {o1, o2}
    NoOutput = NoOutput
    Capacity = 1
    Wall = 5
    Silence = 3
    Interval = 3
    Grace = 1
    Reap = 1
    Slow = 1
    MaxLines = 3
    Faults = {"io", "stuck"}
SPECIFICATION FairSpec
INVARIANTS
    TypeOK
    LastWordKept
    BoundedLife
PROPERTIES
    SilenceIsReal
    FirstReasonStays
    EndsWithWriters
    KeepsWatch
CHECK_DEADLOCK FALSE
