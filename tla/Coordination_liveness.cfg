CONSTANTS
    Ticks = {t1}
    NoTick = NoTick
    Loops = {l1}
    Tools = {w1}
    NoProc = NoProc
    Heartbeat = 0
    Grace = 0
    Setup = 0
    Sweep = 0
    Silence = 0
    Lease = 2
    Reviews = TRUE
    Faults = {"crash", "io", "db", "heir", "stall"}
    MaxCrashes = 1
SPECIFICATION FairSpec
PROPERTIES
    
    LeaseEventuallyFreed
