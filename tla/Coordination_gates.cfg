CONSTANTS
    Ticks = {t1, t2}
    NoTick = NoTick
    Loops = {l1}
    Tools = {w1}
    NoProc = NoProc
    Heartbeat = 1
    Grace = 1
    Setup = 1
    Sweep = 1
    Silence = 3
    Lease = 7
    Reviews = FALSE
    Faults = {}
    MaxCrashes = 2
SPECIFICATION Spec
INVARIANTS
    LeaseHeldThroughTick
