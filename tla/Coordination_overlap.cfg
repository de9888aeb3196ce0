CONSTANTS
    Ticks = {t1, t2}
    NoTick = NoTick
    Loops = {l1}
    Tools = {}
    NoProc = NoProc
    Heartbeat = 1
    Grace = 1
    Setup = 1
    Sweep = 1
    Silence = 5
    Lease = 5
    Reviews = FALSE
    Faults = {"crash"}
    MaxCrashes = 2
SPECIFICATION Spec
INVARIANTS
    OneCoordinator
