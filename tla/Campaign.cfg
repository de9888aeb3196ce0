CONSTANTS
    Fingerprints = {f1}
    Threshold = 2
    Base = 1
    MaxDelay = 1
    Pause = 1
    Procs = {p1, p2}
    NoProc = NoProc
    Duration = 1
    Chaos = FALSE
    MaxCampaigns = 2
    MaxFinished = 1
    MaxEvents = 2
SPECIFICATION Spec
SYMMETRY Symmetry
INVARIANTS
    TypeOK
    NoCampaignForgotten
    OneLateTick
    HostFailuresBounded
PROPERTIES
    ReportSpansCampaign
    ReportIsDue
    QuarantineStays
CHECK_DEADLOCK FALSE
