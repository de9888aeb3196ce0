CONSTANTS
    Job = {j1, j2}
    Name = {n1, n2}
    Starter = {s1}
    Poller = {q1}
    NoJob = NoJob
    NoName = NoName
    MaxConcurrent = 2
    MaxDuration = 1
    Stubborn = FALSE
SPECIFICATION Spec
SYMMETRY Symmetry
INVARIANTS
    SuccessNeverLost
