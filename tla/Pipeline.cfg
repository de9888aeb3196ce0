CONSTANTS
    Dirt <- SomeDirt
    ReviewEnabled = TRUE
    Limit <- TwoAndOne
    MaxCall = 1
    Faults = {"git", "gates", "human", "io"}
    MaxCommits = 2
    MaxCrashes = 1
    MaxBlind = 1
SPECIFICATION Spec
INVARIANTS
    TypeOK
    UnvettedIsRecorded
    Resumable
    BudgetBound
PROPERTIES
    FinishedIsVetted
