CONSTANTS
    Key = {k1, k2}
    Runner = {r1, r2}
    NoKey = NoKey
    MaxCalls = 4
SPECIFICATION Spec
SYMMETRY Symmetry
CHECK_DEADLOCK FALSE
INVARIANTS
    TypeOK
    AtMostOneEffect
    JournalFirst
    ReportsAreTrue
PROPERTIES
    KeepsPromise
