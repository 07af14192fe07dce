SPECIFICATION FairSpec
CONSTANTS
    Keys = {k1, k2}
    Unit = 2
    Events = 1
    Attempts = 3
    Repeats = 1
    Faults = {"redis", "expire"}
INVARIANTS
    TypeOK
    NeverInflated
PROPERTIES
    SuccessHalvesAll
    Fades
    QuietOnlyFades
