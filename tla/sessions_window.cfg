SPECIFICATION Spec
CONSTANTS
    x = x
    NoName = NoName
    Names = {x}
    Callers <- EveryKind
    SessionIds = {s1, s2}
    NoSession = NoSession
    Tasks = {t1, t2}
    Idle = 2
    Keep = 3
    Faults = {"flush", "crash", "slow"}
SYMMETRY MCSymmetry
INVARIANTS
    TypeOK
    ExpiryIsTheRule
    SessionsAreNotShared
    ServerErrorsExplained
PROPERTY MintJustified
