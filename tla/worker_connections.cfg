SPECIFICATION Spec
CONSTANTS
    Refreshes = {r1, r2}
    Decays = {d1}
    None = None
    Faults = {"mongo", "redis", "slow"}
INVARIANTS
    TypeOK
    FailureExplained
    LeaksExplained
CHECK_DEADLOCK FALSE
