SPECIFICATION Spec
CONSTANTS
    Users = {u1}
    Campaigns = {c1, c2}
    Impressions = {i1, i2, i3}
    Cap = 1
    Slots = 2
    Faults = {"redis", "mongo", "crash", "flush"}
SYMMETRY MCSymmetry
INVARIANTS
    TypeOK
    OvershootBounded
    EvidenceWithinLog
PROPERTIES
    ImplementsCap
CHECK_DEADLOCK FALSE
