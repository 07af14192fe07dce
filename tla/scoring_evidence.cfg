SPECIFICATION Spec
CONSTANTS
    Countries = {}
    Systems = {ios}
    Categories = {games}
    Positions = {2, 3}
    Nothing = Nothing
    All = All
    Impressions = {i1, i2, i3}
    PriorClicks = 1
    PriorTotal = 4
    PriorStrength = 1
    GlobalStrength = 2
    Grain = 100
    FatigueCap = 2
    Budgets = {0, 100, 1000}
    Faults = {"redis", "expire"}
SYMMETRY MCSymmetry
INVARIANTS
    TypeOK
    EvidenceInItsBucket
    OnlyTheCapZeroes
PROPERTY EvidenceMovesEstimate
CHECK_DEADLOCK FALSE
