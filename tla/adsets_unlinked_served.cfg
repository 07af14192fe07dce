SPECIFICATION Spec
CONSTANTS
    k1 = k1
    s0 = s0
    s1 = s1
    s2 = s2
    Campaigns = {k1}
    AdSetIds = {s1, s2}
    Seeded = {}
    SeedActive = {}
    SeedSets = {}
    Posts <- MCAnyPost
    Lists = {{}}
    Tasks = {t1}
    Edits = {"create", "patch"}
    Faults = {"mongo"}
PROPERTY OnlyLinkedServed
