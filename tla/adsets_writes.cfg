SPECIFICATION Spec
CONSTANTS
    k1 = k1
    s0 = s0
    s1 = s1
    s2 = s2
    Campaigns = {k1, k2}
    AdSetIds = {s0, s1, s2}
    Seeded = {k1}
    SeedActive = {k1}
    SeedSets <- MCSeedSets
    Posts <- MCPosts
    Lists = {{s0, s1}}
    Tasks = {t1, t2}
    Edits = {"create", "patch", "delete", "boot"}
    Faults = {"mongo", "redis", "crash"}
SYMMETRY MCSymmetry
INVARIANTS
    TypeOK
    CreatedComplete
    LinksResolve
    LinksKept
