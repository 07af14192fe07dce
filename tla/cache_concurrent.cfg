SPECIFICATION FairSpec
CONSTANTS
    c1 = c1
    good = good
    Campaigns = {c1}
    Bodies = {good, bad}
    Unloadable = {bad}
    SeedDocs <- MCSeedDocs
    ApiTasks = {a1, a2}
    Workers = {w1}
    Faults = {"redis", "mongo", "crash", "edit", "schema"}
PROPERTIES
    Heals
    RepairsLast
    ImplementsDirectory
INVARIANTS
    StaleExplained
