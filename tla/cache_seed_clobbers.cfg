SPECIFICATION Spec
CONSTANTS
    c1 = c1
    good = good
    Campaigns = {c1}
    Bodies = {good, good2}
    Unloadable = {}
    SeedDocs <- MCSeedDocs
    ApiTasks = {a1}
    Workers = {}
    Faults = {}
PROPERTY SeedPreservesEdits
