SPECIFICATION Spec
CONSTANTS
    Tree <- SmallTree
    NamePrefix = {}
    PruneFs <- SmallPruneFs
    conf_prunepaths <- SmallPrunePaths
    Tables <- SmallTables
    Mountings <- SmallMountings
    MaxId = 6
    MaxChanges = 2
    MaxRuns = 2
INVARIANTS
    ListCurrent
    LookupExact
    ScannedOnce
    RunComplete
CHECK_DEADLOCK FALSE
