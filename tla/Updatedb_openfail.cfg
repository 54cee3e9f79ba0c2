SPECIFICATION Spec
CONSTANTS
    Root = "root"
    Path <- SmallPath
    Parent <- SmallParent
    Rank <- SmallRank
    Content = {1, 2}
    PruneNames = {}
    PrunePaths = {}
    FineClock = TRUE
    Margin = 1
    MaxNow = 4
    RehashAll = FALSE
    Faults = {"open"}
INVARIANT IncrementalSound
