SPECIFICATION FairSpec
CONSTANTS
    Root = "root"
    Path <- SmallPath
    Parent <- SmallParent
    Rank <- SmallRank
    Content = {1, 2}
    PruneNames = {}
    PrunePaths = {}
    FineClock = TRUE
    Margin = 1
    MaxNow = 5
    RehashAll = FALSE
    Faults = {"olddb"}
INVARIANTS
    TypeOK
    IncrementalSound
    HashSound
    QuietRunExact
    HistoryExplains
PROPERTY EventuallyExact
