SPECIFICATION Spec
CONSTANTS
    Root = "root"
    Path <- WidePath
    Parent <- WideParent
    Rank <- WideRank
    Content = {1}
    PruneNames = {"ax"}
    PrunePaths = {"b"}
    FineClock = TRUE
    Margin = 1
    MaxNow = 4
    RehashAll = FALSE
    Faults = {"open", "olddb", "crash"}
INVARIANT ListingAllOrNothing
