SPECIFICATION FairSpec
CONSTANTS
    p1 = p1
    p2 = p2
    r1 = r1
    Readers <- OneReader
    Procs <- Pair
    Depths <- PairDepths
    MaxRuns = 3
    MaxChanges = 1
    MaxDamaged = 1
    TmpFile = {TRUE, FALSE}
    Faults = {"kill", "link", "setup", "rename"}
INVARIANTS TypeOK PublishedComplete ReaderUndisturbed NameKept HistoryFaithful
PROPERTIES Refines NameReturns
CHECK_DEADLOCK FALSE
