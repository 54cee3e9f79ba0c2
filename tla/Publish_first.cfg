SPECIFICATION Spec
CONSTANTS
    p1 = p1
    p2 = p2
    r1 = r1
    Readers <- NoReader
    Procs <- Single
    Depths <- SingleDepths
    MaxRuns = 1
    MaxChanges = 0
    MaxDamaged = 0
    TmpFile = {TRUE}
    Faults = {}
INVARIANTS BaselineRunSucceeds
CHECK_DEADLOCK FALSE
