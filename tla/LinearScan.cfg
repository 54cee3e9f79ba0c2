SPECIFICATION Spec
CONSTANTS
    Options <- SmallOptions
    NumBlocks = 3
    NumThreads = 2
    Chunk = 1
    QueueCap = 1
    Span = 3
    BlockHits <- SmallHits
INVARIANTS
    TypeOK
    OutputInOrder
    DeliversAll
    LimitExact
    NoLostWakeup
PROPERTY Terminates
CHECK_DEADLOCK FALSE
