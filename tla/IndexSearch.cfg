SPECIFICATION Spec
CONSTANTS
    Options <- SmallOptions
    QueueDepth = 2
    ReadUnits = 2
    Name <- SmallName
    Ancestors <- SmallAncestors
    StartsWith <- SmallStartsWith
    Rank <- SmallRank
    Queries <- SmallQueries
    Databases <- SmallDatabases
    Settings <- SmallSettings
    NumDocs = 2
    Span = 4
    Ratio = 1
    Ahead = 2
INVARIANTS
    EngineSound
    NoMatchMissed
    OutputExact
    LimitOverAll
    AccessSound
PROPERTY Terminates
CHECK_DEADLOCK FALSE
