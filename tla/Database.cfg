SPECIFICATION Spec
CHECK_DEADLOCK FALSE
CONSTANTS
    Scenarios <- MCScenarios
    Corpora <- MCCorpora
    MaxDocid = 16777216
    Slop = 2
    num_overflow_slots = 16
    Piece = 2
INVARIANTS
    IndexExact
    TableSound
    BlockFits
    CursorInStep
    CursorComplete
    DiffExact
    LiveExact
PROPERTY
    TableEnds
