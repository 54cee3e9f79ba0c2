SPECIFICATION Spec
CHECK_DEADLOCK FALSE
CONSTANTS
    Scenarios <- ShortSearches
    Corpora <- ShortCorpora
    MaxDocid = 16777216
    Slop = 2
    num_overflow_slots = 16
    Piece = 2
INVARIANT EveryNameIndexed
