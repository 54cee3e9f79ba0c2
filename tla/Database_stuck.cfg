SPECIFICATION Spec
CHECK_DEADLOCK FALSE
CONSTANTS
    Scenarios <- StuckSearches
    Corpora <- StuckCorpora
    MaxDocid = 16777216
    Slop = 2
    num_overflow_slots = 16
    Piece = 2
PROPERTY TableAlwaysEnds
