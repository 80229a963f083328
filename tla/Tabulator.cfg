CONSTANTS
    MaxColumns = 3
    MaxTurns = 1
    Results = {"NO_RESULT", "RUNNING"}
    MethodRows = {}
    NoColumn = 0
    Readers = {r1}
    Writers = {w1, w2}
    ExtendState = TRUE
    Filters <- MCFilters
SYMMETRY Symmetry
SPECIFICATION TabSpec
INVARIANTS NoSendAfterClose 
PROPERTIES TabKeeps 
CHECK_DEADLOCK FALSE
