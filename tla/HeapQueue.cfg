SPECIFICATION Spec
CONSTANTS
    Names = {a, b, c, d, e}
    NoName = NoName
    Freqs = {0, 1}
    MaxTime = 3
    MaxOps = 2
INVARIANTS
    WellFormed
PROPERTIES
    KeepsSchedule
