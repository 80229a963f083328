SPECIFICATION LoopFairSpec
CONSTANTS
    a = a
    b = b
    Names = {a, b}
    NoName = NoName
    Freq = 1
    Nap = 1
    MaxTime = 1
    MaxCalls = 1
    Configs <- Shrinking
    Workers = {w1, w2}
INVARIANTS
    
    MutualExclusion
PROPERTIES
    UsesQueue
    Terminates
