SPECIFICATION LoopSpec
CONSTANTS
    a = a
    b = b
    Names = {a, b}
    NoName = NoName
    Freq = 0
    Nap = 1
    MaxTime = 1
    MaxCalls = 2
    Configs <- OneConfig
    Workers = {w1, w2}
INVARIANTS
    OneShotOnce
    OneShotUpdatesAll
PROPERTIES
    OneShotComplete
