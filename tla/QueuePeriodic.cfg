SPECIFICATION FairSpec
CONSTANTS
    a = a
    b = b
    Names = {a, b}
    NoName = NoName
    Freq = 2
    Nap = 1
    MaxTime = 4
    MaxCalls = 2
    Configs <- Shrinking
INVARIANTS
    TypeOK
    WithinPeriod
    OversleepOnlyIfRaced
    NothingDropped
PROPERTIES
    KeepsSchedule
    DueIsSent
    CancelEnds
