CONSTANTS
    Punctuation = {"-", "/", "!"}
    Illegal = {"!"}
    Lower <- MCLower
    Length <- MCLength
    minNameLength = 3
    maxNameLength = 2048
    Observers = {1, 2}
    Keys <- MCKeys
    Files <- MCFiles
    Overall <- MCOverall
    Refresh = 1
    MaxNow = 2
    MaxCycles = 3
    Watcher = 1
    Deployed <- MCDeployed
    Workers = {w1, w2}
    Allowed = {}
    FindDashboard = FALSE
    Messages = {m1}
    Objects <- MCObjects
    MaxEvents = 3
    MaxSecond = 2
    QNames = {n1, n2}
    QFreq = 2
    MaxClock = 2
    MaxCrashes = 2
    MaxGenerations = 3
    Modes = {"merge", "api", "summarizer", "persist"}
SYMMETRY Symmetry
SPECIFICATION ServicesSpec
INVARIANTS  SavedKept RequestKept TabsCurrent
PROPERTY ApiCatchesUp
CHECK_DEADLOCK FALSE
