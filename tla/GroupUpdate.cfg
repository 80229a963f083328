SPECIFICATION Spec
CONSTANTS
    Updaters = {u1}
    NumBuilds = 2
    Override = FALSE
    Key <- OwnColumns
    Reprocess = 1
    Window = 3
    Lookback = 3
    Deadline = 2
    Ceiling = 9
    Faults = {"pending", "tie", "error", "slow"}
    MaxTime = 8
    MaxConfig = 1
    MaxFailures = 1
INVARIANTS
    NoHoles
    NoDuplicates
