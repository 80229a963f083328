SPECIFICATION FairSpec
CONSTANTS
    Updaters = {u1}
    NumBuilds = 2
    Override = FALSE
    Key <- OwnColumns
    Reprocess = 1
    Window = 3
    Lookback = 3
    Deadline = 2
    Ceiling = 9
    Faults = {"nolock"}
    MaxTime = 7
    MaxConfig = 1
    MaxFailures = 1
PROPERTIES
    FinishedIsShown
