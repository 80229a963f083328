SPECIFICATION Spec
CONSTANTS
    Updaters = {u1, u2}
    NumBuilds = 2
    Override = TRUE
    Key <- SharedColumn
    Reprocess = 1
    Window = 3
    Lookback = 3
    Deadline = 2
    Ceiling = 2
    Faults = {"nolock", "slow"}
    MaxTime = 5
    MaxConfig = 2
    MaxFailures = 1
INVARIANTS
    TypeOK
    ConfigApplied
PROPERTIES
    OverwriteOnlyCompressing
