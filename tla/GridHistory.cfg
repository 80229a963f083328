CONSTANTS
    MaxReads = 4
    MaxHalvings = 1
    CellCeiling = 11
    FirstResults <- MCFirst
    SecondResults <- MCSecond
    Alerting <- MCAlerting
    Tab <- MCTab
    Features = {"ignore", "fuzzy", "minruns"}
    MethodRows = {"b@m"}
    NoColumn = 0
    BaseName <- MCBaseName
    NumTop = 1
    InfraMessages = {"infra"}
SPECIFICATION HistorySpec
INVARIANTS RoundTrip AlertExact StatusExact FlipsExact
CHECK_DEADLOCK FALSE
