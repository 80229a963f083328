SPECIFICATION ReadersSpec
CONSTANTS
    MaxDuplicates = 2
    Numbers <- MCNumbers
    Files <- MCFiles
    Groups = {g1, g2}
    Workers = {w1, w2}
    LockAbove = 0
    NumBuilds <- MCNumBuilds
    Outcomes <- MCOutcomes
    Group <- MCGroup
    Templates <- MCTemplates
    Reprocess = 2
    MaxClock = 4
    MaxInvocations = 2
    Inputs <- MCInputs
    Headers <- MCHeaders
    BuildId <- MCBuildId
    Now = 6
INVARIANTS ResultWhole   FailuresShow
PROPERTY ReadersReturn
CHECK_DEADLOCK FALSE
