\* The adapter stops when it has exited and its processes are gone.
SPECIFICATION FairSpec
CONSTANTS
    Phases <- MCPhases
    CaseCount <- LockedCaseCount
    MaxSequence = 32
    MaxRecords = 33
INVARIANTS
    CompletedMeansCleanCaller
    ConfirmedCleanup
    CredentialsAreContained
    ExitZeroIsTruthful
PROPERTIES
    AdapterExits
    LeftoversEnd
CHECK_DEADLOCK FALSE
