\* A documented promise about an unconfirmed cleanup that the code breaks.
SPECIFICATION Spec
CONSTANTS
    Phases <- MCPhases
    CaseCount <- SmallCaseCount
    MaxSequence = 8
    MaxRecords = 9
INVARIANTS
    UnconfirmedCleanupExitsNonzero
CHECK_DEADLOCK FALSE
