\* Any method may be called in any state; a complete or failed machine stops.
SPECIFICATION MachineSpec
CONSTANTS
    Phases <- MCPhases
    CaseCount <- MCCaseCount
    MaxSequence = 10
    MaxRecords = 11
INVARIANTS
    StreamIsWellFormed
    RoomForTerminal
CHECK_DEADLOCK FALSE
