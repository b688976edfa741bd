SPECIFICATION Spec
CONSTANTS
    MaxPollAttempts = 3
INVARIANTS SingleDispatch ReportedIsTrue GatewaysAreOwned
PROPERTIES CaseEnds
