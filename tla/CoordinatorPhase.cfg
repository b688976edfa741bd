SPECIFICATION FairSpec
CONSTANT MaxPollAttempts = 2
INVARIANTS CompletionIsEarned NothingLeftBehind
PROPERTY PhaseReturns
CHECK_DEADLOCK FALSE
