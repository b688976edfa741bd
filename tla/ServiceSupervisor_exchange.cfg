SPECIFICATION FairSpec
CONSTANTS
    Services = {s1}
    Calls = {c1, c2}
    Bindings = {b1}
    Unset = Unset
    MaxCommands = 2
    Sequential = TRUE
CHECK_DEADLOCK FALSE
INVARIANTS ExchangeIsExact OwnDeadlineOnly GracefulStop FailedStartLeavesNothing
PROPERTIES EveryCallReturns
