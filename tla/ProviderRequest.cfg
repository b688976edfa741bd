SPECIFICATION Spec
CONSTANTS
    Second = 4
    Lifetime = 8
    MinLeft = 1
    PollInterval = 1
    MaxPollAttempts = 3
    Hints = {1, 2, 4}
    DurationLimit = 16
    Deadlines = {5, 10, 13}
    Horizon = 14
PROPERTIES SentIsAdmitted SignedReadIsSendable RetryIsExplicit
CHECK_DEADLOCK FALSE
