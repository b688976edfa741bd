SPECIFICATION FairSpec
CONSTANTS
    Requests = {r1, r2}
    References = {own, other}
    Own = own
CHECK_DEADLOCK FALSE
INVARIANTS BackendIsReleased TunnelIsBacked
PROPERTIES CloseReturns TunnelEndsTogether
