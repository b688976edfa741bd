SPECIFICATION FairSpec
CONSTANTS
    s1 = s1
    s2 = s2
    n1 = n1
    n2 = n2
    Tokens = {t1}
    Subjects = {s1, s2}
    Tenants = {n1, n2}
    Policy <- MCPolicy
    Handlers = {h1, h2}
    Revokers = {r1}
    MaxGrants = 1
    MaxGrantTTL = 2
    MaxTime = 2
CHECK_DEADLOCK FALSE
INVARIANTS
    OneConnectionPerGrant
    TenantIsolation
    LivePermitIsRevocable
    AckedRevokeIsFinal
    NoTransportLeak
PROPERTIES
    ImplementsLease
    WithdrawnTunnelCloses
    RevokeAnswers
