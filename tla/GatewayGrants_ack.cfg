SPECIFICATION Spec
CONSTANTS
    s1 = s1
    s2 = s2
    n1 = n1
    n2 = n2
    Tokens = {t1}
    Subjects = {s1, s2}
    Tenants = {n1, n2}
    Policy <- MCPolicy
    Handlers = {h1}
    Revokers = {r1}
    MaxGrants = 1
    MaxGrantTTL = 1
    MaxTime = 1
CHECK_DEADLOCK FALSE
INVARIANT
    RevocationAckClosesConnection
