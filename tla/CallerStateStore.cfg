SPECIFICATION Spec
CONSTANTS
    Plans = {p1, p2}
    Values = {v1, v2}
    BadValues = {bad}
    Unbound = Unbound
    NoFile = NoFile
    Torn = Torn
SYMMETRY Interchangeable
CHECK_DEADLOCK FALSE
INVARIANTS
    AckedIsDurable
    NeverTorn
PROPERTIES
    DiskOnlyAdvances
    AckedOnlyGrows
    StrangeRootIsLeftAlone
