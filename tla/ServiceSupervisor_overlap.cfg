SPECIFICATION Spec
CONSTANTS
    Services = {s1, s2, s3}
    Calls = {}
    Bindings = {b1}
    Unset = Unset
    MaxCommands = 1
    Sequential = FALSE
SYMMETRY Symmetry
CHECK_DEADLOCK FALSE
INVARIANTS OneServiceAtATime
