SPECIFICATION Spec
CONSTANTS
    q = q
    r = r
    Keys = {1}
    Targets = {q, r}
    MaxConcurrent = 1
    Disturbances = 7
CHECK_DEADLOCK FALSE
INVARIANTS
    LimboIsResolved
