SPECIFICATION Spec
CONSTANTS
    a = a
    b = b
    x1 = x1
    x2 = x2
    Txns = {a, b}
    Keys = {x1, x2}
    Existing = {x1}
    MaxAttempts = 2
    MaxCalls = 2
    MaxLost = 1
SYMMETRY Symmetry
CHECK_DEADLOCK FALSE
INVARIANTS
    TruthfulResult
    AttemptsUsed
PROPERTIES
    ReadsStillValid
