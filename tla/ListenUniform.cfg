SPECIFICATION Spec
CONSTANTS
    q1 = q1
    q2 = q2
    q3 = q3
    t1 = t1
    t2 = t2
    a = a
    b = b
    c = c
    d = d
    Listeners = {a, b, c, d}
    RemoteListeners = {a, b, c}
    Queries = {q1, q2, q3}
    Targets = {t1, t2}
    QueryOf <- UniformQueryOf
    TargetOf <- MCTargetOf
    MaxCalls = 4
CHECK_DEADLOCK FALSE
INVARIANTS
    AssertionsHold
    WatchedForSomeone
    MapsAgree
PROPERTIES
    ErrorsReachListeners
    StaleRemovalIsNoOp
