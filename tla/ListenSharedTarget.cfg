SPECIFICATION Spec
CONSTANTS
    q1 = q1
    q2 = q2
    q3 = q3
    t1 = t1
    t2 = t2
    a = a
    b = b
    c = c
    d = d
    Listeners = {a, b}
    RemoteListeners = {a}
    Queries = {q1, q2}
    Targets = {t1}
    QueryOf <- MirrorQueryOf
    TargetOf <- MirrorTargetOf
    MaxCalls = 3
CHECK_DEADLOCK FALSE
INVARIANT
    AssertionsHold
