SPECIFICATION Spec
CONSTANTS
    t1 = t1
    k1 = k1
    k2 = k2
    Targets = {t1}
    Keys = {k1, k2}
    MaxListens = 1
    MaxChanges = 2
    MaxFaults = 2
    MaxReplies = 2
CHECK_DEADLOCK FALSE
INVARIANTS
    CurrentIsEarned
