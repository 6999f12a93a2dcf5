SPECIFICATION FairSpec
CONSTANTS
    t1 = t1
    k1 = k1
    k2 = k2
    Targets = {t1}
    Keys = {k1, k2}
    MaxListens = 3
    MaxChanges = 2
    MaxFaults = 2
    MaxReplies = 2
CHECK_DEADLOCK FALSE
INVARIANTS
    ResponsesCounted
    SnapshotsAgree
PROPERTIES
    Converges
