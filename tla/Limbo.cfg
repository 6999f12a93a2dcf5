SPECIFICATION FairSpec
CONSTANTS
    q = q
    r = r
    Keys = {1, 2}
    Targets = {q, r}
    MaxConcurrent = 1
    Disturbances = 5
CHECK_DEADLOCK FALSE
INVARIANTS
    ResolutionsAgree
    NoStrayResolution
    OnlyRejectionOrphans
PROPERTIES
    ViewsSettle
