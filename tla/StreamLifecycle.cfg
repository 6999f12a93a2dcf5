SPECIFICATION FairSpec
CONSTANTS
    MaxBase = 2
    MaxCloses = 3
    MaxBuffered = 2
CHECK_DEADLOCK FALSE
INVARIANTS
    AssertionsHold
    TokenPerStart
    OpenMeansListening
    BackoffGrows
PROPERTIES
    StreamSettles
