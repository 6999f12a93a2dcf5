SPECIFICATION FairSpec
CONSTANTS
    t1 = t1
    t2 = t2
    Targets = {t1, t2}
    MaxWatchStreamFailures = 2
    MaxFaults = 4
INVARIANTS
    AssertionsHold
    OnlineMeansConnected
    DisabledMeansOffline
    NeededMeansStarted
PROPERTIES
    ComesOnline
