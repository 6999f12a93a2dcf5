SPECIFICATION Spec
CONSTANTS
    alice = alice
    bob = bob
    Users = {alice, bob}
    MaxPendingWrites = 3
    LossyFinish = TRUE
    MaxWrites = 3
    MaxWaiters = 0
    MaxAbandoned = 0
    MaxFaults = 0
CHECK_DEADLOCK FALSE
INVARIANTS
    ErrorMeansRejected
