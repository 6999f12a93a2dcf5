SPECIFICATION FairSpec
CONSTANTS
    alice = alice
    bob = bob
    Users = {alice, bob}
    MaxPendingWrites = 2
    LossyFinish = FALSE
    MaxWrites = 3
    MaxWaiters = 1
    MaxAbandoned = 1
    MaxFaults = 2
CHECK_DEADLOCK FALSE
INVARIANTS
    PipelineIsQueueHead
    ResponsesMatchPipeline
    OkMeansCommitted
    ErrorMeansRejected
    OutcomeIsFinal
    NothingLost
    WaitersAreQueued
    Inv
PROPERTIES
    DecidedInOrder
    WaitersComplete
    ImplementsLog
    WritesResolve
