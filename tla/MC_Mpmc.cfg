CONSTANTS
    p1 = p1
    t1 = t1
    t2 = t2
    Producers <- Pushing
    Consumers <- Popping
    Registered <- PoppersFirst
    Leavers <- PurePushers
    MaxThreads = 3
    RetireThreshold = 1
    MaxPushes = 2
    SizeMod = 8
SPECIFICATION Spec
INVARIANTS
    NoStalePointer
    TakenOnce
    EmptyAnswersAreTrue
    NodesAccounted
PROPERTIES
    FifoSteps
