SPECIFICATION FairSpec
CONSTANTS
    v1 = v1
    JobCount = 3
    Reviews = {v1}
    NoReview = NoReview
    Capacity = 1
    WorkerLimit = 2
    MaxRetries = 2
    FaultBound = 1
INVARIANT JobsAreNotLost AttemptsDoNotOverlap SecondPublishFollowsRetry
PROPERTY JobsSettle ShutdownDrains
CHECK_DEADLOCK FALSE
