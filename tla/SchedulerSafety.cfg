\* Three workers on one run: zombies, stale recoveries, approvals, an operator's
\* cancel, a crash.
SPECIFICATION Spec
CONSTANTS
    w1 = w1
    w2 = w2
    w3 = w3
    NumRuns = 1
    LoopWorkers <- TwoLoops
    OnceWorkers <- OneOnce
    MaxRetry = 2
    AttemptBound = 3
    FaultBound = 1
    Outcomes = {"partial", "awaiting_approval", "failed"}
    CancelCommands = {"cancel"}
SYMMETRY LoopSymmetry
INVARIANTS
    RunningHasLiveLease
    OneWorkerPerAttempt
    ResultIsRecorded
    CancelledRunHoldsNoLease
PROPERTY RefinesLifecycle
\* Nothing is left to do once every worker has exited or died.
CHECK_DEADLOCK FALSE
