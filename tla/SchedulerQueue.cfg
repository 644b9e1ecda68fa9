\* Two runs: claim order, recovery of several runs at once, and cancel-queued.
SPECIFICATION FairSpec
CONSTANTS
    w1 = w1
    w2 = w2
    w3 = w3
    NumRuns = 2
    LoopWorkers <- OneLoop
    OnceWorkers <- OneOnce
    MaxRetry = 2
    AttemptBound = 2
    FaultBound = 1
    Outcomes = {"done"}
    CancelCommands = {"cancel-queued"}
PROPERTIES CancelledIsFinal SubmittedRunsSettle
CHECK_DEADLOCK FALSE
