\* An old lease makes recovery take the run away from a healthy worker.
SPECIFICATION Spec
CONSTANTS
    w1 = w1
    w2 = w2
    w3 = w3
    NumRuns = 1
    LoopWorkers <- TwoLoops
    OnceWorkers <- OneOnce
    MaxRetry = 3
    AttemptBound = 3
    FaultBound = 1
    Outcomes = {"awaiting_approval"}
    CancelCommands = {"cancel"}
SYMMETRY LoopSymmetry
PROPERTY OnlyLapsedWorkersAreRecovered
CHECK_DEADLOCK FALSE
