\* Three manifests, three passes: retries, permits, routes, pauses, cancellation.
SPECIFICATION FairSpec
CONSTANTS
    NumNodes <- NodeCount
    Manifests <- AllManifests
    Answers = {"ok", "degraded", "failed"}
    MaxAttempts = 2
    PassBound = 3
INVARIANTS
    StartedNodesAreReady
    SuccessIsComplete
    ReportIsComplete
    ApprovedNodesProceed
PROPERTY EveryPassReturns
\* A run that returned its last report stops.
CHECK_DEADLOCK FALSE
