\* A resumed layer that is not concurrent runs its replayed nodes again.
SPECIFICATION Spec
CONSTANTS
    NumNodes <- NodeCount
    Manifests <- OnlyMixed
    Answers = {"ok", "degraded", "failed"}
    MaxAttempts = 2
    PassBound = 2
INVARIANT CompletedNodesAreNotRerun
CHECK_DEADLOCK FALSE
