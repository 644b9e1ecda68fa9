\* One specialist, a review and the one its moderator asks for.
SPECIFICATION Spec
CONSTANTS
    RoleCount = 1
    Quorum = 1
    Permits = 1
    FactRoles = {1}
    LiveChecks = TRUE
    Fallback = FALSE
    MaxRetries = 1
    ReviewBound = 2
    FaultBound = 0
INVARIANT NotesReachTheAgents
CHECK_DEADLOCK FALSE
