\* Two specialists, one permit and two reviews of the paper, with one retry and
\* one database error or crash.  With the bound on reviews reached nothing is
\* left to do.
SPECIFICATION FairSpec
CONSTANTS
    RoleCount = 2
    Quorum = 1
    Permits = 1
    FactRoles = {1}
    LiveChecks = TRUE
    Fallback = TRUE
    MaxRetries = 2
    ReviewBound = 2
    FaultBound = 1
INVARIANTS
    OfferedIsComplete
    NoReviewIsStranded
    SynthesisIsOfItsRows
    CacheIsOnRecord
    PassedIsNotPaidAgain
PROPERTIES
    RefinesRows
    JobsEnd
CHECK_DEADLOCK FALSE
