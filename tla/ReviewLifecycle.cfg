SPECIFICATION FairSpec
CONSTANTS
    k1 = k1
    c1 = c1
    ReviewCount = 2
    PrCount = 1
    Commits = {k1}
    Copies = 2
    Openers = {c1}
    CrashBound = 1
    DecisionBound = 1
INVARIANT PublishedWasMerged OneReviewPerCommit
PROPERTY RefinesRows MergedReviewsAreRepaired
CHECK_DEADLOCK FALSE
