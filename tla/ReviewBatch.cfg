SPECIFICATION FairSpec
CONSTANTS
    r1 = r1
    r2 = r2
    Runners = {r1, r2}
    ItemCount = 3
    DailyLimit = 2
    AutoPr = TRUE
    FaultBound = 2
INVARIANT ReviewedOnce SettledBatchHasNoWork LabelMatchesItems
PROPERTY BatchSettles
CHECK_DEADLOCK FALSE
