\* A job larger than the budget that blocks on a full pipe, and a plain one.
SPECIFICATION FairSpec
CONSTANTS
    e1 = e1
    e2 = e2
    Nobody = Nobody
    Execs = {e1, e2}
    Settings <- AllSettings
    Total = 2
    Volume <- Outputs
    PipeCap = 1
    MaxOut = 2
INVARIANTS TypeOK AliveWithinBudget StatusIsTheChilds OutputIsWhole
PROPERTIES ZombiesAreReaped ExecutionEnds DescriptorsReturned
CHECK_DEADLOCK FALSE
