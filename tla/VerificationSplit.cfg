SPECIFICATION SplitSpec
CONSTANTS
    Item <- MCItem
    Plans <- MCPlans
    Fragile <- MCFragile
    Capacities <- MCCapacities
    MaxEdits = 2
    PackageVersions = {1, 2}
    Batches = {1, 2}
    NumCells = 2
    Indexers = {i1, i2}
    Parser <- MCParser
    Forged = "f"
    SnapshotInputs = {"a"}
    StageOutputs = {"o"}
    MaxTries = 1
    Shards <- TwoShards
INVARIANTS
    SplitVerdictIsOfOneMoment
CHECK_DEADLOCK FALSE
