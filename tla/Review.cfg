SPECIFICATION MCSpec
CONSTANTS
    SourceChunks = {"s1"}
    CitationChunks = {"c1"}
    Threads = {"t1", "t2"}
    Calls = {k1, k2, k3}
    MaxEvents = 10
    MaxNoise = 1
    MaxRetries = 1
    MaxAttempts = 2
    Shards = 1
    Artifacts <- MCArtifacts
    Ids = {i1, i2, i3}
    MaxEdits = 1
    MaxTampers = 2
    MaxFaults = 1
    MaxPackEdits = 2
    PackNames <- MCPackNames
    Surfaces = {"a", "b"}
    Invocations = {1, 2}
    Reviewed <- MCReviewed
    Cited <- MCCited
    MaxDamages <- MCMaxDamages
INVARIANTS
    AcceptedHasRead
    CacheIsPinned
    SealedIsWhole
    AttestedIsReviewed
SYMMETRY CallSymmetry
CHECK_DEADLOCK FALSE
