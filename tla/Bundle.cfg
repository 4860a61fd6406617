SPECIFICATION MCSpec
CONSTANTS
    Procs = {p1, p2, p3}
    None = None
    Migrators = {"m1", "m2"}
    MaxEdits = 1
    MaxCrashes = 2
INVARIANTS
    MutualExclusion
    MigrationIsSafe
PROPERTIES
    OnlyOwnLockRemoved
    ImplementsSection
    BundleRecovers
CHECK_DEADLOCK FALSE
