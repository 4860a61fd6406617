SPECIFICATION FairSpec
CONSTANTS
    Procs = {p1, p2}
    None = None
    Files = {f1}
    Contexts = {"c1", "c2"}
    Extras = {"e1"}
    Metas = {"t1", "t2"}
    Broken = Broken
    Absent = Absent
    SourceStates <- ManySources
    Profiles = {"libclang"}
    Deltas = {}
    Creators = {}
    AllowRevert = TRUE
    MaxEdits = 2
    MaxFaults = 1
    MaxVariants = 0
PROPERTIES
    LedgerOnlyGrows
    Converges
CHECK_DEADLOCK FALSE
