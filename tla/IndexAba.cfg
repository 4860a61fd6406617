SPECIFICATION Spec
CONSTANTS
    Procs = {p1}
    None = None
    Files = {f1}
    Contexts = {"c1"}
    Extras = {"e1"}
    Metas = {"t1"}
    Broken = Broken
    Absent = Absent
    SourceStates <- OneManifest
    Profiles = {"libclang"}
    Deltas = {}
    Creators = {}
    AllowRevert = TRUE
    MaxEdits = 2
    MaxFaults = 0
    MaxVariants = 0
INVARIANTS
    GraphMatchesSnapshot
