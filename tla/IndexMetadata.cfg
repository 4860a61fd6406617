SPECIFICATION Spec
CONSTANTS
    Procs = {p1}
    None = None
    Files = {f1}
    Contexts = {"c1"}
    Extras = {"e1"}
    Metas = {"t1", "t2"}
    Broken = Broken
    Absent = Absent
    SourceStates <- WithMetadata
    Profiles = {"libclang"}
    Deltas = {}
    Creators = {}
    AllowRevert = FALSE
    MaxEdits = 2
    MaxFaults = 0
    MaxVariants = 0
INVARIANTS
    SameInputsRecoverSnapshot
