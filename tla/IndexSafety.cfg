SPECIFICATION Spec
CONSTANTS
    Procs = {p1, p2}
    None = None
    Files = {f1, f2}
    Contexts = {"c1", "c2"}
    Extras = {"e1", "e2"}
    Metas = {"t1"}
    Broken = Broken
    Absent = Absent
    SourceStates <- ThreeManifests
    Profiles = {"libclang"}
    Deltas = {"d"}
    Creators = {p2}
    AllowRevert = FALSE
    MaxEdits = 2
    MaxFaults = 1
    MaxVariants = 1
CONSTRAINT Focused
INVARIANTS
    GraphMatchesSnapshot
    PublishedWasLive
    VariantLineage
PROPERTIES
    HoldsSection
