SPECIFICATION MCSpec
CONSTANTS
    Values <- MCValues
    Version <- MCVersion
    Direct = {"direct"}
    Derived = {"derived"}
    Witness <- MCWitness
    Conditions <- MCConditions
    Requireds <- MCRequireds
    Contexts <- MCContexts
    Threads = {t1, t2}
    Sessions = {s1, s2}
    MaxHandles = 1
    Docs = {d1}
    Builders = {b1, b2}
    Searchers = {q1}
    MaxWrites = 2
    MaxEmbedder = 1
    MaxBuilds = 2
    MaxEdits = 1
    MaxFaults = 1
    Rules = {"r1", "r2", "r3", "r4"}
    Bindings = {"b1", "b2", "b3"}
    PackIds = {"a", "b", "c", "d", "e"}
    Registry <- MCRegistry
    Catalogs <- MCCatalogs
    LooseRules <- MCLoose
    Edited = 9
INVARIANTS
    PremisesHold
PROPERTIES
    DeliveredIsReviewed
    ServedIsReviewed
    QuotesTheDocument
    SyncConverges
CHECK_DEADLOCK FALSE
