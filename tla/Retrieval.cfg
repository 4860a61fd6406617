SPECIFICATION MCSpec
CONSTANTS
    Layer <- MCLayer
    Relations <- MCRelations
    Containing = {"contains"}
    Hardware <- MCHardware
    TermsOf <- MCTerms
    NamesOf <- MCNames
    Refs <- MCRefs
    SubjectOf <- MCSubject
    Receipts <- MCReceipts
    EvidenceOf <- MCEvidence
    Diagnosed <- MCDiagnosed
    Predicted <- MCPredicted
    Rules = {21, 22}
    Bound = {22}
    Scores <- MCScores
    Queries <- MCQueries
    Outputs <- MCOutputs
    Snippets <- MCSnippets
    Scopes = {0, 2}
    TopK = 4
    Depth = 3
    MaxEdges = 2
    Budgets = {6, 17}
    Anchors <- FiveAnchors
    Hits <- TwoHits
    Library <- MCLibrary
    Limit = 2
    MaxEdits = 2
INVARIANTS
    PlanesAreKept
    FactsComeFirst
    CertaintyIsEarned
    PrivateIsOnRecord
PROPERTIES
    RetrievalEnds
CHECK_DEADLOCK FALSE
