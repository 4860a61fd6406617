SPECIFICATION MCSpec
CONSTANTS
    Treatments <- TwoTreatments
    Hls = {"v03"}
    Corpora <- TwoCorpora
    MaxEdits = 2
    CellOrder <- TwoCells
    ArmOf <- TwoArms
    Baselines <- ThreeBaselines
    Reps = {1, 2}
    Costs = {"m1", "m2"}
    Margin = 1
    MinPositive = 2
    Outcomes <- MCOutcomes
    Reruns <- MCReruns
    Cases <- MCCases
    Answers <- MCAnswers
    Batches <- MCBatches
    Edits <- MCEdits
INVARIANTS
    LockIsBound
    ReportIsEarned
PROPERTIES
    RowsAreEarned
CHECK_DEADLOCK FALSE
