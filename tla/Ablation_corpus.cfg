SPECIFICATION AblationSpec
CONSTANTS
    Corpus <- SameNames
    MaxPrep = 2
    MaxRuns = 2
    MaxFaults = 1
INVARIANTS
    ResultsPaired
    VerdictHasEvidence
    WorktreesRemoved
    TestedAlone
    ReportBalanced
    SoleBugTested
PROPERTY
    CorpusReturns
