SPECIFICATION AblationSpec
CONSTANTS
    Corpus <- TwoBugs
    MaxPrep = 2
    MaxRuns = 1
    MaxFaults = 0
INVARIANTS
    ChildrenWithinBudget
