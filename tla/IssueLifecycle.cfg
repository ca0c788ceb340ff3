\* One terminal, two issues; a call fails, or a command is killed, anywhere
SPECIFICATION Spec
CONSTANTS
    i1 = i1
    i2 = i2
    t1 = t1
    Nobody = Nobody
    Issues = {i1, i2}
    Terminals = {t1}
    MaxChanges = 2
    MaxFaults = 1
    Moves <- Preparations
INVARIANTS
    LifecycleInv
    DoneIsMerged
    ReviewHasWork
    
PROPERTIES
    MergesIntoMain
    WorkKept
SYMMETRY IssueSymmetry
