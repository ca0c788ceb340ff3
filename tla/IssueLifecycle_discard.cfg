\* A failed issue is moved and run again while its branch is discarded
SPECIFICATION Spec
CONSTANTS
    i1 = i1
    i2 = i2
    t1 = t1
    Nobody = Nobody
    Issues = {i1}
    Terminals = {t1}
    MaxChanges = 1
    MaxFaults = 1
    Moves <- Requeues
PROPERTIES
    WorkKept
