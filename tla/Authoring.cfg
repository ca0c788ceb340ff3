\* Two writers, two calls; people or the plugin's normalise change the folder twice
SPECIFICATION MCSpec
CONSTANTS
    w1 = w1
    w2 = w2
    a = a
    b = b
    Nobody = Nobody
    Writers = {w1, w2}
    Slugs = {a, b}
    MaxNumber = 2
    MaxCalls = 2
    MaxChanges = 2
INVARIANTS
    AuthoringInv
PROPERTIES
    FreshIds
    NothingOverwritten
    CallsEnd
CHECK_DEADLOCK FALSE
