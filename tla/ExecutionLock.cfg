\* Two callers as the CLI makes them, one with staleMs that is never killed
SPECIFICATION FairLockSpec
CONSTANTS
    p1 = p1
    p2 = p2
    p3 = p3
    Nobody = Nobody
    Procs <- MCProcs
    Mortal <- MCMortal
    StaleCallers <- MCStaleCallers
    Lasting = {}
INVARIANTS
    LockInv
    MutualExclusion
PROPERTIES
    ImplementsSingleLock
    OrphanReplaced
