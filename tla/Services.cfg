\* One part is active at a time; the bounds are those of each part
SPECIFICATION Spec
CONSTANTS
    None = None
    Torn = Torn
    Letters = {"a", "b"}
    DlqCalls = 3
    DlqLoads = 1
    DlqFaults = 2
    RlTasks = {"a", "b", "c"}
    RlUrgent = {"b"}
    RlSlots = {"s1", "s2"}
    RlSize = 2
    RlCalls = 3
    RlFaults = 1
    StorePaths = 1
    StoreStatuses = {1, 2}
    StoreJobs = {"j1", "j2"}
    StoreCalls = 1
    StoreEdits = 2
    StoreFaults = 1
    SyncTasks = {"t"}
    SyncTexts = {1, 2}
    SyncStates = {"TODO", "DONE"}
    SyncSlots = {"s1", "s2"}
    SyncCalls = 2
    SyncEdits = 1
    SyncFaults = 1
    SessionCalls = {"c1", "c2"}
    Ids = {"i1", "i2"}
    MaxSessions = 1
    MaxCancels = 2
    ToolCalls = {"t1", "t2"}
    MaxCloses = 1
    MaxUses = 3
    MaxNoteEdits = 1
    Listeners = {"l1", "l2"}
    RuleChanges = 2
    RunFaults = 1
    RunChanges = {"x"}
    BoardIssues = {1, 2, 3}
    LookupLimit = 2
    CacheTtl = 1
    CacheTicks = 1
    HttpCalls = {"h1", "h2", "h3"}
    HttpCloses = 1
    HttpForgets = 1
    DraftTasks = {"t"}
    DraftSlots = {"s1", "s2"}
    DraftWindow = 1
    DraftCalls = 2
    DraftFaults = 1
    DraftTouches = 1
    Docs = {"d1", "d2"}
    Handlers = {"h1", "h2"}
    Published = {"TODO", "READY", "REVIEW"}
    MaxPublishes = 3
    MaxSubscribes = 2
    ListenerFaults = 1
INVARIANTS
    QueuesKeep
    StoresAgree
    CallsAnswered
    NotesKept
PROPERTIES
    CallsSettle
CHECK_DEADLOCK FALSE
