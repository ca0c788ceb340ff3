\* A recoverer and a run that finishes meanwhile
SPECIFICATION Spec
CONSTANTS
    p1 = p1
    p2 = p2
    r1 = r1
    r2 = r2
    i1 = i1
    i2 = i2
    Nobody = Nobody
    Procs = {p1, p2}
    Mortal = {p1, p2}
    StaleCallers = {}
    Lasting = {}
    Issues = {i1}
    IssueOf <- OneIssueOf
    Recoverers = {r1}
    CrashPoints <- OnceRunning
    PidReuse = FALSE
    Foreign = {}
PROPERTY
    RecoversOnlyRunning
CHECK_DEADLOCK FALSE
