\* Two runs killed anywhere, one of them another user's and long; one terminal
\* that recovers
SPECIFICATION FairSpec
CONSTANTS
    p1 = p1
    p2 = p2
    r1 = r1
    r2 = r2
    i1 = i1
    i2 = i2
    Nobody = Nobody
    Procs = {p1, p2}
    Mortal = {p1, p2}
    StaleCallers = {}
    Lasting = {p2}
    Issues = {i1, i2}
    IssueOf <- TwoIssueOf
    Recoverers = {r1}
    CrashPoints <- Anywhere
    PidReuse = FALSE
    Foreign = {p2}
INVARIANTS
    RecoveryInv
PROPERTIES
    RunningConverges
CHECK_DEADLOCK FALSE
