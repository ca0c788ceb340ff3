\* Two files of three ids, one of which is an epic's; two calls of any kind
SPECIFICATION Spec
SYMMETRY Interchangeable
CONSTANTS
    a = a
    b = b
    e = e
    j1 = j1
    j2 = j2
    None = None
    NumPaths = 2
    Ids = {a, b, e}
    Epics = {e}
    Titles = {1, 2}
    Jobs = {j1, j2}
    Start = {"READY"}
    Targets = {"READY", "RUNNING", "elsewhere"}
    MaxEdits = 1
    MaxFailures = 1
INVARIANTS
    BoardInv
    CalmApply
    NoSecondMove
PROPERTIES
    OnlyConfirmed
    SeenDragsSurvive
CHECK_DEADLOCK FALSE
