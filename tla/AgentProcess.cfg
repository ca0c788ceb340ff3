\* `kanban run`: the event loop may run dry
SPECIFICATION FairSpec
CONSTANTS
    h1 = h1
    h2 = h2
    Helpers = {h1, h2}
INVARIANTS
    AgentInv
    SuccessIsEarned
    TimeoutEndsGroup
PROPERTIES
    QuietOnceSettled
    Ends
