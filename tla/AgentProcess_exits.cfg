\* `kanban run`: nothing but two unref'd timers is left to wait for
SPECIFICATION FairSpec
CONSTANTS
    h1 = h1
    h2 = h2
    Helpers = {h1, h2}
PROPERTIES
    Returns
