\* The issue is approved while a late artifact fails
SPECIFICATION Spec
CONSTANTS
    MaxFailures = 1
    MaxEdits = 0
    MaxMoves = 1
PROPERTIES
    LegalTransitions
