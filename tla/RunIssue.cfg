\* Up to two failing calls at any step, the note's own included; an edit and a
\* move of the issue between any two of them
SPECIFICATION FairSpec
CONSTANTS
    MaxFailures = 2
    MaxEdits = 1
    MaxMoves = 1
INVARIANTS
    RunInv
    Reported
    Converged
    FaultsEndFailed
    ArtifactsAgree
PROPERTIES
    EventsFollowNote
    RunningEnds
    GuardedTransitions
    TransitionsKeepEdits
