SPECIFICATION FairSpec
CONSTANTS
    BatchSize = 2
    BatchBytes = 3
    Attempts = 2
    MergeAttempts = 2
    GroupSize = 2
    Limit = 2
    MaxHighlights = 1
    InTree <- MCInTree
    Bodies <- MCBodies
    Retain = 1
    MaxSyncs = 1
    MaxRuns = 2
    MaxBuilds = 2
    MaxDays = 2
    MaxStables = 2
\* The world of a behaviour is bounded.
CHECK_DEADLOCK FALSE
INVARIANTS
    EveryChangeOnce
PROPERTIES
    RollingMovesForward
    NotesEnd
