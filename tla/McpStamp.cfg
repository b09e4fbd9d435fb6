SPECIFICATION FairSpec
CONSTANTS
    Nodes = {1, 2, 3, 4, 5}
    Missing = Missing
    MaxFiles = 2
    Trees <- MCTrees
    MaxCalls = 2
    Slots = 2
    None = None
    Token = TRUE
    Requests <- NoFrames
    Frames <- MCFrames
\* The calls of a behaviour are bounded.
CHECK_DEADLOCK FALSE
INVARIANTS
    ModernIsStamped
