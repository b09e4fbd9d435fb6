SPECIFICATION Spec
CONSTANTS
    Sources = {"a", "b"}
    Corpora <- MCCorpora
    MaxLines = 5
    Targets = {0, 3, 9}
    MinTarget = 2
    MaxChars = 6
    RecutTarget = 2
    MaxDepth = 2
    MaxPicks = 2
    Patterns <- MCPatterns
    HitCaps = {0, 2, 60}
    ContextLines = {0, 1}
    LabelChars = 4
    StopChars = 6
    Rooms = {10, 1000}
\* The last recursion is split, and then nothing is left to do.
CHECK_DEADLOCK FALSE
INVARIANTS
    TypeOK
    SpansAreTrue
    TextIsKept
    SeveralLinesKeepCeiling
    RecursionHasText
    GrepIsTrue
