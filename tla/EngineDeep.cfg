SPECIFICATION FairSpec
CONSTANTS
    Sources = {"a", "b"}
    MaxLine = 2
    Corpus <- MCCorpus
    Recut <- MCRecut
    MaxSteps = 3
    NestedSteps = 2
    MaxCalls = 5
    MaxDepth = 2
    MaxFanout = 2
    MaxPicks = 2
    MinCites = 1
    MinRecursions = 1
    Allowed = {"a"}
    None = None
\* The root run ends, and then nothing is left to do.
CHECK_DEADLOCK FALSE
INVARIANTS
    TypeOK
    CitesWereRead
    RecursionsAreReal
    BudgetMeansBound
    TraceNests
    TraceAccountsForCalls
    OkMeetsPolicy
PROPERTIES
    RunEnds
