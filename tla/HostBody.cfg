SPECIFICATION FairSpec
CONSTANTS
    q1 = q1
    q2 = q2
    p1 = p1
    p2 = p2
    a1 = a1
    a2 = a2
    Queries = {q1}
    Tasks = {p1,a1,a2}
    QueryOf <- OneQueryOf
    Planner <- OnePlanner
    MaxCalls <- OneMaxCalls
    MaxInFlight = 1
\* Every query ends, and then nothing is left to do.
CHECK_DEADLOCK FALSE
PROPERTIES
    DeadlineEndsRun
