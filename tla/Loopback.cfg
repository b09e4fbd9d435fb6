SPECIFICATION Spec
CONSTANTS
    MaxRuns = 2
    Clients = {k1}
    Other = Other
    None = None
    a1 = a1
    a2 = a2
    Callers = {a1, a2}
    old = old
    new = new
    Keys = {old, new}
    NoKey = NoKey
    TTL = 2
    ProbeTime = 1
    MaxTime = 3
    SecretOf <- Rotated
\* The clock and the runs are bounded.
CHECK_DEADLOCK FALSE
SYMMETRY CallerSymmetry
INVARIANTS
    TypeOK
    LiveStaysPublished
    SentWasProved
