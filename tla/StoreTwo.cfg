SPECIFICATION FairSpec
CONSTANTS
    sidecar = sidecar
    mcp = mcp
    t1 = t1
    t2 = t2
    t3 = t3
    Procs = {sidecar,mcp}
    Threads = {t1,t2,t3}
    Owner <- TwoOwner
    Routes <- TwoRoutes
    Contexts = {c1,c2}
    Runs = {}
    Faults = {"write","read"}
    None = None
    c1 = c1
    c2 = c2
INVARIANTS
    AckedIsServed
PROPERTIES
    EveryCallReturns
