SPECIFICATION Spec
CONSTANTS
    sidecar = sidecar
    mcp = mcp
    t1 = t1
    t2 = t2
    t3 = t3
    Procs = {sidecar}
    Threads = {t1,t2,t3}
    Owner <- OneOwner
    Routes <- OneRoutes
    Contexts = {c1}
    Runs = {r1}
    Faults = {}
    None = None
    c1 = c1
    r1 = r1
INVARIANTS
    PurgeLeavesNothing
