SPECIFICATION Spec
CONSTANTS
    sidecar = sidecar
    mcp = mcp
    t1 = t1
    t2 = t2
    t3 = t3
    Procs = {sidecar}
    Threads = {t1,t2,t3}
    Owner <- OneOwner
    Routes <- OneRoutes
    Contexts = {c1}
    Runs = {r1}
    Faults = {"crash","write","rename","unlink","list","read"}
    None = None
    c1 = c1
    r1 = r1
INVARIANTS
    TypeOK
    AckedIsDurable
    RemovedIsGone
    MirrorWhenQuiet
PROPERTIES
    OnlyAStartRevives
