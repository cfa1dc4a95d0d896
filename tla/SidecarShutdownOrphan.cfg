SPECIFICATION Spec
CONSTANTS
    Sessions = {s1}
    Requests = {r1}
    Deleters = {}
    Reaper = reaper
    Shutdown = shutdown
    Pids = {p1, p2}
    Ports = {q1, q2}
    MaxSidecars = 2
    IdleEnabled = FALSE
    MayDisconnect = FALSE
    MaySicken = TRUE
    MayCrash = FALSE
    MayReusePid = FALSE
    None = None
SYMMETRY SymPids
INVARIANTS
    ShutdownLeavesNoChild
